-------------------------- MODULE ScrambledAreaProofs --------------------------
(***************************************************************************)
(* ScrambledArea, proved for every key, nonce, word and content of the     *)
(* memory: the C++ model of scrambling that the simulation uses and the    *)
(* SystemVerilog of the memory are the same functions, scrambling is       *)
(* undone by descrambling, and so each side's functions decode the rows    *)
(* that the other side's functions made.                                   *)
(*                                                                         *)
(* The proofs describe a vector by its bits.  Each layer of the network,   *)
(* of the cipher, of the code and of the packing has lemmas of its own:    *)
(* its two translations agree, it fits its width, and where it is undone,  *)
(* by what.  Finite facts, such as the tables, are checked entry by entry. *)
(***************************************************************************)
EXTENDS ScrambledArea, FiniteSetTheorems, WellFoundedInduction, TLAPS

-----------------------------------------------------------------------------
(* Vectors *)

\* The operators on vectors are the same in the simulation's model and here.
LEMMA SwVectors ==
  /\ \A v, w : Sw!Xor(v, w) = Xor(v, w)
  /\ \A v, lo, n : Sw!Slice(v, lo, n) = Slice(v, lo, n)
  /\ \A v, lo : Sw!At(v, lo) = At(v, lo)
  /\ \A v, n, box : Sw!Substituted(v, n, box) = Substituted(v, n, box)
  /\ \A k, n : Sw!OfNumber(k, n) = OfNumber(k, n)
<1>1. \A v, w : Sw!Xor(v, w) = Xor(v, w)
  BY DEF Sw!Xor, Xor
<1>2. \A v, lo, n : Sw!Slice(v, lo, n) = Slice(v, lo, n)
  BY DEF Sw!Slice, Slice
<1>3. \A v, lo : Sw!At(v, lo) = At(v, lo)
  BY DEF Sw!At, At
<1>4. \A v, n, box : Sw!Substituted(v, n, box) = Substituted(v, n, box)
  BY <1>2, <1>3 DEF Sw!Substituted, Substituted
<1>5. \A k, n : Sw!OfNumber(k, n) = OfNumber(k, n)
  BY DEF Sw!OfNumber, OfNumber
<1>6. QED
  BY <1>1, <1>2, <1>3, <1>4, <1>5

\* And in the model of the hardware.
LEMMA HwVectors ==
  /\ \A v, w : Hw!Xor(v, w) = Xor(v, w)
  /\ \A v, lo, n : Hw!Slice(v, lo, n) = Slice(v, lo, n)
  /\ \A v, lo : Hw!At(v, lo) = At(v, lo)
  /\ \A v, n, box : Hw!Substituted(v, n, box) = Substituted(v, n, box)
  /\ \A k, n : Hw!OfNumber(k, n) = OfNumber(k, n)
<1>1. \A v, w : Hw!Xor(v, w) = Xor(v, w)
  BY DEF Hw!Xor, Xor
<1>2. \A v, lo, n : Hw!Slice(v, lo, n) = Slice(v, lo, n)
  BY DEF Hw!Slice, Slice
<1>3. \A v, lo : Hw!At(v, lo) = At(v, lo)
  BY DEF Hw!At, At
<1>4. \A v, n, box : Hw!Substituted(v, n, box) = Substituted(v, n, box)
  BY <1>2, <1>3 DEF Hw!Substituted, Substituted
<1>5. \A k, n : Hw!OfNumber(k, n) = OfNumber(k, n)
  BY DEF Hw!OfNumber, OfNumber
<1>6. QED
  BY <1>1, <1>2, <1>3, <1>4, <1>5

\* A vector of n bits.
Vector(n) == SUBSET (0 .. n - 1)

\* The bits of a slice.
LEMMA SliceBits ==
  ASSUME NEW v, NEW lo \in Nat, NEW n \in Nat, NEW x
  PROVE  x \in Slice(v, lo, n) <=> x \in 0 .. n - 1 /\ x + lo \in v
<1>1. ASSUME x \in Slice(v, lo, n) PROVE x \in 0 .. n - 1 /\ x + lo \in v
  <2>1. PICK b \in v \cap (lo .. lo + n - 1) : x = b - lo
    BY <1>1 DEF Slice
  <2>2. b \in Int /\ lo <= b /\ b <= lo + n - 1 /\ b \in v
    OBVIOUS
  <2>3. x + lo = b
    BY <2>1, <2>2
  <2>4. QED
    BY <2>1, <2>2, <2>3
<1>2. ASSUME x \in 0 .. n - 1, x + lo \in v PROVE x \in Slice(v, lo, n)
  <2>1. x + lo \in v \cap (lo .. lo + n - 1) /\ x = (x + lo) - lo
    BY <1>2
  <2>2. QED
    BY <2>1 DEF Slice
<1>3. QED
  BY <1>1, <1>2

\* The bits of a vector that is moved up.
LEMMA AtBits ==
  ASSUME NEW v, v \subseteq Nat, NEW lo \in Nat, NEW x
  PROVE  x \in At(v, lo) <=> x \in Nat /\ lo <= x /\ x - lo \in v
<1>1. ASSUME x \in At(v, lo) PROVE x \in Nat /\ lo <= x /\ x - lo \in v
  <2>1. PICK b \in v : x = b + lo
    BY <1>1 DEF At
  <2>2. b \in Nat
    OBVIOUS
  <2>3. x - lo = b
    BY <2>1, <2>2
  <2>4. QED
    BY <2>1, <2>2, <2>3
<1>2. ASSUME x \in Nat, lo <= x, x - lo \in v PROVE x \in At(v, lo)
  <2>1. x = (x - lo) + lo
    BY <1>2
  <2>2. QED
    BY <1>2, <2>1 DEF At
<1>3. QED
  BY <1>1, <1>2

\* A slice of n bits has n bits.
LEMMA SlicesFit ==
  ASSUME NEW v, NEW lo \in Nat, NEW n \in Nat
  PROVE  Slice(v, lo, n) \in Vector(n)
  BY SliceBits DEF Vector

\* The bits of a sum, and the laws of sums.
LEMMA XorBits ==
  /\ \A v, w, x : x \in Xor(v, w) <=> ~(x \in v <=> x \in w)
  /\ \A v, w : Xor(v, w) = Xor(w, v) /\ Xor(Xor(v, w), w) = v /\ Xor(v, {}) = v
  /\ \A u, v, w : Xor(Xor(u, v), w) = Xor(u, Xor(v, w))
  /\ \A S : \A v, w \in SUBSET S : Xor(v, w) \in SUBSET S
<1>1. \A v, w, x : x \in Xor(v, w) <=> ~(x \in v <=> x \in w)
  BY DEF Xor
<1>2. \A v, w : Xor(v, w) = Xor(w, v) /\ Xor(Xor(v, w), w) = v /\ Xor(v, {}) = v
  BY DEF Xor
<1>3. \A u, v, w : Xor(Xor(u, v), w) = Xor(u, Xor(v, w))
  BY DEF Xor
<1>4. \A S : \A v, w \in SUBSET S : Xor(v, w) \in SUBSET S
  BY DEF Xor
<1>5. QED
  BY <1>1, <1>2, <1>3, <1>4

\* A table for nibbles.
NibbleBox == [Vector(4) -> Vector(4)]

\* Bit x of the substituted vector is bit x % 4 of the image of nibble x \div 4.
LEMMA SubstitutedBits ==
  ASSUME NEW v, NEW n \in Nat, NEW box \in NibbleBox, NEW x
  PROVE  x \in Substituted(v, n, box)
           <=> x \in 0 .. 4 * n - 1 /\ x % 4 \in box[Slice(v, 4 * (x \div 4), 4)]
<1>1. \A i \in Nat : box[Slice(v, 4 * i, 4)] \in Vector(4)
  BY SlicesFit, \A i \in Nat : 4 * i \in Nat DEF NibbleBox
<1>2. ASSUME x \in Substituted(v, n, box)
      PROVE  x \in 0 .. 4 * n - 1 /\ x % 4 \in box[Slice(v, 4 * (x \div 4), 4)]
  <2>1. PICK i \in 0 .. n - 1 : x \in At(box[Slice(v, 4 * i, 4)], 4 * i)
    BY <1>2 DEF Substituted
  <2>2. i \in Nat /\ 4 * i \in Nat /\ box[Slice(v, 4 * i, 4)] \subseteq 0 .. 3
    BY <1>1 DEF Vector
  <2>3. x \in Nat /\ 4 * i <= x /\ x - 4 * i \in box[Slice(v, 4 * i, 4)]
    BY <2>1, <2>2, AtBits
  <2>4. x - 4 * i \in 0 .. 3
    BY <2>2, <2>3
  <2>5. x \div 4 = i /\ x % 4 = x - 4 * i /\ x \in 0 .. 4 * n - 1
    BY <2>2, <2>3, <2>4
  <2>6. QED
    BY <2>3, <2>5
<1>3. ASSUME x \in 0 .. 4 * n - 1, x % 4 \in box[Slice(v, 4 * (x \div 4), 4)]
      PROVE  x \in Substituted(v, n, box)
  <2> DEFINE i == x \div 4
  <2>1. i \in 0 .. n - 1 /\ x \in Nat /\ 4 * i <= x /\ x - 4 * i = x % 4 /\ 4 * i \in Nat
    BY <1>3
  <2>2. box[Slice(v, 4 * i, 4)] \subseteq Nat
    BY <1>1, <2>1 DEF Vector
  <2>3. x \in At(box[Slice(v, 4 * i, 4)], 4 * i)
    BY <1>3, <2>1, <2>2, AtBits
  <2>4. QED
    BY <2>1, <2>3 DEF Substituted
<1>4. QED
  BY <1>2, <1>3

-----------------------------------------------------------------------------
(* The substitution and permutation network *)

Keep(v, width, box) ==
  {x \in 0 .. width - 1 : IF x < 4 * (width \div 4)
                          THEN x % 4 \in box[Slice(v, 4 * (x \div 4), 4)] ELSE x \in v}
Flip(v, width) == {b \in 0 .. width - 1 : width - 1 - b \in v}
Forth(v, width) == {b \in 0 .. width - 1 : Hw!Grouped(width)[b] \in v}
Back(v, width) == {Hw!Grouped(width)[b] : b \in v}
S4 == Sw!PresentSbox4
S4Inv == Sw!PresentSbox4Inv
EncRound(v, key, width) == Forth(Flip(Keep(Xor(v, key), width, S4), width), width)
DecRound(v, key, width) == Keep(Flip(Back(Xor(v, key), width), width), width, S4Inv)
Enc(v, key, width) == Xor(EncRound(EncRound(v, key, width), key, width), key)
Dec(v, key, width) == Xor(DecRound(DecRound(v, key, width), key, width), key)

\* All three copies of Box build the same table.
LEMMA BoxesAgree == \A images : Sw!Box(images) = Box(images) /\ Hw!Box(images) = Box(images)
  BY DEF Sw!Box, Hw!Box, Sw!OfNumber, Hw!OfNumber, OfNumber, Box

\* Every list of images gives a table for nibbles.
LEMMA BoxFits == \A images : Box(images) \in NibbleBox
<1> TAKE images
<1>1. \A k : OfNumber(k, 4) \in Vector(4)
  BY DEF OfNumber, Vector
<1>2. SUBSET (0 .. 3) = Vector(4)
  BY DEF Vector
<1>3. QED
  BY <1>1, <1>2 DEF Box, NibbleBox

\* The tables of PRESENT, listed in opposite orders, are the same.
LEMMA PresentBoxes ==
  /\ S4 \in NibbleBox /\ S4Inv \in NibbleBox
  /\ Hw!PresentSbox4 = S4 /\ Hw!PresentSbox4Inv = S4Inv
<1>1. <<12, 5, 6, 11, 9, 0, 10, 13, 3, 14, 15, 8, 4, 7, 1, 2>>
      = [i \in 1 .. 16 |-> <<2, 1, 7, 4, 8, 15, 14, 3, 13, 10, 0, 9, 11, 6, 5, 12>>[17 - i]]
  OBVIOUS
<1>2. <<5, 14, 15, 8, 12, 1, 2, 13, 11, 4, 6, 3, 0, 7, 9, 10>>
      = [i \in 1 .. 16 |-> <<10, 9, 7, 0, 3, 6, 4, 11, 13, 2, 1, 12, 8, 15, 14, 5>>[17 - i]]
  OBVIOUS
<1>3. Hw!PresentSbox4 = S4
  BY <1>1, BoxesAgree DEF S4, Sw!PresentSbox4, Hw!PresentSbox4, Hw!TopFirst
<1>4. Hw!PresentSbox4Inv = S4Inv
  BY <1>2, BoxesAgree DEF S4Inv, Sw!PresentSbox4Inv, Hw!PresentSbox4Inv, Hw!TopFirst
<1>5. QED
  BY <1>3, <1>4, BoxFits, BoxesAgree DEF S4, S4Inv, Sw!PresentSbox4, Sw!PresentSbox4Inv

\* sbox_layer and prim_subst_perm keep the bits beyond the last whole nibble.
LEMMA SboxLayers ==
  ASSUME NEW width \in Nat, NEW v \in Vector(width), NEW box \in NibbleBox
  PROVE  /\ Sw!SboxLayer(v, width, box) = Keep(v, width, box)
         /\ Hw!SboxNibbles(v, width, box) = Keep(v, width, box)
<1> DEFINE n == width \div 4
           Image(x) == x % 4 \in box[Slice(v, 4 * (x \div 4), 4)]
<1>1. n \in Nat /\ 4 * n <= width /\ width < 4 * n + 4
  OBVIOUS
<1>2. v \subseteq 0 .. width - 1
  BY DEF Vector
<1>3. \A x \in v : x \div 4 = n <=> x \notin 0 .. 4 * n - 1
  BY <1>1, <1>2
<1> HIDE DEF n, Image
<1>4. ASSUME NEW x
      PROVE  (x \in Substituted(v, n, box) \/ (x \in v /\ x \notin 0 .. 4 * n - 1))
               <=> x \in Keep(v, width, box)
  <2>1. x \in Substituted(v, n, box)
          <=> x \in 0 .. 4 * n - 1 /\ Image(x)
    BY <1>1, SubstitutedBits DEF Image
  <2>2. x \in Keep(v, width, box)
          <=> x \in 0 .. width - 1 /\ IF x < 4 * n THEN Image(x) ELSE x \in v
    BY DEF Keep, n, Image
  <2>3. x \in 0 .. 4 * n - 1 <=> x \in 0 .. width - 1 /\ x < 4 * n
    BY <1>1
  <2>4. x \in v => x \in 0 .. width - 1
    BY <1>2
  <2>5. QED
    BY <2>1, <2>2, <2>3, <2>4
<1>5. Sw!SboxLayer(v, width, box) = Keep(v, width, box)
  <2>1. Sw!SboxLayer(v, width, box) = Substituted(v, n, box) \cup {b \in v : b \div 4 = n}
    BY SwVectors DEF Sw!SboxLayer, n
  <2>2. ASSUME NEW x PROVE x \in Sw!SboxLayer(v, width, box) <=> x \in Keep(v, width, box)
    BY <1>3, <1>4, <2>1
  <2>3. QED
    BY <2>2
<1>6. Hw!SboxNibbles(v, width, box) = Keep(v, width, box)
  <2>1. Hw!SboxNibbles(v, width, box) = Substituted(v, n, box) \cup (v \ (0 .. 4 * n - 1))
    BY HwVectors DEF Hw!SboxNibbles, n
  <2>2. ASSUME NEW x PROVE x \in Hw!SboxNibbles(v, width, box) <=> x \in Keep(v, width, box)
    BY <1>4, <2>1
  <2>3. QED
    BY <2>2
<1>7. QED
  BY <1>5, <1>6

\* Both sides reverse the bits, and twice is not at all.
LEMMA FlipLayers ==
  ASSUME NEW width \in Nat, NEW v \in Vector(width)
  PROVE  /\ Sw!FlipLayer(v, width) = Flip(v, width)
         /\ Hw!Flipped(v, width) = Flip(v, width)
         /\ Flip(v, width) \in Vector(width)
         /\ Flip(Flip(v, width), width) = v
<1>1. v \subseteq 0 .. width - 1
  BY DEF Vector
<1>2. \A b \in 0 .. width - 1 : width - 1 - b \in 0 .. width - 1 /\ width - 1 - (width - 1 - b) = b
  OBVIOUS
<1>3. Sw!FlipLayer(v, width) = Flip(v, width)
  <2>1. ASSUME NEW x PROVE x \in Sw!FlipLayer(v, width) <=> x \in Flip(v, width)
    <3>1. x \in Sw!FlipLayer(v, width) <=> \E b \in v : x = width - 1 - b
      BY DEF Sw!FlipLayer
    <3>2. QED
      BY <1>1, <1>2, <3>1 DEF Flip
  <2>2. QED
    BY <2>1
<1>4. Hw!Flipped(v, width) = Flip(v, width)
  BY DEF Hw!Flipped, Flip
<1>5. Flip(v, width) \in Vector(width)
  BY DEF Flip, Vector
<1>6. Flip(Flip(v, width), width) = v
  BY <1>1, <1>2 DEF Flip
<1>7. QED
  BY <1>3, <1>4, <1>5, <1>6

\* Bit b of the output of the permutation is bit Grouped(width)[b] of its input; that is
\* a permutation, and the C++ functions of a bit are its inverse and it.
LEMMA Grouping ==
  ASSUME NEW width \in Nat
  PROVE  LET half == width \div 2
             from == Hw!Grouped(width)
             To(b) == IF b = 2 * half THEN b ELSE (b \div 2) + (b % 2) * half
         IN  /\ \A b \in 0 .. width - 1 :
                  /\ from[b] \in 0 .. width - 1 /\ To(b) \in 0 .. width - 1
                  /\ from[To(b)] = b /\ To(from[b]) = b
                  /\ from[b] = IF b = 2 * half THEN b ELSE IF b < half THEN 2 * b
                               ELSE 2 * (b - half) + 1
<1> DEFINE half == width \div 2
           from == Hw!Grouped(width)
           To(b) == IF b = 2 * half THEN b ELSE (b \div 2) + (b % 2) * half
<1>1. half \in Nat /\ 2 * half <= width /\ width <= 2 * half + 1
  OBVIOUS
<1>2. \A b \in 0 .. width - 1 : from[b] = IF b < half THEN 2 * b
                                          ELSE IF b < 2 * half THEN 2 * (b - half) + 1 ELSE b
  BY DEF Hw!Grouped
<1> HIDE DEF half, from
<1>3. \A b \in 0 .. width - 1 : from[b] = IF b = 2 * half THEN b ELSE IF b < half THEN 2 * b
                                          ELSE 2 * (b - half) + 1
  BY <1>1, <1>2
<1>4. \A b \in 0 .. width - 1 : from[b] \in 0 .. width - 1
  BY <1>1, <1>3
<1>5. \A b \in Nat : b % 2 \in 0 .. 1 /\ b \div 2 \in Nat /\ b = 2 * (b \div 2) + (b % 2)
  OBVIOUS
<1>6. ASSUME NEW b \in 0 .. width - 1 PROVE To(b) \in 0 .. width - 1 /\ from[To(b)] = b
  <2>1. CASE b = 2 * half
    BY <1>1, <1>3, <2>1
  <2>2. CASE b # 2 * half /\ b % 2 = 0
    <3>1. To(b) = b \div 2
      BY <1>1, <1>5, <2>2
    <3>2. b < 2 * half
      BY <1>1, <2>2
    <3>3. b \div 2 < half /\ b \div 2 \in Nat /\ 2 * (b \div 2) = b
      BY <1>1, <1>5, <2>2, <3>2
    <3>4. QED
      BY <1>1, <1>3, <3>1, <3>3
  <2>3. CASE b # 2 * half /\ b % 2 = 1
    <3>1. To(b) = b \div 2 + half
      BY <1>1, <1>5, <2>3
    <3>2. b < 2 * half
      BY <1>1, <2>3
    <3>3. b \div 2 < half /\ b \div 2 \in Nat /\ 2 * (b \div 2) + 1 = b
      BY <1>1, <1>5, <2>3, <3>2
    <3>4. QED
      BY <1>1, <1>3, <3>1, <3>3
  <2>4. QED
    BY <1>5, <2>1, <2>2, <2>3
<1>7. ASSUME NEW b \in 0 .. width - 1 PROVE To(from[b]) = b
  <2>1. CASE b = 2 * half
    BY <1>1, <1>3, <2>1
  <2>2. CASE b < half
    <3>1. from[b] = 2 * b /\ 2 * b # 2 * half
      BY <1>1, <1>3, <2>2
    <3>2. (2 * b) % 2 = 0 /\ (2 * b) \div 2 = b
      OBVIOUS
    <3>3. QED
      BY <1>1, <3>1, <3>2
  <2>3. CASE b # 2 * half /\ ~(b < half)
    <3> DEFINE c == b - half
    <3>1. from[b] = 2 * c + 1 /\ c \in Nat /\ 2 * c + 1 # 2 * half
      BY <1>1, <1>3, <2>3
    <3>2. (2 * c + 1) % 2 = 1 /\ (2 * c + 1) \div 2 = c
      BY <3>1
    <3>3. QED
      BY <1>1, <3>1, <3>2
  <2>4. QED
    BY <2>1, <2>2, <2>3
<1>8. QED
  BY <1>3, <1>4, <1>6, <1>7 DEF half, from

\* The C++ moves bits, the hardware picks them: the same permutation and its inverse.
LEMMA PermLayers ==
  ASSUME NEW width \in Nat, NEW v \in Vector(width)
  PROVE  /\ Sw!PermLayer(v, width, FALSE) = Forth(v, width)
         /\ Sw!PermLayer(v, width, TRUE) = Back(v, width)
         /\ Forth(v, width) \in Vector(width) /\ Back(v, width) \in Vector(width)
         /\ Back(Forth(v, width), width) = v
<1> DEFINE half == width \div 2
           from == Hw!Grouped(width)
           To(b) == IF b = 2 * half THEN b ELSE (b \div 2) + (b % 2) * half
           Fro(b) == IF b = 2 * half THEN b ELSE IF b < half THEN 2 * b ELSE 2 * (b - half) + 1
<1>1. \A b \in 0 .. width - 1 : /\ from[b] \in 0 .. width - 1 /\ To(b) \in 0 .. width - 1
                                /\ from[To(b)] = b /\ To(from[b]) = b
                                /\ from[b] = Fro(b)
  BY Grouping
<1>2. v \subseteq 0 .. width - 1
  BY DEF Vector
<1>3. Sw!PermLayer(v, width, FALSE) = {To(b) : b \in v}
  BY DEF Sw!PermLayer
<1>4. Sw!PermLayer(v, width, TRUE) = {Fro(b) : b \in v}
  BY DEF Sw!PermLayer
<1>5. Forth(v, width) = {b \in 0 .. width - 1 : from[b] \in v} /\ Back(v, width) = {from[b] : b \in v}
  BY DEF Forth, Back
<1>6. Back(Forth(v, width), width) = {from[b] : b \in Forth(v, width)}
  BY DEF Back
<1> HIDE DEF half, from, To, Fro
<1>7. {To(b) : b \in v} = {b \in 0 .. width - 1 : from[b] \in v}
  BY <1>1, <1>2
<1>8. {Fro(b) : b \in v} = {from[b] : b \in v}
  BY <1>1, <1>2
<1>9. Forth(v, width) \in Vector(width) /\ Back(v, width) \in Vector(width)
  BY <1>1, <1>2, <1>5 DEF Vector
<1>10. {from[b] : b \in Forth(v, width)} = v
  BY <1>1, <1>2, <1>5
<1>11. QED
  BY <1>3, <1>4, <1>5, <1>6, <1>7, <1>8, <1>9, <1>10

-----------------------------------------------------------------------------
(* Numbers as vectors *)

\* A non-empty set of naturals has a least element: the induction of these proofs.
LEMMA LeastNatural ==
  ASSUME NEW T, T \subseteq Nat, T # {}
  PROVE  \E x \in T : \A y \in T : x <= y
<1> DEFINE R == OpToRel(<, Nat)
<1>1. IsWellFoundedOn(R, Nat)
  BY NatLessThanWellFounded
<1>2. PICK x \in T : \A y \in T : <<y, x>> \notin R
  <2> HIDE DEF R
  <2>1. QED
    BY <1>1, WFMin
<1>3. \A y \in T : ~(y < x)
  BY <1>2 DEF OpToRel
<1>4. QED
  BY <1>3

\* Powers of two double: 32 cases, since arithmetic does not reach the exponent.
LEMMA Doubling == 2^0 = 1 /\ \A n \in 0 .. 31 : 2^(n + 1) = 2 * 2^n
<1> DEFINE Pow(n) == 2^n
<1>1. Pow(0) = 1
  OBVIOUS
<1>2. /\ Pow(1) = 2 * Pow(0) /\ Pow(2) = 2 * Pow(1) /\ Pow(3) = 2 * Pow(2)
      /\ Pow(4) = 2 * Pow(3) /\ Pow(5) = 2 * Pow(4) /\ Pow(6) = 2 * Pow(5)
      /\ Pow(7) = 2 * Pow(6) /\ Pow(8) = 2 * Pow(7) /\ Pow(9) = 2 * Pow(8)
      /\ Pow(10) = 2 * Pow(9) /\ Pow(11) = 2 * Pow(10) /\ Pow(12) = 2 * Pow(11)
      /\ Pow(13) = 2 * Pow(12) /\ Pow(14) = 2 * Pow(13) /\ Pow(15) = 2 * Pow(14)
      /\ Pow(16) = 2 * Pow(15)
  OBVIOUS
<1>3. /\ Pow(17) = 2 * Pow(16) /\ Pow(18) = 2 * Pow(17) /\ Pow(19) = 2 * Pow(18)
      /\ Pow(20) = 2 * Pow(19) /\ Pow(21) = 2 * Pow(20) /\ Pow(22) = 2 * Pow(21)
      /\ Pow(23) = 2 * Pow(22) /\ Pow(24) = 2 * Pow(23) /\ Pow(25) = 2 * Pow(24)
      /\ Pow(26) = 2 * Pow(25) /\ Pow(27) = 2 * Pow(26) /\ Pow(28) = 2 * Pow(27)
      /\ Pow(29) = 2 * Pow(28) /\ Pow(30) = 2 * Pow(29) /\ Pow(31) = 2 * Pow(30)
      /\ Pow(32) = 2 * Pow(31)
  OBVIOUS
<1> HIDE DEF Pow
<1>4. ASSUME NEW n \in 0 .. 31 PROVE Pow(n + 1) = 2 * Pow(n)
  <2>1. \/ n = 0 \/ n = 1 \/ n = 2 \/ n = 3 \/ n = 4 \/ n = 5 \/ n = 6 \/ n = 7 \/ n = 8
        \/ n = 9 \/ n = 10 \/ n = 11 \/ n = 12 \/ n = 13 \/ n = 14 \/ n = 15 \/ n = 16
        \/ n = 17 \/ n = 18 \/ n = 19 \/ n = 20 \/ n = 21 \/ n = 22 \/ n = 23 \/ n = 24
        \/ n = 25 \/ n = 26 \/ n = 27 \/ n = 28 \/ n = 29 \/ n = 30 \/ n = 31
    OBVIOUS
  <2>2. QED
    BY <1>2, <1>3, <2>1
<1>5. QED
  BY <1>1, <1>4 DEF Pow

\* Powers of two are positive.
LEMMA Powers == \A n \in 0 .. 32 : 2^n \in Nat \ {0}
<1> DEFINE T == {n \in 0 .. 32 : 2^n \notin Nat \ {0}}
<1>1. T = {}
  <2> SUFFICES ASSUME T # {} PROVE FALSE
    OBVIOUS
  <2>1. PICK n \in T : \A k \in T : n <= k
    <3>1. T \subseteq Nat
      OBVIOUS
    <3> HIDE DEF T
    <3>2. QED
      BY <3>1, LeastNatural
  <2>2. n \in 0 .. 32 /\ 2^n \notin Nat \ {0} /\ n # 0
    <3>1. 2^0 \in Nat \ {0}
      BY Doubling
    <3>2. QED
      BY <2>1, <3>1
  <2>3. n - 1 \in 0 .. 31 /\ ~(n <= n - 1) /\ n - 1 \in 0 .. 32 /\ n - 1 + 1 = n
    BY <2>2
  <2>4. n - 1 \notin T
    <3> HIDE DEF T
    <3>1. QED
      BY <2>1, <2>3
  <2>5. 2^(n - 1) \in Nat \ {0}
    BY <2>3, <2>4
  <2>6. 2^(n - 1 + 1) = 2 * 2^(n - 1)
    BY <2>3, Doubling
  <2> DEFINE p == 2^(n - 1)
             q == 2^(n - 1 + 1)
  <2>7. q \in Nat \ {0}
    <3>1. p \in Nat \ {0} /\ q = 2 * p
      BY <2>5, <2>6
    <3> HIDE DEF p, q
    <3>2. QED
      BY <3>1
  <2>8. QED
    BY <2>2, <2>3, <2>7
<1>2. QED
  BY <1>1

\* The lowest bit of a number, and the others.
LEMMA OfNumberStep ==
  ASSUME NEW n \in 0 .. 31, NEW k \in Nat, NEW c \in 0 .. 1
  PROVE  \A x \in 0 .. n : x \in OfNumber(2 * k + c, n + 1)
                            <=> IF x = 0 THEN c = 1 ELSE x - 1 \in OfNumber(k, n)
<1> TAKE x \in 0 .. n
<1>1. x \in OfNumber(2 * k + c, n + 1) <=> ((2 * k + c) \div 2^x) % 2 = 1
  BY DEF OfNumber
<1>2. CASE x = 0
  <2>1. (2 * k + c) \div 1 = 2 * k + c /\ (2 * k + c) % 2 = c
    OBVIOUS
  <2>2. QED
    BY <1>1, <1>2, <2>1, Doubling
<1>3. CASE x # 0
  <2>1. x - 1 \in 0 .. 31 /\ x - 1 + 1 = x /\ x - 1 \in 0 .. n - 1 /\ x - 1 \in 0 .. 32
    BY <1>3
  <2>2. 2^x = 2 * 2^(x - 1) /\ 2^(x - 1) \in Nat \ {0}
    BY <2>1, Doubling, Powers
  <2>3. \A p \in Nat \ {0} : (2 * k + c) \div (2 * p) = k \div p
    <3>1. ASSUME NEW p \in Nat \ {0} PROVE (2 * k + c) \div (2 * p) = k \div p
      OBVIOUS
    <3>2. QED
      BY <3>1
  <2>4. (2 * k + c) \div 2^x = k \div 2^(x - 1)
    BY <2>2, <2>3
  <2>5. x - 1 \in OfNumber(k, n) <=> (k \div 2^(x - 1)) % 2 = 1
    BY <2>1 DEF OfNumber
  <2>6. QED
    BY <1>1, <1>3, <2>4, <2>5
<1>4. QED
  BY <1>2, <1>3

\* Numbers below 2^n and vectors of n bits correspond.
LEMMA OfNumberOneToOne ==
  ASSUME NEW n \in 0 .. 32
  PROVE  /\ \A v \in Vector(n) : \E k \in 0 .. 2^n - 1 : OfNumber(k, n) = v
         /\ \A k, m \in 0 .. 2^n - 1 : OfNumber(k, n) = OfNumber(m, n) => k = m
<1> DEFINE Onto(w) == \A v \in Vector(w) : \E k \in 0 .. 2^w - 1 : OfNumber(k, w) = v
           Once(w) == \A k, m \in 0 .. 2^w - 1 : OfNumber(k, w) = OfNumber(m, w) => k = m
           T == {w \in 0 .. 32 : ~(Onto(w) /\ Once(w))}
<1>1. Onto(0) /\ Once(0)
  <2>1. 2^0 = 1
    BY Doubling
  <2>2. \A k : OfNumber(k, 0) = {}
    BY DEF OfNumber
  <2>3. Vector(0) = {{}}
    BY DEF Vector
  <2>4. 0 .. 2^0 - 1 = {0}
    BY <2>1
  <2>5. QED
    BY <2>2, <2>3, <2>4
<1>2. ASSUME NEW w \in 0 .. 31, Onto(w), Once(w) PROVE Onto(w + 1) /\ Once(w + 1)
  <2> DEFINE p == 2^w
             q == 2^(w + 1)
  <2>1. p \in Nat \ {0} /\ q = 2 * p
    <3>1. w \in 0 .. 32
      OBVIOUS
    <3>2. p \in Nat \ {0}
      BY <3>1, Powers
    <3>3. q = 2 * p
      BY Doubling
    <3>4. QED
      BY <3>2, <3>3
  <2>2. ASSUME NEW v \in Vector(w + 1) PROVE \E k \in 0 .. q - 1 : OfNumber(k, w + 1) = v
    <3> DEFINE u == {b \in 0 .. w - 1 : b + 1 \in v}
               c == IF 0 \in v THEN 1 ELSE 0
    <3>1. u \in Vector(w)
      BY DEF Vector
    <3>2. PICK k \in 0 .. p - 1 : OfNumber(k, w) = u
      BY <1>2, <3>1
    <3>3. k \in Nat /\ c \in 0 .. 1 /\ 2 * k + c \in 0 .. q - 1
      <4> HIDE DEF p, q
      <4>1. QED
        BY <2>1
    <3>4. \A x \in 0 .. w : x \in OfNumber(2 * k + c, w + 1)
                           <=> IF x = 0 THEN c = 1 ELSE x - 1 \in OfNumber(k, w)
      BY <3>3, OfNumberStep
    <3>5. \A x \in 0 .. w : x # 0 => (x - 1 \in u <=> x \in v)
      OBVIOUS
    <3>6. \A x \in 0 .. w : x \in OfNumber(2 * k + c, w + 1) <=> x \in v
      BY <3>2, <3>4, <3>5
    <3>7. v \subseteq 0 .. w /\ OfNumber(2 * k + c, w + 1) \subseteq 0 .. w
      BY DEF Vector, OfNumber
    <3>8. OfNumber(2 * k + c, w + 1) = v
      BY <3>6, <3>7
    <3>9. QED
      BY <3>3, <3>8
  <2>3. ASSUME NEW k \in 0 .. q - 1, NEW m \in 0 .. q - 1,
               OfNumber(k, w + 1) = OfNumber(m, w + 1)
        PROVE  k = m
    <3>1. \A j \in 0 .. q - 1 : /\ j \div 2 \in 0 .. p - 1 /\ j % 2 \in 0 .. 1
                               /\ j \div 2 \in Nat /\ j = 2 * (j \div 2) + (j % 2)
      <4> HIDE DEF p, q
      <4>1. QED
        BY <2>1
    <3>2. ASSUME NEW j \in 0 .. q - 1
          PROVE  \A x \in 0 .. w : x \in OfNumber(j, w + 1)
                                   <=> IF x = 0 THEN j % 2 = 1 ELSE x - 1 \in OfNumber(j \div 2, w)
      <4>1. j \div 2 \in Nat /\ j % 2 \in 0 .. 1 /\ 2 * (j \div 2) + (j % 2) = j
        BY <3>1
      <4>2. QED
        BY <4>1, OfNumberStep
    <3>3. (k % 2 = 1) <=> (m % 2 = 1)
      BY <2>3, <3>2
    <3>4. \A x \in 0 .. w - 1 : x \in OfNumber(k \div 2, w) <=> x \in OfNumber(m \div 2, w)
      <4> TAKE x \in 0 .. w - 1
      <4>1. x + 1 \in 0 .. w /\ x + 1 # 0 /\ x + 1 - 1 = x
        OBVIOUS
      <4>2. x + 1 \in OfNumber(k, w + 1) <=> x \in OfNumber(k \div 2, w)
        BY <3>2, <4>1
      <4>3. x + 1 \in OfNumber(m, w + 1) <=> x \in OfNumber(m \div 2, w)
        BY <3>2, <4>1
      <4>4. QED
        BY <2>3, <4>2, <4>3
    <3>5. \A j : OfNumber(j, w) \subseteq 0 .. w - 1
      BY DEF OfNumber
    <3>6. OfNumber(k \div 2, w) = OfNumber(m \div 2, w)
      <4>1. OfNumber(k \div 2, w) \subseteq 0 .. w - 1 /\ OfNumber(m \div 2, w) \subseteq 0 .. w - 1
        BY <3>5
      <4>2. QED
        BY <3>4, <4>1
    <3>7. k \div 2 = m \div 2
      BY <1>2, <3>1, <3>6
    <3>8. k % 2 = m % 2
      BY <3>1, <3>3
    <3>9. QED
      BY <3>1, <3>7, <3>8
  <2>4. QED
    BY <2>2, <2>3
<1>3. T = {}
  <2> SUFFICES ASSUME T # {} PROVE FALSE
    OBVIOUS
  <2>1. PICK w \in T : \A k \in T : w <= k
    <3>1. T \subseteq Nat
      OBVIOUS
    <3> HIDE DEF T
    <3>2. QED
      BY <3>1, LeastNatural
  <2>2. w \in 0 .. 32 /\ ~(Onto(w) /\ Once(w))
    BY <2>1
  <2> HIDE DEF Onto, Once
  <2>3. w # 0
    BY <1>1, <2>2
  <2>4. w - 1 \in 0 .. 31 /\ w - 1 \in 0 .. 32 /\ ~(w <= w - 1) /\ w - 1 + 1 = w
    BY <2>2, <2>3
  <2>5. w - 1 \notin T
    <3> HIDE DEF T
    <3>1. QED
      BY <2>1, <2>4
  <2>6. Onto(w - 1) /\ Once(w - 1)
    BY <2>4, <2>5
  <2>7. Onto(w - 1 + 1) /\ Once(w - 1 + 1)
    BY <1>2, <2>4, <2>6
  <2>8. QED
    BY <2>2, <2>4, <2>7
<1>4. QED
  BY <1>3

-----------------------------------------------------------------------------
(* The network undone *)

\* The table at the vector of k is entry k.
LEMMA BoxOfNumber ==
  ASSUME NEW images, NEW k \in 0 .. 15
  PROVE  Box(images)[OfNumber(k, 4)] = OfNumber(images[k + 1], 4)
<1> DEFINE One(v, b) == IF b \in v THEN 2^b ELSE 0
           NumberOf(v) == One(v, 0) + One(v, 1) + One(v, 2) + One(v, 3)
           v == OfNumber(k, 4)
<1>1. 2^0 = 1 /\ 2^1 = 2 /\ 2^2 = 4 /\ 2^3 = 8
  OBVIOUS
<1>2. v \in SUBSET (0 .. 3)
  BY DEF OfNumber
<1>3. /\ One(v, 0) = k % 2 /\ One(v, 1) = 2 * ((k \div 2) % 2)
      /\ One(v, 2) = 4 * ((k \div 4) % 2) /\ One(v, 3) = 8 * ((k \div 8) % 2)
  <2>1. \A b \in 0 .. 3 : b \in v <=> (k \div 2^b) % 2 = 1
    BY DEF OfNumber
  <2>2. /\ 0 \in v <=> k % 2 = 1
        /\ 1 \in v <=> (k \div 2) % 2 = 1
        /\ 2 \in v <=> (k \div 4) % 2 = 1
        /\ 3 \in v <=> (k \div 8) % 2 = 1
    BY <1>1, <2>1
  <2>3. \A j \in Nat : j % 2 = 0 \/ j % 2 = 1
    OBVIOUS
  <2>4. k \div 2 \in Nat /\ k \div 4 \in Nat /\ k \div 8 \in Nat
    OBVIOUS
  <2> HIDE DEF v
  <2>5. QED
    BY <1>1, <2>2, <2>3, <2>4
<1> HIDE DEF v, One
<1>4. NumberOf(v) = k
  <2>1. /\ k = 2 * (k \div 2) + (k % 2) /\ k \div 2 = 2 * (k \div 4) + ((k \div 2) % 2)
        /\ k \div 4 = 2 * (k \div 8) + ((k \div 4) % 2) /\ (k \div 8) % 2 = k \div 8
        /\ k \div 2 \in Nat /\ k \div 4 \in Nat /\ k \div 8 \in Nat
    OBVIOUS
  <2>2. k % 2 \in Nat /\ (k \div 2) % 2 \in Nat /\ (k \div 4) % 2 \in Nat
    OBVIOUS
  <2>3. QED
    BY <1>3, <2>1, <2>2
<1>5. Box(images)[v] = OfNumber(images[NumberOf(v) + 1], 4)
  BY <1>2 DEF Box, One
<1>6. QED
  BY <1>4, <1>5 DEF v

\* The two tables of PRESENT undo each other.
LEMMA PresentInverse == \A v \in Vector(4) : S4Inv[S4[v]] = v
<1> DEFINE images == <<12, 5, 6, 11, 9, 0, 10, 13, 3, 14, 15, 8, 4, 7, 1, 2>>
           inverse == <<5, 14, 15, 8, 12, 1, 2, 13, 11, 4, 6, 3, 0, 7, 9, 10>>
<1> SUFFICES ASSUME NEW v \in Vector(4) PROVE S4Inv[S4[v]] = v
  OBVIOUS
<1>1. PICK k \in 0 .. 15 : OfNumber(k, 4) = v
  <2>1. 4 \in 0 .. 32 /\ 2^4 = 16
    OBVIOUS
  <2>2. \E k \in 0 .. 2^4 - 1 : OfNumber(k, 4) = v
    BY <2>1, OfNumberOneToOne
  <2>3. QED
    BY <2>1, <2>2
<1>2. \A j \in 0 .. 15 : images[j + 1] \in 0 .. 15 /\ inverse[images[j + 1] + 1] = j
  OBVIOUS
<1>3. S4 = Box(images) /\ S4Inv = Box(inverse)
  BY BoxesAgree DEF S4, S4Inv, Sw!PresentSbox4, Sw!PresentSbox4Inv
<1> HIDE DEF images, inverse
<1>4. S4[v] = OfNumber(images[k + 1], 4)
  BY <1>1, <1>3, BoxOfNumber
<1>5. S4Inv[S4[v]] = OfNumber(inverse[images[k + 1] + 1], 4)
  BY <1>2, <1>3, <1>4, BoxOfNumber
<1>6. QED
  BY <1>1, <1>2, <1>5

\* The substitution layer keeps the width.
LEMMA KeepFits ==
  ASSUME NEW v, NEW width \in Nat, NEW box
  PROVE  Keep(v, width, box) \in Vector(width)
  BY DEF Keep, Vector

\* The inverse table undoes the layer.
LEMMA KeepInverse ==
  ASSUME NEW width \in Nat, NEW v \in Vector(width)
  PROVE  Keep(Keep(v, width, S4), width, S4Inv) = v
<1> DEFINE n == width \div 4
           w == Keep(v, width, S4)
<1>1. n \in Nat /\ 4 * n <= width
  OBVIOUS
<1>2. ASSUME NEW x \in 0 .. width - 1, x < 4 * n
      PROVE  /\ x \div 4 \in 0 .. n - 1 /\ 4 * (x \div 4) \in Nat
             /\ x % 4 \in 0 .. 3 /\ (x % 4) + 4 * (x \div 4) = x
  <2> HIDE DEF n
  <2>1. QED
    BY <1>1, <1>2
<1>3. \A x \in 0 .. width - 1 : x \in w <=> IF x < 4 * n THEN x % 4 \in S4[Slice(v, 4 * (x \div 4), 4)]
                                            ELSE x \in v
  BY DEF Keep
<1>4. \A x : x \in Keep(w, width, S4Inv)
        <=> x \in 0 .. width - 1 /\ IF x < 4 * n THEN x % 4 \in S4Inv[Slice(w, 4 * (x \div 4), 4)]
                                    ELSE x \in w
  BY DEF Keep
<1> HIDE DEF w, n
<1>5. ASSUME NEW i \in 0 .. n - 1 PROVE Slice(w, 4 * i, 4) = S4[Slice(v, 4 * i, 4)]
  <2>1. 4 * i \in Nat /\ 4 \in Nat
    OBVIOUS
  <2>2. S4[Slice(v, 4 * i, 4)] \in Vector(4)
    BY <2>1, SlicesFit, PresentBoxes DEF NibbleBox
  <2>3. ASSUME NEW x \in 0 .. 3 PROVE x + 4 * i \in w <=> x \in S4[Slice(v, 4 * i, 4)]
    <3>1. /\ x + 4 * i \in 0 .. width - 1 /\ x + 4 * i < 4 * n
          /\ (x + 4 * i) \div 4 = i /\ (x + 4 * i) % 4 = x
      BY <1>1
    <3>2. QED
      BY <1>3, <3>1
  <2>4. ASSUME NEW x PROVE x \in Slice(w, 4 * i, 4) <=> x \in S4[Slice(v, 4 * i, 4)]
    <3>1. x \in Slice(w, 4 * i, 4) <=> x \in 0 .. 3 /\ x + 4 * i \in w
      BY <2>1, SliceBits
    <3>2. x \in S4[Slice(v, 4 * i, 4)] => x \in 0 .. 3
      BY <2>2 DEF Vector
    <3>3. QED
      BY <2>3, <3>1, <3>2
  <2>5. QED
    BY <2>4
<1>6. ASSUME NEW x \in 0 .. width - 1, x < 4 * n
      PROVE  x % 4 \in S4Inv[Slice(w, 4 * (x \div 4), 4)] <=> x \in v
  <2> DEFINE i == x \div 4
  <2>1. i \in 0 .. n - 1 /\ 4 * i \in Nat /\ x % 4 \in 0 .. 3 /\ (x % 4) + 4 * i = x
    BY <1>2, <1>6
  <2>2. Slice(v, 4 * i, 4) \in Vector(4)
    BY <2>1, SlicesFit
  <2>3. S4Inv[Slice(w, 4 * i, 4)] = Slice(v, 4 * i, 4)
    BY <1>5, <2>1, <2>2, PresentInverse
  <2>4. x % 4 \in Slice(v, 4 * i, 4) <=> (x % 4) + 4 * i \in v
    BY <2>1, SliceBits
  <2>5. QED
    BY <2>1, <2>3, <2>4
<1>7. v \subseteq 0 .. width - 1
  BY DEF Vector
<1>8. ASSUME NEW x PROVE x \in Keep(w, width, S4Inv) <=> x \in v
  BY <1>3, <1>4, <1>6, <1>7
<1>9. QED
  BY <1>8 DEF w

\* Rounds keep the width.
LEMMA EncRoundFits ==
  ASSUME NEW width \in Nat, NEW v \in Vector(width), NEW key \in Vector(width)
  PROVE  /\ Xor(v, key) \in Vector(width)
         /\ EncRound(v, key, width) \in Vector(width)
         /\ DecRound(v, key, width) \in Vector(width)
<1>1. Xor(v, key) \in Vector(width)
  BY XorBits DEF Vector
<1>2. EncRound(v, key, width) \in Vector(width)
  BY KeepFits, FlipLayers, PermLayers DEF EncRound
<1>3. DecRound(v, key, width) \in Vector(width)
  BY KeepFits DEF DecRound
<1>4. QED
  BY <1>1, <1>2, <1>3

\* A round of encryption, as the inverse round finds it before the XOR with the key.
LEMMA RoundInverse ==
  ASSUME NEW width \in Nat, NEW v \in Vector(width), NEW key \in Vector(width)
  PROVE  DecRound(Xor(EncRound(v, key, width), key), key, width) = Xor(v, key)
<1> DEFINE u == Xor(v, key)
           s == Keep(u, width, S4)
           f == Flip(s, width)
           p == Forth(f, width)
<1>1. u \in Vector(width) /\ s \in Vector(width)
  BY EncRoundFits, KeepFits
<1>2. f \in Vector(width) /\ Flip(f, width) = s
  BY <1>1, FlipLayers
<1>3. p \in Vector(width) /\ Back(p, width) = f
  BY <1>2, PermLayers
<1>4. Keep(s, width, S4Inv) = u
  BY <1>1, KeepInverse
<1>5. EncRound(v, key, width) = p
  BY DEF EncRound
<1>6. Xor(Xor(p, key), key) = p
  BY XorBits
<1> HIDE DEF s, f, p
<1>7. QED
  BY <1>2, <1>3, <1>4, <1>5, <1>6 DEF DecRound

\* Two rounds decrypted after two rounds encrypted give the vector back.
LEMMA DecUndoesEnc ==
  ASSUME NEW width \in Nat, NEW v \in Vector(width), NEW key \in Vector(width)
  PROVE  /\ Enc(v, key, width) \in Vector(width) /\ Dec(v, key, width) \in Vector(width)
         /\ Dec(Enc(v, key, width), key, width) = v
<1> DEFINE a == EncRound(v, key, width)
           b == EncRound(a, key, width)
           c == DecRound(v, key, width)
<1>1. a \in Vector(width) /\ c \in Vector(width)
  BY EncRoundFits
<1>2. b \in Vector(width) /\ DecRound(c, key, width) \in Vector(width)
  BY <1>1, EncRoundFits
<1>3. Xor(b, key) \in Vector(width) /\ Xor(DecRound(c, key, width), key) \in Vector(width)
  BY <1>2, EncRoundFits
<1>4. DecRound(Xor(b, key), key, width) = Xor(a, key)
  BY <1>1, RoundInverse
<1>5. DecRound(Xor(a, key), key, width) = Xor(v, key)
  BY RoundInverse
<1>6. Xor(Xor(v, key), key) = v
  BY XorBits
<1>7. Enc(v, key, width) = Xor(b, key) /\ Dec(v, key, width) = Xor(DecRound(c, key, width), key)
  BY DEF Enc, Dec
<1>8. Dec(Xor(b, key), key, width) = v
  BY <1>4, <1>5, <1>6 DEF Dec
<1>9. QED
  BY <1>3, <1>7, <1>8

-----------------------------------------------------------------------------
(* The network on both sides *)

\* scramble_subst_perm_enc and _dec are two such rounds.
LEMMA SwRounds ==
  ASSUME NEW width \in Nat, NEW v \in Vector(width), NEW key \in Vector(width)
  PROVE  /\ Sw!SubstPermEnc(v, key, width, 2) = Enc(v, key, width)
         /\ Sw!SubstPermDec(v, key, width, 2) = Dec(v, key, width)
<1> DEFINE EncStep(w) == Sw!PermLayer(Sw!FlipLayer(Sw!SboxLayer(Sw!Xor(w, key), width, Sw!PresentSbox4),
                                                   width), width, FALSE)
           DecStep(w) == Sw!SboxLayer(Sw!FlipLayer(Sw!PermLayer(Sw!Xor(w, key), width, TRUE), width),
                                      width, Sw!PresentSbox4Inv)
           enc == CHOOSE s : s = [r \in 0 .. 2 |-> IF r = 0 THEN v ELSE EncStep(s[r - 1])]
           dec == CHOOSE s : s = [r \in 0 .. 2 |-> IF r = 0 THEN v ELSE DecStep(s[r - 1])]
<1>1. Sw!SubstPermEnc(v, key, width, 2) = Sw!Xor(enc[2], key)
  BY DEF Sw!SubstPermEnc
<1>2. Sw!SubstPermDec(v, key, width, 2) = Sw!Xor(dec[2], key)
  BY DEF Sw!SubstPermDec
<1>3. ASSUME NEW w \in Vector(width)
      PROVE  EncStep(w) = EncRound(w, key, width) /\ DecStep(w) = DecRound(w, key, width)
  <2>1. Xor(w, key) \in Vector(width) /\ Sw!Xor(w, key) = Xor(w, key)
    BY EncRoundFits, SwVectors
  <2>2. EncStep(w) = EncRound(w, key, width)
    <3> DEFINE a == Xor(w, key)
               b == Keep(a, width, S4)
               c == Flip(b, width)
    <3>1. Sw!SboxLayer(a, width, Sw!PresentSbox4) = b
      BY <2>1, SboxLayers, PresentBoxes DEF S4
    <3>2. Sw!FlipLayer(b, width) = c /\ c \in Vector(width)
      BY KeepFits, FlipLayers
    <3>3. Sw!PermLayer(c, width, FALSE) = Forth(c, width)
      BY <3>2, PermLayers
    <3>4. QED
      BY <2>1, <3>1, <3>2, <3>3 DEF EncRound
  <2>3. DecStep(w) = DecRound(w, key, width)
    <3> DEFINE a == Xor(w, key)
               b == Back(a, width)
               c == Flip(b, width)
    <3>1. Sw!PermLayer(a, width, TRUE) = b /\ b \in Vector(width)
      BY <2>1, PermLayers
    <3>2. Sw!FlipLayer(b, width) = c /\ c \in Vector(width)
      BY <3>1, FlipLayers
    <3>3. Sw!SboxLayer(c, width, Sw!PresentSbox4Inv) = Keep(c, width, S4Inv)
      BY <3>2, SboxLayers, PresentBoxes DEF S4Inv
    <3>4. QED
      BY <2>1, <3>1, <3>2, <3>3 DEF DecRound
  <2>4. QED
    BY <2>2, <2>3
<1> HIDE DEF EncStep, DecStep
<1>4. enc[0] = v /\ enc[1] = EncStep(enc[0]) /\ enc[2] = EncStep(enc[1])
  <2> DEFINE s == [r \in 0 .. 2 |-> IF r = 0 THEN v ELSE IF r = 1 THEN EncStep(v) ELSE EncStep(EncStep(v))]
  <2>1. s = [r \in 0 .. 2 |-> IF r = 0 THEN v ELSE EncStep(s[r - 1])]
    OBVIOUS
  <2>2. enc = [r \in 0 .. 2 |-> IF r = 0 THEN v ELSE EncStep(enc[r - 1])]
    BY <2>1
  <2> HIDE DEF enc
  <2>3. QED
    BY <2>2
<1>5. dec[0] = v /\ dec[1] = DecStep(dec[0]) /\ dec[2] = DecStep(dec[1])
  <2> DEFINE s == [r \in 0 .. 2 |-> IF r = 0 THEN v ELSE IF r = 1 THEN DecStep(v) ELSE DecStep(DecStep(v))]
  <2>1. s = [r \in 0 .. 2 |-> IF r = 0 THEN v ELSE DecStep(s[r - 1])]
    OBVIOUS
  <2>2. dec = [r \in 0 .. 2 |-> IF r = 0 THEN v ELSE DecStep(dec[r - 1])]
    BY <2>1
  <2> HIDE DEF dec
  <2>3. QED
    BY <2>2
<1> HIDE DEF enc, dec
<1>6. enc[2] = EncRound(EncRound(v, key, width), key, width)
  BY <1>3, <1>4, EncRoundFits
<1>7. dec[2] = DecRound(DecRound(v, key, width), key, width)
  BY <1>3, <1>5, EncRoundFits
<1>8. QED
  BY <1>1, <1>2, <1>6, <1>7, SwVectors DEF Enc, Dec

\* prim_subst_perm is two such rounds.
LEMMA HwRounds ==
  ASSUME NEW width \in Nat, NEW v \in Vector(width), NEW key \in Vector(width)
  PROVE  /\ Hw!SubstPerm(v, key, width, 2, FALSE) = Enc(v, key, width)
         /\ Hw!SubstPerm(v, key, width, 2, TRUE) = Dec(v, key, width)
<1> DEFINE from == Hw!Grouped(width)
           EncStep(w) == LET flipped == Hw!Flipped(Hw!SboxNibbles(w, width, Hw!PresentSbox4), width)
                         IN {b \in 0 .. width - 1 : from[b] \in flipped}
           DecStep(w) == Hw!SboxNibbles(Hw!Flipped({from[b] : b \in w}, width), width,
                                        Hw!PresentSbox4Inv)
           Step(decrypt, w) == IF decrypt THEN DecStep(Hw!Xor(w, key)) ELSE EncStep(Hw!Xor(w, key))
           state(decrypt) == CHOOSE s : s = [r \in 0 .. 2 |-> IF r = 0 THEN v ELSE Step(decrypt, s[r - 1])]
<1>1. \A decrypt \in BOOLEAN : Hw!SubstPerm(v, key, width, 2, decrypt) = Hw!Xor(state(decrypt)[2], key)
  BY DEF Hw!SubstPerm
<1>2. ASSUME NEW w \in Vector(width)
      PROVE  Step(FALSE, w) = EncRound(w, key, width) /\ Step(TRUE, w) = DecRound(w, key, width)
  <2> DEFINE a == Xor(w, key)
  <2>1. a \in Vector(width) /\ Hw!Xor(w, key) = a
    BY EncRoundFits, HwVectors
  <2>2. EncStep(a) = EncRound(w, key, width)
    <3> DEFINE b == Keep(a, width, S4)
               c == Flip(b, width)
    <3>1. Hw!SboxNibbles(a, width, Hw!PresentSbox4) = b
      BY <2>1, SboxLayers, PresentBoxes
    <3>2. Hw!Flipped(b, width) = c
      BY KeepFits, FlipLayers
    <3>3. QED
      BY <3>1, <3>2 DEF EncRound, Forth
  <2>3. DecStep(a) = DecRound(w, key, width)
    <3> DEFINE b == Back(a, width)
               c == Flip(b, width)
    <3>1. {from[i] : i \in a} = b /\ b \in Vector(width)
      BY <2>1, PermLayers DEF Back
    <3>2. Hw!Flipped(b, width) = c /\ c \in Vector(width)
      BY <3>1, FlipLayers
    <3>3. Hw!SboxNibbles(c, width, Hw!PresentSbox4Inv) = Keep(c, width, S4Inv)
      BY <3>2, SboxLayers, PresentBoxes
    <3>4. QED
      BY <3>1, <3>2, <3>3 DEF DecRound
  <2> HIDE DEF EncStep, DecStep, a
  <2>4. QED
    BY <2>1, <2>2, <2>3
<1> HIDE DEF Step
<1>3. ASSUME NEW decrypt \in BOOLEAN
      PROVE  state(decrypt)[2] = Step(decrypt, Step(decrypt, v))
  <2> DEFINE s == [r \in 0 .. 2 |-> IF r = 0 THEN v ELSE IF r = 1 THEN Step(decrypt, v)
                                    ELSE Step(decrypt, Step(decrypt, v))]
             t == state(decrypt)
  <2>1. s = [r \in 0 .. 2 |-> IF r = 0 THEN v ELSE Step(decrypt, s[r - 1])]
    OBVIOUS
  <2>2. t = [r \in 0 .. 2 |-> IF r = 0 THEN v ELSE Step(decrypt, t[r - 1])]
    BY <2>1
  <2> HIDE DEF t
  <2>3. t[0] = v /\ t[1] = Step(decrypt, t[0]) /\ t[2] = Step(decrypt, t[1])
    BY <2>2
  <2>4. t[2] = Step(decrypt, Step(decrypt, v))
    BY <2>3
  <2>5. QED
    BY <2>4 DEF t
<1> HIDE DEF state
<1>4. state(FALSE)[2] = EncRound(EncRound(v, key, width), key, width)
  BY <1>2, <1>3, EncRoundFits
<1>5. state(TRUE)[2] = DecRound(DecRound(v, key, width), key, width)
  BY <1>2, <1>3, EncRoundFits
<1>6. QED
  BY <1>1, <1>4, <1>5, HwVectors DEF Enc, Dec

-----------------------------------------------------------------------------
(* Addresses *)

\* Keys have 128 bits, nonces at most 320.
LEMMA PortsFit ==
  /\ Len(Ports) \in Nat /\ 1 \in 1 .. Len(Ports)
  /\ \A p \in 1 .. Len(Ports) : Ports[p].key \in Vector(128) /\ Ports[p].nonce \in Vector(320)
<1> DEFINE Port == [key : SUBSET (0 .. 127), nonce : SUBSET (0 .. 319)]
<1>1. Ports \in Seq(Port) /\ Ports # <<>>
  BY AreaAssumption
<1>2. Vector(128) = SUBSET (0 .. 127) /\ Vector(320) = SUBSET (0 .. 319)
  BY DEF Vector
<1> HIDE DEF Port
<1>3. Len(Ports) \in Nat /\ Len(Ports) # 0 /\ \A p \in 1 .. Len(Ports) : Ports[p] \in Port
  BY <1>1
<1>4. \A p \in 1 .. Len(Ports) : Ports[p].key \in Vector(128) /\ Ports[p].nonce \in Vector(320)
  BY <1>2, <1>3 DEF Port
<1>5. QED
  BY <1>3, <1>4

\* Addresses are numbers of AddrWidth bits.
LEMMA AddressesFit ==
  /\ AddrWidth \in Nat /\ AddrWidth \in 0 .. 32
  /\ \A a \in Addrs : a \in PhysAddr /\ AddrBits(a) \in Vector(AddrWidth)
<1>1. AddrWidth \in Nat /\ AddrWidth \in 0 .. 32 /\ Addrs \subseteq PhysAddr
  BY AreaAssumption DEF PhysAddr
<1>2. \A a : AddrBits(a) \in Vector(AddrWidth)
  BY DEF AddrBits, OfNumber, Vector
<1>3. QED
  BY <1>1, <1>2

\* Each vector of AddrWidth bits is one address.
LEMMA AddrIntOneToOne ==
  /\ \A v \in Vector(AddrWidth) : AddrInt(v) \in PhysAddr /\ AddrBits(AddrInt(v)) = v
  /\ \A a, b \in Addrs : AddrBits(a) = AddrBits(b) => a = b
<1>1. AddrWidth \in 0 .. 32 /\ Addrs \subseteq PhysAddr
  BY AddressesFit
<1>2. ASSUME NEW v \in Vector(AddrWidth)
      PROVE  AddrInt(v) \in PhysAddr /\ AddrBits(AddrInt(v)) = v
  <2>1. \E k \in PhysAddr : AddrBits(k) = v
    BY <1>1, OfNumberOneToOne DEF AddrBits, PhysAddr
  <2>2. QED
    BY <2>1 DEF AddrInt
<1>3. ASSUME NEW a \in Addrs, NEW b \in Addrs, AddrBits(a) = AddrBits(b) PROVE a = b
  BY <1>1, <1>3, OfNumberOneToOne DEF AddrBits, PhysAddr
<1>4. QED
  BY <1>2, <1>3

\* Both sides move an address to the same place, and no two addresses to one.
LEMMA Places ==
  ASSUME NEW p \in 1 .. Len(Ports), NEW r \in BOOLEAN
  PROVE  /\ \A a \in Addrs : /\ ToPhysAddr[p][r][a] \in PhysAddr
                             /\ HwAddr[p][r][a] = ToPhysAddr[p][r][a]
         /\ \A a, b \in Addrs : ToPhysAddr[p][r][a] = ToPhysAddr[p][r][b] => a = b
<1> DEFINE key == Slice(Nonce(p, r), GetNonceWidth(r) - AddrWidth, AddrWidth)
           Place(a) == Enc(AddrBits(a), key, AddrWidth)
<1>1. AddrWidth \in Nat /\ \A a \in Addrs : AddrBits(a) \in Vector(AddrWidth)
  BY AddressesFit
<1>2. key \in Vector(AddrWidth)
  <2>1. GetPrinceReplications(r) \in Nat \ {0}
    BY AreaAssumption DEF GetPrinceReplications, GetPhysWidth
  <2>2. GetNonceWidth(r) - AddrWidth \in Nat
    BY <2>1, AreaAssumption DEF GetNonceWidth
  <2>3. QED
    BY <1>1, <2>2, SlicesFit
<1> HIDE DEF key
<1>3. ASSUME NEW a \in Addrs
      PROVE  /\ Place(a) \in Vector(AddrWidth) /\ Dec(Place(a), key, AddrWidth) = AddrBits(a)
             /\ ToPhysAddr[p][r][a] = AddrInt(Place(a)) /\ HwAddr[p][r][a] = AddrInt(Place(a))
  <2>1. Place(a) \in Vector(AddrWidth) /\ Dec(Place(a), key, AddrWidth) = AddrBits(a)
    BY <1>1, <1>2, DecUndoesEnc
  <2>2. Sw!SubstPermEnc(AddrBits(a), key, AddrWidth, 2) = Place(a)
    BY <1>1, <1>2, SwRounds
  <2>3. Hw!SubstPerm(AddrBits(a), key, AddrWidth, 2, FALSE) = Place(a)
    BY <1>1, <1>2, HwRounds
  <2>4. Sw!ScrambleAddr(AddrBits(a), AddrWidth, Nonce(p, r), GetNonceWidth(r)) = Place(a)
    BY <2>2, SwVectors DEF Sw!ScrambleAddr, Sw!NumAddrSubstPermRounds, key
  <2>5. Hw!AddrScr(AddrBits(a), AddrWidth, Nonce(p, r), GetNonceWidth(r)) = Place(a)
    BY <2>3, HwVectors DEF Hw!AddrScr, key
  <2>6. ToPhysAddr[p][r][a] = AddrInt(Place(a))
    BY <2>4 DEF ToPhysAddr
  <2>7. HwAddr[p][r][a] = AddrInt(Place(a))
    BY <2>5 DEF HwAddr
  <2>8. QED
    BY <2>1, <2>6, <2>7
<1> HIDE DEF Place
<1>4. ASSUME NEW a \in Addrs, NEW b \in Addrs, ToPhysAddr[p][r][a] = ToPhysAddr[p][r][b]
      PROVE  a = b
  <2>1. Place(a) = Place(b)
    BY <1>3, <1>4, AddrIntOneToOne
  <2>2. AddrBits(a) = AddrBits(b)
    BY <1>3, <2>1
  <2>3. QED
    BY <2>2, AddrIntOneToOne
<1>5. QED
  BY <1>3, <1>4, AddrIntOneToOne

-----------------------------------------------------------------------------
(* Rows and the chunks of 39 bits they are made of *)

Chunks == [Lane -> Vector(39)]
Assembled(chunks) == UNION {At(chunks[i], 39 * i) : i \in Lane}
Chunk(row, i) == Slice(row, 39 * i, 39)

\* Lanes and their first bits are naturals.
LEMMA Lanes ==
  /\ Width32 \in Nat /\ GetPhysWidth \in Nat /\ Row = Vector(39 * Width32)
  /\ \A i \in Lane : i \in Nat /\ 39 * i \in Nat /\ i < Width32
<1>1. Width32 \in Nat
  BY AreaAssumption
<1>2. QED
  BY <1>1 DEF Lane, GetPhysWidth, Row, Vector

\* Bit x of chunk i is bit x + 39 * i of the row.
LEMMA Place39 ==
  ASSUME NEW i \in Lane, NEW x \in 0 .. 38
  PROVE  /\ x + 39 * i \in 0 .. 39 * Width32 - 1
         /\ (x + 39 * i) \div 39 = i /\ (x + 39 * i) % 39 = x
<1>1. Width32 \in Nat /\ i \in Nat /\ i < Width32
  BY Lanes
<1>2. QED
  BY <1>1

\* Every bit of the row is a bit of one chunk.
LEMMA Place39Of ==
  ASSUME NEW x \in 0 .. 39 * Width32 - 1
  PROVE  /\ x \div 39 \in Lane /\ x % 39 \in 0 .. 38 /\ (x % 39) + 39 * (x \div 39) = x
<1>1. Width32 \in Nat
  BY Lanes
<1>2. QED
  BY <1>1 DEF Lane

\* What is assembled from chunks is a row of just these chunks.
LEMMA AssembledBits ==
  ASSUME NEW chunks \in Chunks
  PROVE  /\ Assembled(chunks) \in Row
         /\ \A i \in Lane : Chunk(Assembled(chunks), i) = chunks[i]
<1>1. \A i \in Lane : chunks[i] \subseteq 0 .. 38
  BY DEF Chunks, Vector
<1>2. ASSUME NEW i \in Lane, NEW x
      PROVE  x \in At(chunks[i], 39 * i) <=> x \in Nat /\ 39 * i <= x /\ x - 39 * i \in chunks[i]
  <2>1. chunks[i] \subseteq Nat /\ 39 * i \in Nat
    BY <1>1, Lanes
  <2>2. QED
    BY <2>1, AtBits
<1>3. ASSUME NEW i \in Lane, NEW x \in At(chunks[i], 39 * i)
      PROVE  /\ x \in 0 .. 39 * Width32 - 1 /\ x \div 39 = i /\ x % 39 \in chunks[i]
  <2>1. x \in Nat /\ x - 39 * i \in chunks[i] /\ x - 39 * i \in 0 .. 38 /\ i \in Nat
    BY <1>1, <1>2, Lanes
  <2> DEFINE y == x - 39 * i
  <2>2. y + 39 * i = x
    BY <2>1
  <2>3. /\ y + 39 * i \in 0 .. 39 * Width32 - 1
        /\ (y + 39 * i) \div 39 = i /\ (y + 39 * i) % 39 = y
    BY <2>1, Place39
  <2>4. QED
    BY <2>1, <2>2, <2>3
<1>4. Assembled(chunks) \in Row
  BY <1>3, Lanes DEF Assembled, Vector
<1>5. ASSUME NEW i \in Lane PROVE Chunk(Assembled(chunks), i) = chunks[i]
  <2>1. ASSUME NEW x \in 0 .. 38 PROVE x + 39 * i \in Assembled(chunks) <=> x \in chunks[i]
    <3>1. /\ (x + 39 * i) \div 39 = i /\ (x + 39 * i) % 39 = x /\ x + 39 * i \in Nat
          /\ 39 * i <= x + 39 * i /\ (x + 39 * i) - 39 * i = x
      <4>1. i \in Nat /\ x \in Nat
        BY Lanes
      <4>2. QED
        BY <4>1, Place39
    <3>2. x + 39 * i \in Assembled(chunks) => x \in chunks[i]
      <4>1. SUFFICES ASSUME x + 39 * i \in Assembled(chunks) PROVE x \in chunks[i]
        OBVIOUS
      <4>2. PICK j \in Lane : x + 39 * i \in At(chunks[j], 39 * j)
        BY <4>1 DEF Assembled
      <4>3. QED
        BY <1>3, <3>1, <4>2
    <3>3. x \in chunks[i] => x + 39 * i \in At(chunks[i], 39 * i)
      BY <1>2, <3>1
    <3>4. QED
      BY <3>2, <3>3 DEF Assembled
  <2>2. ASSUME NEW x PROVE x \in Chunk(Assembled(chunks), i) <=> x \in chunks[i]
    <3>1. x \in Chunk(Assembled(chunks), i) <=> x \in 0 .. 38 /\ x + 39 * i \in Assembled(chunks)
      BY SliceBits, Lanes DEF Chunk
    <3>2. QED
      BY <1>1, <2>1, <3>1
  <2>3. QED
    BY <2>2
<1>6. QED
  BY <1>4, <1>5

\* Rows with the same chunks are the same.
LEMMA RowsByChunks ==
  ASSUME NEW v \in Row, NEW w \in Row, \A i \in Lane : Chunk(v, i) = Chunk(w, i)
  PROVE  v = w
<1>1. v \subseteq 0 .. 39 * Width32 - 1 /\ w \subseteq 0 .. 39 * Width32 - 1
  BY Lanes DEF Vector
<1>2. ASSUME NEW x \in 0 .. 39 * Width32 - 1 PROVE x \in v <=> x \in w
  <2>1. x \div 39 \in Lane /\ x % 39 \in 0 .. 38 /\ (x % 39) + 39 * (x \div 39) = x
    BY Place39Of
  <2>2. \A u : x % 39 \in Chunk(u, x \div 39) <=> x \in u
    BY <2>1, SliceBits, Lanes DEF Chunk
  <2>3. QED
    BY <2>1, <2>2
<1>3. QED
  BY <1>1, <1>2

\* Chunks have 39 bits, and the chunks of a sum are the sums of the chunks.
LEMMA ChunksFit ==
  /\ \A v : \A i \in Lane : Chunk(v, i) \in Vector(39)
  /\ \A v, w : \A i \in Lane : Chunk(Xor(v, w), i) = Xor(Chunk(v, i), Chunk(w, i))
<1>1. ASSUME NEW v, NEW i \in Lane PROVE Chunk(v, i) \in Vector(39)
  BY SlicesFit, Lanes DEF Chunk
<1>2. ASSUME NEW v, NEW w, NEW i \in Lane
      PROVE  Chunk(Xor(v, w), i) = Xor(Chunk(v, i), Chunk(w, i))
  <2>1. \A u, x : x \in Chunk(u, i) <=> x \in 0 .. 38 /\ x + 39 * i \in u
    BY SliceBits, Lanes DEF Chunk
  <2>2. ASSUME NEW x PROVE x \in Chunk(Xor(v, w), i) <=> x \in Xor(Chunk(v, i), Chunk(w, i))
    BY <2>1, XorBits
  <2>3. QED
    BY <2>2
<1>3. QED
  BY <1>1, <1>2

\* Scrambling of rows, chunk by chunk.
EncRow(v, stream) == Assembled([i \in Lane |-> Enc(Chunk(Xor(v, stream), i), {}, 39)])
DecRow(v, stream) == Xor(Assembled([i \in Lane |-> Dec(Chunk(v, i), {}, 39)]), stream)

\* Scrambled chunks are chunks.
LEMMA ChunksScrambled ==
  ASSUME NEW v
  PROVE  /\ [i \in Lane |-> Enc(Chunk(v, i), {}, 39)] \in Chunks
         /\ [i \in Lane |-> Dec(Chunk(v, i), {}, 39)] \in Chunks
<1>1. {} \in Vector(39) /\ 39 \in Nat
  BY DEF Vector
<1>2. QED
  BY <1>1, ChunksFit, DecUndoesEnc DEF Chunks

\* Descrambling undoes scrambling, with the same keystream.
LEMMA DecRowUndoesEncRow ==
  ASSUME NEW v \in Row, NEW stream \in Row
  PROVE  /\ EncRow(v, stream) \in Row /\ DecRow(v, stream) \in Row
         /\ DecRow(EncRow(v, stream), stream) = v
<1> DEFINE u == Xor(v, stream)
           e == [i \in Lane |-> Enc(Chunk(u, i), {}, 39)]
           d == [i \in Lane |-> Dec(Chunk(Assembled(e), i), {}, 39)]
<1>1. u \in Row
  BY XorBits DEF Row
<1>2. e \in Chunks /\ d \in Chunks
  BY ChunksScrambled
<1>3. EncRow(v, stream) = Assembled(e)
  BY DEF EncRow
<1>4. DecRow(Assembled(e), stream) = Xor(Assembled(d), stream)
  BY DEF DecRow
<1>5. EncRow(v, stream) \in Row
  BY <1>2, <1>3, AssembledBits
<1>6. DecRow(v, stream) \in Row
  <2> DEFINE w == Assembled([i \in Lane |-> Dec(Chunk(v, i), {}, 39)])
  <2>1. w \in Row
    BY ChunksScrambled, AssembledBits
  <2>2. DecRow(v, stream) = Xor(w, stream)
    BY DEF DecRow
  <2> HIDE DEF w
  <2>3. Xor(w, stream) \in Row
    BY <2>1, XorBits DEF Row
  <2>4. QED
    BY <2>2, <2>3
<1>7. Assembled(d) \in Row /\ \A i \in Lane : Chunk(Assembled(d), i) = Chunk(u, i)
  <2>1. {} \in Vector(39) /\ 39 \in Nat
    BY DEF Vector
  <2>2. ASSUME NEW i \in Lane PROVE d[i] = Chunk(u, i)
    <3>1. Chunk(Assembled(e), i) = e[i]
      BY <1>2, AssembledBits
    <3>2. d[i] = Dec(e[i], {}, 39) /\ e[i] = Enc(Chunk(u, i), {}, 39)
      BY <3>1
    <3>3. Chunk(u, i) \in Vector(39)
      BY ChunksFit
    <3>4. QED
      BY <2>1, <3>2, <3>3, DecUndoesEnc
  <2> HIDE DEF d
  <2>3. QED
    BY <1>2, <2>2, AssembledBits
<1>8. Assembled(d) = u
  BY <1>1, <1>7, RowsByChunks
<1>9. Xor(u, stream) = v
  BY XorBits
<1>10. QED
  BY <1>3, <1>4, <1>5, <1>6, <1>8, <1>9

\* EncryptData and DecryptData scramble chunk by chunk.
LEMMA SwRows ==
  ASSUME NEW v, NEW stream
  PROVE  /\ Sw!EncryptData(v, GetPhysWidth, 39, stream) = EncRow(v, stream)
         /\ Sw!DecryptData(v, GetPhysWidth, 39, stream) = DecRow(v, stream)
<1> DEFINE Width(i) == IF i * 39 + 39 <= GetPhysWidth THEN 39 ELSE GetPhysWidth - i * 39
           Encd(u, i) == At(Sw!SubstPermEnc(Slice(u, i * 39, Width(i)), {}, Width(i), 2), i * 39)
           Decd(u, i) == At(Sw!SubstPermDec(Slice(u, i * 39, Width(i)), {}, Width(i), 2), i * 39)
           parts == 0 .. (GetPhysWidth + 39 - 1) \div 39 - 1
<1>1. parts = Lane /\ \A i \in Lane : i * 39 = 39 * i /\ Width(i) = 39
  <2>1. Width32 \in Nat
    BY Lanes
  <2>2. QED
    BY <2>1 DEF Lane, GetPhysWidth
<1>2. ASSUME NEW u
      PROVE  /\ Sw!SubstPermFullWidth(u, GetPhysWidth, 39, TRUE) = UNION {Encd(u, i) : i \in parts}
             /\ Sw!SubstPermFullWidth(u, GetPhysWidth, 39, FALSE) = UNION {Decd(u, i) : i \in parts}
  BY SwVectors DEF Sw!SubstPermFullWidth, Sw!NumDataSubstPermRounds
<1>3. ASSUME NEW u, NEW i \in Lane
      PROVE  /\ Encd(u, i) = At(Enc(Chunk(u, i), {}, 39), 39 * i)
             /\ Decd(u, i) = At(Dec(Chunk(u, i), {}, 39), 39 * i)
  <2>1. {} \in Vector(39) /\ 39 \in Nat /\ Chunk(u, i) \in Vector(39)
    BY ChunksFit DEF Vector
  <2>2. i * 39 = 39 * i /\ Width(i) = 39
    BY <1>1
  <2> HIDE DEF Width
  <2>3. QED
    BY <2>1, <2>2, SwRounds DEF Chunk
<1> HIDE DEF Encd, Decd, parts
<1>4. ASSUME NEW u
      PROVE  /\ UNION {Encd(u, i) : i \in parts} = Assembled([i \in Lane |-> Enc(Chunk(u, i), {}, 39)])
             /\ UNION {Decd(u, i) : i \in parts} = Assembled([i \in Lane |-> Dec(Chunk(u, i), {}, 39)])
  BY <1>1, <1>3 DEF Assembled
<1>5. Sw!EncryptData(v, GetPhysWidth, 39, stream) = EncRow(v, stream)
  <2>1. Sw!EncryptData(v, GetPhysWidth, 39, stream) = UNION {Encd(Xor(v, stream), i) : i \in parts}
    BY <1>2, SwVectors DEF Sw!EncryptData
  <2>2. QED
    BY <1>4, <2>1 DEF EncRow
<1>6. Sw!DecryptData(v, GetPhysWidth, 39, stream) = DecRow(v, stream)
  <2>1. Sw!DecryptData(v, GetPhysWidth, 39, stream) = Xor(UNION {Decd(v, i) : i \in parts}, stream)
    BY <1>2, SwVectors DEF Sw!DecryptData
  <2>2. QED
    BY <1>4, <2>1 DEF DecRow
<1>7. QED
  BY <1>5, <1>6

\* And so does prim_ram_1p_scr.
LEMMA HwRows ==
  ASSUME NEW v, NEW stream
  PROVE  /\ Hw!WdataScr(v, stream, GetPhysWidth) = EncRow(v, stream)
         /\ Hw!Rdata(v, stream, GetPhysWidth) = DecRow(v, stream)
<1> DEFINE Width(k) == Hw!LocalWidth(GetPhysWidth, k)
           Encd(u, k) == At(Hw!SubstPerm(Slice(u, k * 39, Width(k)), {}, Width(k), 2, FALSE), k * 39)
           Decd(u, k) == At(Hw!SubstPerm(Slice(u, k * 39, Width(k)), {}, Width(k), 2, TRUE), k * 39)
           parts == Hw!Slices(GetPhysWidth)
<1>1. parts = Lane /\ \A k \in Lane : k * 39 = 39 * k /\ Width(k) = 39
  <2>1. Width32 \in Nat
    BY Lanes
  <2>2. QED
    BY <2>1 DEF Lane, GetPhysWidth, Hw!Slices, Hw!LocalWidth, Hw!DiffWidth
<1>2. /\ Hw!WdataScr(v, stream, GetPhysWidth) = UNION {Encd(Xor(v, stream), k) : k \in parts}
      /\ Hw!Rdata(v, stream, GetPhysWidth) = Xor(UNION {Decd(v, k) : k \in parts}, stream)
  BY HwVectors DEF Hw!WdataScr, Hw!Rdata, Hw!DiffWidth
<1>3. ASSUME NEW u, NEW i \in Lane
      PROVE  /\ Encd(u, i) = At(Enc(Chunk(u, i), {}, 39), 39 * i)
             /\ Decd(u, i) = At(Dec(Chunk(u, i), {}, 39), 39 * i)
  <2>1. {} \in Vector(39) /\ 39 \in Nat /\ Chunk(u, i) \in Vector(39)
    BY ChunksFit DEF Vector
  <2>2. i * 39 = 39 * i /\ Width(i) = 39
    BY <1>1
  <2> HIDE DEF Width
  <2>3. QED
    BY <2>1, <2>2, HwRounds DEF Chunk
<1> HIDE DEF Encd, Decd, parts
<1>4. ASSUME NEW u
      PROVE  /\ UNION {Encd(u, k) : k \in parts} = Assembled([i \in Lane |-> Enc(Chunk(u, i), {}, 39)])
             /\ UNION {Decd(u, k) : k \in parts} = Assembled([i \in Lane |-> Dec(Chunk(u, i), {}, 39)])
  BY <1>1, <1>3 DEF Assembled
<1>5. QED
  BY <1>2, <1>4 DEF EncRow, DecRow

-----------------------------------------------------------------------------
(* The code *)

\* Parity is the same in all three modules.
LEMMA ParitiesAgree == \A v : Sw!Odd(v) = Odd(v) /\ Hw!Odd(v) = Odd(v)
<1>1. \A v : Sw!Odd(v) = Odd(v)
  BY DEF Sw!Odd, Odd, Sw!Cardinality, Cardinality
<1>2. \A v : Hw!Odd(v) = Odd(v)
  BY DEF Hw!Odd, Odd, Hw!Cardinality, Cardinality
<1>3. QED
  BY <1>1, <1>2

\* And so are constants.
LEMMA HalfWordsAgree ==
  \A h : Sw!OfHalfWords(h) = OfHalfWords(h) /\ Hw!OfHalfWords(h) = OfHalfWords(h)
<1>1. \A h : Sw!OfHalfWords(h) = OfHalfWords(h)
  BY SwVectors DEF Sw!OfHalfWords, OfHalfWords
<1>2. \A h : Hw!OfHalfWords(h) = OfHalfWords(h)
  BY HwVectors DEF Hw!OfHalfWords, OfHalfWords
<1>3. QED
  BY <1>1, <1>2

\* One more bit changes the parity.
LEMMA OddStep ==
  /\ ~Odd({})
  /\ \A n \in Nat : \A v \in Vector(n) : \A x : x \notin v => (Odd(v \cup {x}) <=> ~Odd(v))
<1>1. ~Odd({})
  <2>1. Cardinality({}) = 0
    BY FS_EmptySet
  <2>2. QED
    BY <2>1 DEF Odd
<1>2. ASSUME NEW n \in Nat, NEW v \in Vector(n), NEW x, x \notin v
      PROVE  Odd(v \cup {x}) <=> ~Odd(v)
  <2>1. IsFiniteSet(v)
    <3>1. IsFiniteSet(0 .. n - 1)
      BY FS_Interval
    <3>2. QED
      BY <3>1, FS_Subset DEF Vector
  <2>2. Cardinality(v \cup {x}) = Cardinality(v) + 1 /\ Cardinality(v) \in Nat
    BY <1>2, <2>1, FS_AddElement, FS_CardinalityType
  <2>3. \A c \in Nat : (c + 1) % 2 = 1 <=> ~(c % 2 = 1)
    OBVIOUS
  <2>4. QED
    BY <2>2, <2>3 DEF Odd
<1>3. QED
  BY <1>1, <1>2

Mask(i) == OfHalfWords(Masks39[i + 1])

\* The rows of the code are the hardware's parity masks.
LEMMA MasksFit ==
  \A i \in 0 .. 6 : Mask(i) \in Vector(32) /\ Code39.mask[i] = Mask(i) /\ Hw!ParityMask[i] = Mask(i)
<1> TAKE i \in 0 .. 6
<1>1. Code39.mask[i] = Mask(i)
  BY DEF Code39, Code, Mask
<1>2. Hw!ParityMask[i] = Mask(i)
  BY HalfWordsAgree DEF Hw!ParityMask, Mask, Masks39
<1>3. Mask(i) \in Vector(32)
  <2> DEFINE h == Masks39[i + 1]
  <2>1. Len(h) = 2
    BY DEF Masks39
  <2> HIDE DEF h
  <2>2. OfHalfWords(h) = At(OfNumber(h[1], 16), 16) \cup At(OfNumber(h[2], 16), 0)
    <3>1. 1 .. Len(h) = {1, 2} /\ 16 * (Len(h) - 1) = 16 /\ 16 * (Len(h) - 2) = 0
      BY <2>1
    <3>2. QED
      BY <3>1 DEF OfHalfWords
  <2>3. \A k : OfNumber(k, 16) \subseteq 0 .. 15
    BY DEF OfNumber
  <2>4. \A k : At(OfNumber(k, 16), 16) \subseteq 0 .. 31 /\ At(OfNumber(k, 16), 0) \subseteq 0 .. 31
    BY <2>3 DEF At
  <2>5. QED
    BY <2>2, <2>4 DEF Mask, Vector, h
<1>4. QED
  BY <1>1, <1>2, <1>3

\* The hardware inverts check bits 1, 3 and 5.
LEMMA InvertedBits == Hw!Inverted = {33, 35, 37}
<1> DEFINE h == <<42, 0, 0>>
<1>1. Hw!Inverted = OfHalfWords(h)
  BY HalfWordsAgree DEF Hw!Inverted
<1>2. Len(h) = 3 /\ h[1] = 42 /\ h[2] = 0 /\ h[3] = 0
  OBVIOUS
<1> HIDE DEF h
<1>3. OfHalfWords(h) = At(OfNumber(42, 16), 32) \cup At(OfNumber(0, 16), 16) \cup At(OfNumber(0, 16), 0)
  <2>1. 1 .. Len(h) = {1, 2, 3} /\ 16 * (Len(h) - 1) = 32 /\ 16 * (Len(h) - 2) = 16 /\ 16 * (Len(h) - 3) = 0
    BY <1>2
  <2>2. QED
    BY <1>2, <2>1 DEF OfHalfWords
<1>4. OfNumber(42, 16) = {1, 3, 5}
  <2>1. /\ 2^0 = 1 /\ 2^1 = 2 /\ 2^2 = 4 /\ 2^3 = 8 /\ 2^4 = 16 /\ 2^5 = 32
    OBVIOUS
  <2>2. \A b \in 0 .. 15 : b \in {0, 1, 2, 3, 4, 5} \/ b \in 6 .. 15
    OBVIOUS
  <2>3. ASSUME NEW b \in 6 .. 15 PROVE 42 \div 2^b = 0
    <3> DEFINE Pow(n) == 2^n
    <3>1. /\ Pow(6) = 64 /\ Pow(7) = 128 /\ Pow(8) = 256 /\ Pow(9) = 512 /\ Pow(10) = 1024
          /\ Pow(11) = 2048 /\ Pow(12) = 4096 /\ Pow(13) = 8192 /\ Pow(14) = 16384
          /\ Pow(15) = 32768
      OBVIOUS
    <3>2. \A p \in Nat : p > 42 => 42 \div p = 0
      <4>1. ASSUME NEW p \in Nat, p > 42 PROVE 42 \div p = 0
        BY <4>1
      <4>2. QED
        BY <4>1
    <3>3. b \in {6, 7, 8, 9, 10, 11, 12, 13, 14, 15}
      OBVIOUS
    <3> HIDE DEF Pow
    <3>4. Pow(b) \in Nat /\ Pow(b) > 42
      BY <3>1, <3>3
    <3>5. QED
      BY <3>2, <3>4 DEF Pow
  <2>4. /\ (42 \div 1) % 2 = 0 /\ (42 \div 2) % 2 = 1 /\ (42 \div 4) % 2 = 0 /\ (42 \div 8) % 2 = 1
        /\ (42 \div 16) % 2 = 0 /\ (42 \div 32) % 2 = 1 /\ 0 % 2 = 0
    OBVIOUS
  <2>5. ASSUME NEW b \in 0 .. 15 PROVE (42 \div 2^b) % 2 = 1 <=> b \in {1, 3, 5}
    <3>1. CASE b \in 6 .. 15
      <4>1. 42 \div 2^b = 0
        BY <2>3, <3>1
      <4>2. ~((42 \div 2^b) % 2 = 1)
        <5>1. \A q : q = 0 => ~(q % 2 = 1)
          OBVIOUS
        <5>2. QED
          BY ONLY <4>1, <5>1
      <4>3. b \notin {1, 3, 5}
        BY <3>1
      <4>4. QED
        BY <4>2, <4>3
    <3>2. CASE b \in {0, 1, 2, 3, 4, 5}
      BY <2>1, <2>4, <3>2
    <3>3. QED
      BY <2>2, <3>1, <3>2
  <2>6. 16 - 1 = 15 /\ {1, 3, 5} \subseteq 0 .. 15
    OBVIOUS
  <2>7. OfNumber(42, 16) = {b \in 0 .. 15 : (42 \div 2^b) % 2 = 1}
    BY <2>6 DEF OfNumber
  <2>8. QED
    BY <2>5, <2>6, <2>7
<1>5. OfNumber(0, 16) = {}
  <2>1. ASSUME NEW b \in 0 .. 15 PROVE (0 \div 2^b) % 2 = 0
    <3>1. 2^b \in Nat \ {0}
      <4>1. b \in 0 .. 32
        OBVIOUS
      <4>2. QED
        BY <4>1, Powers
    <3>2. \A p \in Nat \ {0} : (0 \div p) % 2 = 0
      OBVIOUS
    <3>3. QED
      BY <3>1, <3>2
  <2>2. 16 - 1 = 15
    OBVIOUS
  <2>3. OfNumber(0, 16) = {b \in 0 .. 15 : (0 \div 2^b) % 2 = 1}
    BY <2>2 DEF OfNumber
  <2>4. \A b \in 0 .. 15 : ~((0 \div 2^b) % 2 = 1)
    <3>1. \A q : q = 0 => ~(q = 1)
      OBVIOUS
    <3>2. QED
      BY ONLY <2>1, <3>1
  <2>5. QED
    BY <2>3, <2>4
<1>6. At({1, 3, 5}, 32) = {33, 35, 37} /\ \A n : At({}, n) = {}
  BY DEF At
<1>7. QED
  BY <1>1, <1>3, <1>4, <1>5, <1>6

\* The check bits of a word, one by one.
LEMMA CheckBitsOf ==
  \A word : /\ CheckBits(word) \in Vector(7)
            /\ \A i \in 0 .. 6 : i \in CheckBits(word) <=> ~(Odd(word \cap Mask(i)) <=> i % 2 = 1)
<1> TAKE word
<1>1. DOMAIN Code39.mask = 0 .. 6
  BY DEF Code39, Code
<1>2. CheckBits(word) = {i \in 0 .. 6 : Odd(word \cap Code39.mask[i]) # (TRUE /\ i % 2 = 1)}
  BY <1>1 DEF CheckBits, EncSecded, CalcParity
<1>3. ASSUME NEW i \in 0 .. 6
      PROVE  i \in CheckBits(word) <=> ~(Odd(word \cap Mask(i)) <=> i % 2 = 1)
  <2>1. i \in CheckBits(word) <=> (Odd(word \cap Mask(i)) # (TRUE /\ i % 2 = 1))
    BY <1>2, MasksFit
  <2>2. Odd(word \cap Mask(i)) \in BOOLEAN
    BY DEF Odd
  <2>3. QED
    BY <2>1, <2>2
<1>4. QED
  BY <1>2, <1>3 DEF Vector

\* A word with its check bits, and what a reader makes of 39 bits.
Coded(word, check) == word \cup At(check, 32)
Checked(code) == [good |-> Slice(code, 32, 7) = CheckBits(code \cap (0 .. 31)),
                  word |-> code \cap (0 .. 31)]

\* The bits of a coded word.
LEMMA CodedBits ==
  ASSUME NEW word \in Word, NEW check \in Vector(7)
  PROVE  /\ Coded(word, check) \in Vector(39)
         /\ Coded(word, check) \cap (0 .. 31) = word
         /\ Slice(Coded(word, check), 32, 7) = check
         /\ \A x : x \in Coded(word, check) <=> x \in word \/ (x \in 32 .. 38 /\ x - 32 \in check)
<1>1. word \subseteq 0 .. 31 /\ check \subseteq 0 .. 6 /\ check \subseteq Nat /\ 32 \in Nat
  BY DEF Word, Vector
<1>2. ASSUME NEW x
      PROVE  x \in Coded(word, check) <=> x \in word \/ (x \in 32 .. 38 /\ x - 32 \in check)
  <2>1. x \in At(check, 32) <=> x \in Nat /\ 32 <= x /\ x - 32 \in check
    BY <1>1, AtBits
  <2>2. x \in Nat /\ x - 32 \in check => x <= 38
    BY <1>1
  <2>3. x \in 32 .. 38 <=> x \in Nat /\ 32 <= x /\ x <= 38
    OBVIOUS
  <2>4. x \in Coded(word, check) <=> x \in word \/ x \in At(check, 32)
    BY DEF Coded
  <2>5. QED
    BY <2>1, <2>2, <2>3, <2>4
<1>3. Coded(word, check) \in Vector(39)
  <2>1. \A x : x \in 0 .. 31 \/ x \in 32 .. 38 => x \in 0 .. 39 - 1
    OBVIOUS
  <2>2. QED
    BY <1>1, <1>2, <2>1 DEF Vector
<1>4. Coded(word, check) \cap (0 .. 31) = word
  <2>1. \A x : ~(x \in 0 .. 31 /\ x \in 32 .. 38)
    OBVIOUS
  <2>2. QED
    BY <1>1, <1>2, <2>1
<1>5. Slice(Coded(word, check), 32, 7) = check
  <2>1. ASSUME NEW x PROVE x \in Slice(Coded(word, check), 32, 7) <=> x \in check
    <3>1. x \in Slice(Coded(word, check), 32, 7) <=> x \in 0 .. 6 /\ x + 32 \in Coded(word, check)
      BY SliceBits
    <3>2. x \in 0 .. 6 => (x + 32 \notin word /\ x + 32 \in 32 .. 38 /\ (x + 32) - 32 = x)
      BY <1>1
    <3>3. QED
      BY <1>1, <1>2, <3>1, <3>2
  <2>2. QED
    BY <2>1
<1>6. QED
  BY <1>2, <1>3, <1>4, <1>5

\* The inverted bits of a coded word are odd check bits.
LEMMA InvertedAt ==
  /\ \A i \in 0 .. 6 : 32 + i \in {33, 35, 37} <=> i % 2 = 1
  /\ \A x \in 0 .. 31 : x \notin {33, 35, 37}
<1>1. \A i \in 0 .. 6 : 32 + i \in {33, 35, 37} <=> i % 2 = 1
  OBVIOUS
<1>2. \A x \in 0 .. 31 : x \notin {33, 35, 37}
  OBVIOUS
<1>3. QED
  BY <1>1, <1>2

\* The hardware's encoder adds just the check bits that the simulation computes.
LEMMA EncodersAgree ==
  ASSUME NEW word \in Word
  PROVE  Hw!SecdedEnc(word) = Coded(word, CheckBits(word))
<1> DEFINE odd == {j \in 0 .. 6 : Odd(word \cap Mask(j))}
<1>1. Hw!SecdedEnc(word) = Xor(Coded(word, odd), {33, 35, 37})
  <2>1. {j \in 0 .. 6 : Hw!Odd(word \cap Hw!ParityMask[j])} = odd
    BY ParitiesAgree, MasksFit
  <2>2. {32 + i : i \in odd} = At(odd, 32)
    BY \A i \in 0 .. 6 : 32 + i = i + 32 DEF At
  <2> HIDE DEF odd
  <2>3. QED
    BY <2>1, <2>2, HwVectors, InvertedBits DEF Hw!SecdedEnc, Coded
<1>2. word \subseteq 0 .. 31
  BY DEF Word
<1>3. odd \in Vector(7) /\ \A i \in 0 .. 6 : i \in odd <=> Odd(word \cap Mask(i))
  BY DEF Vector
<1> HIDE DEF odd
<1>4. ASSUME NEW x
      PROVE  x \in Xor(Coded(word, odd), {33, 35, 37}) <=> x \in Coded(word, CheckBits(word))
  <2>1. /\ x \in Xor(Coded(word, odd), {33, 35, 37}) <=> ~(x \in Coded(word, odd) <=> x \in {33, 35, 37})
        /\ x \in Coded(word, odd) <=> x \in word \/ (x \in 32 .. 38 /\ x - 32 \in odd)
        /\ x \in Coded(word, CheckBits(word)) <=> x \in word \/ (x \in 32 .. 38 /\ x - 32 \in CheckBits(word))
    <3>1. CheckBits(word) \in Vector(7)
      BY CheckBitsOf
    <3> HIDE DEF Coded
    <3>2. QED
      BY <1>3, <3>1, XorBits, CodedBits
  <2>2. CASE x \in 32 .. 38
    <3> DEFINE i == x - 32
    <3>1. i \in 0 .. 6 /\ 32 + i = x /\ x \notin word
      BY <1>2, <2>2
    <3>2. i \in CheckBits(word) <=> ~(i \in odd <=> i % 2 = 1)
      BY <1>3, <3>1, CheckBitsOf
    <3>3. x \in {33, 35, 37} <=> i % 2 = 1
      BY <3>1, InvertedAt
    <3>4. QED
      BY <2>1, <2>2, <3>1, <3>2, <3>3
  <2>3. CASE x \notin 32 .. 38
    <3>1. x \notin {33, 35, 37}
      BY <2>3
    <3>2. QED
      BY <2>1, <2>3, <3>1
  <2>4. QED
    BY <2>2, <2>3
<1>5. QED
  BY <1>1, <1>4

\* The hardware's decoder finds no fault just when the check bits fit.
LEMMA DecodersAgree ==
  ASSUME NEW code \in Vector(39)
  PROVE  Hw!SecdedGood(code) <=> Slice(code, 32, 7) = CheckBits(code \cap (0 .. 31))
<1> DEFINE word == code \cap (0 .. 31)
           upright == Xor(code, {33, 35, 37})
           syndrome == {i \in 0 .. 6 : Odd(upright \cap (Mask(i) \cup {32 + i}))}
<1>1. Hw!SecdedGood(code) <=> ~Odd(syndrome) /\ syndrome = {}
  <2>1. {i \in 0 .. 6 : Hw!Odd(Hw!Xor(code, Hw!Inverted) \cap (Hw!ParityMask[i] \cup {32 + i}))} = syndrome
    BY ParitiesAgree, MasksFit, HwVectors, InvertedBits
  <2>2. QED
    BY <2>1, ParitiesAgree DEF Hw!SecdedGood
<1>2. ASSUME NEW i \in 0 .. 6
      PROVE  i \notin syndrome <=> (i \in Slice(code, 32, 7) <=> i \in CheckBits(word))
  <2>1. Mask(i) \subseteq 0 .. 31
    BY MasksFit DEF Vector
  <2>2. \A x : x \in upright <=> ~(x \in code <=> x \in {33, 35, 37})
    BY XorBits
  <2>3. upright \cap Mask(i) = word \cap Mask(i)
    <3>1. ASSUME NEW x PROVE x \in upright \cap Mask(i) <=> x \in word \cap Mask(i)
      BY <2>1, <2>2, InvertedAt
    <3>2. QED
      BY <3>1
  <2>4. 32 + i \in upright <=> ~(32 + i \in code <=> i % 2 = 1)
    BY <2>2, InvertedAt
  <2>5. Odd(upright \cap (Mask(i) \cup {32 + i})) <=> ~(Odd(word \cap Mask(i)) <=> 32 + i \in upright)
    <3> DEFINE v == word \cap Mask(i)
    <3>1. v \in Vector(32) /\ 32 + i \notin v
      BY <2>1 DEF Vector
    <3>2. CASE 32 + i \in upright
      <4>1. upright \cap (Mask(i) \cup {32 + i}) = v \cup {32 + i}
        BY <2>3, <3>2
      <4>2. Odd(v \cup {32 + i}) <=> ~Odd(v)
        BY <3>1, OddStep
      <4>3. QED
        BY <3>2, <4>1, <4>2
    <3>3. CASE 32 + i \notin upright
      <4>1. upright \cap (Mask(i) \cup {32 + i}) = v
        BY <2>3, <3>3
      <4>2. QED
        BY <3>3, <4>1
    <3>4. QED
      BY <3>2, <3>3
  <2>6. i \in CheckBits(word) <=> ~(Odd(word \cap Mask(i)) <=> i % 2 = 1)
    BY CheckBitsOf
  <2>7. i \in Slice(code, 32, 7) <=> 32 + i \in code
    <3>1. i + 32 = 32 + i
      OBVIOUS
    <3>2. i \in Slice(code, 32, 7) <=> i \in 0 .. 6 /\ i + 32 \in code
      BY SliceBits
    <3>3. QED
      BY <3>1, <3>2
  <2>8. QED
    BY <2>4, <2>5, <2>6, <2>7
<1>3. Slice(code, 32, 7) \in Vector(7) /\ CheckBits(word) \in Vector(7)
  BY SlicesFit, CheckBitsOf
<1> HIDE DEF syndrome, word
<1>4. syndrome = {} <=> \A i \in 0 .. 6 : i \notin syndrome
  BY DEF syndrome
<1>5. Slice(code, 32, 7) = CheckBits(word)
        <=> \A i \in 0 .. 6 : i \in Slice(code, 32, 7) <=> i \in CheckBits(word)
  BY <1>3 DEF Vector
<1>6. syndrome = {} => ~Odd(syndrome)
  BY OddStep
<1>7. QED
  BY <1>1, <1>2, <1>4, <1>5, <1>6 DEF word

-----------------------------------------------------------------------------
(* Packing *)

\* Up to 8 bits read from two bytes are a slice.
LEMMA ExtractedBits ==
  ASSUME NEW buf, NEW idx \in Nat, NEW count \in 1 .. 8
  PROVE  Extracted(buf, idx, count) = Slice(buf, idx, count)
<1> DEFINE n == RoomInByte(idx, count)
<1>1. n \in 1 .. count
  BY DEF RoomInByte
<1> HIDE DEF n
<1>2. idx + n \in Nat /\ count - n \in Nat /\ n \in Nat /\ count \in Nat
  BY <1>1
<1>3. Slice(buf, idx + n, count - n) \subseteq Nat
  BY <1>2, SliceBits
<1>4. ASSUME NEW x
      PROVE  x \in Extracted(buf, idx, count) <=> x \in Slice(buf, idx, count)
  <2>1. x \in Extracted(buf, idx, count)
          <=> x \in Slice(buf, idx, n) \/ x \in At(Slice(buf, idx + n, count - n), n)
    BY DEF Extracted, n
  <2>2. x \in Slice(buf, idx, n) <=> x \in 0 .. n - 1 /\ x + idx \in buf
    BY <1>2, SliceBits
  <2>3. x \in At(Slice(buf, idx + n, count - n), n)
          <=> x \in Nat /\ n <= x /\ x - n \in Slice(buf, idx + n, count - n)
    BY <1>2, <1>3, AtBits
  <2>4. x - n \in Slice(buf, idx + n, count - n)
          <=> x - n \in 0 .. count - n - 1 /\ (x - n) + (idx + n) \in buf
    BY <1>2, SliceBits
  <2>5. x \in Slice(buf, idx, count) <=> x \in 0 .. count - 1 /\ x + idx \in buf
    BY <1>2, SliceBits
  <2>6. x \in Nat => (x - n) + (idx + n) = x + idx
    BY <1>2
  <2>7. x \in Nat /\ n <= x => (x - n \in 0 .. count - n - 1 <=> x \in 0 .. count - 1)
    BY <1>2
  <2>8. x \in 0 .. n - 1 <=> x \in Nat /\ ~(n <= x)
    BY <1>2
  <2>9. x \in 0 .. count - 1 => x \in Nat
    OBVIOUS
  <2>10. x \in 0 .. n - 1 => x \in 0 .. count - 1
    BY <1>1
  <2>11. QED
    BY <2>1, <2>2, <2>3, <2>4, <2>5, <2>6, <2>7, <2>8, <2>9, <2>10
<1>5. QED
  BY <1>4

\* Up to 8 bits put into two bytes are put in one place.
LEMMA InsertedBits ==
  ASSUME NEW buf, NEW idx \in Nat, NEW count \in 1 .. 8, NEW bits \in Vector(count)
  PROVE  Inserted(buf, idx, bits, count) = buf \cup At(bits, idx)
<1> DEFINE n == RoomInByte(idx, count)
<1>1. n \in 1 .. count
  BY DEF RoomInByte
<1> HIDE DEF n
<1>2. idx + n \in Nat /\ count - n \in Nat /\ n \in Nat
  BY <1>1
<1>3. bits \subseteq 0 .. count - 1 /\ bits \subseteq Nat
  BY DEF Vector
<1>4. Slice(bits, 0, n) \subseteq Nat /\ Slice(bits, n, count - n) \subseteq Nat
  BY <1>2, SliceBits
<1>5. ASSUME NEW x
      PROVE  x \in Inserted(buf, idx, bits, count) <=> x \in buf \/ x \in At(bits, idx)
  <2>1. x \in Inserted(buf, idx, bits, count)
          <=> \/ x \in buf \/ x \in At(Slice(bits, 0, n), idx)
              \/ x \in At(Slice(bits, n, count - n), idx + n)
    BY DEF Inserted, n
  <2>2. x \in At(Slice(bits, 0, n), idx) <=> x \in Nat /\ idx <= x /\ x - idx \in Slice(bits, 0, n)
    BY <1>4, AtBits
  <2>3. x \in At(Slice(bits, n, count - n), idx + n)
          <=> x \in Nat /\ idx + n <= x /\ x - (idx + n) \in Slice(bits, n, count - n)
    BY <1>2, <1>4, AtBits
  <2>4. x \in At(bits, idx) <=> x \in Nat /\ idx <= x /\ x - idx \in bits
    BY <1>3, AtBits
  <2>5. x - idx \in Slice(bits, 0, n) <=> x - idx \in 0 .. n - 1 /\ (x - idx) + 0 \in bits
    BY <1>2, SliceBits
  <2>6. x - (idx + n) \in Slice(bits, n, count - n)
          <=> x - (idx + n) \in 0 .. count - n - 1 /\ (x - (idx + n)) + n \in bits
    BY <1>2, SliceBits
  <2>7. CASE x \in Nat
    <3>1. (x - idx) + 0 = x - idx /\ (x - (idx + n)) + n = x - idx
      BY <1>2, <2>7
    <3>2. x - idx \in bits => x - idx < count
      <4>1. x - idx \in 0 .. count - 1 => x - idx < count
        BY <2>7
      <4>2. QED
        BY <1>3, <4>1
    <3>3. x - (idx + n) \in 0 .. count - n - 1 <=> idx + n <= x /\ x - idx < count
      BY <1>2, <2>7
    <3>4. x - idx \in 0 .. n - 1 <=> idx <= x /\ ~(idx + n <= x)
      BY <1>2, <2>7
    <3>5. idx + n <= x => idx <= x
      BY <1>2, <2>7
    <3>6. QED
      BY <2>1, <2>2, <2>3, <2>4, <2>5, <2>6, <2>7, <3>1, <3>2, <3>3, <3>4, <3>5
  <2>8. CASE x \notin Nat
    BY <2>1, <2>2, <2>3, <2>4, <2>8
  <2>9. QED
    BY <2>7, <2>8
<1>6. QED
  BY <1>5

Joins(w, m, n, idx, lo, k) ==
  \A x : x \in At(Slice(w, 0, m), idx) \/ x \in At(Slice(w, m, n), lo)
          <=> x \in At(Slice(w, 0, k), idx)

\* A slice that starts where another ends continues it.
LEMMA SlicesJoin ==
  ASSUME NEW w, NEW m \in Nat, NEW n \in Nat, NEW idx \in Nat,
         NEW lo, lo = idx + m, NEW k, k = m + n
  PROVE  Joins(w, m, n, idx, lo, k)
<1>1. \A a, b \in Nat : Slice(w, a, b) \subseteq Nat
  BY SliceBits
<1>2. ASSUME NEW x
      PROVE  x \in At(Slice(w, 0, m), idx) \/ x \in At(Slice(w, m, n), lo)
               <=> x \in At(Slice(w, 0, k), idx)
  <2>1. x \in At(Slice(w, 0, m), idx) <=> x \in Nat /\ idx <= x /\ x - idx \in Slice(w, 0, m)
    BY <1>1, AtBits
  <2>2. x \in At(Slice(w, m, n), lo)
          <=> x \in Nat /\ idx + m <= x /\ x - (idx + m) \in Slice(w, m, n)
    BY <1>1, AtBits, idx + m \in Nat
  <2>3. x \in At(Slice(w, 0, k), idx) <=> x \in Nat /\ idx <= x /\ x - idx \in Slice(w, 0, k)
    BY <1>1, AtBits, m + n \in Nat
  <2>4. x - idx \in Slice(w, 0, m) <=> x - idx \in 0 .. m - 1 /\ (x - idx) + 0 \in w
    BY SliceBits
  <2>5. x - (idx + m) \in Slice(w, m, n) <=> x - (idx + m) \in 0 .. n - 1 /\ (x - (idx + m)) + m \in w
    BY SliceBits
  <2>6. x - idx \in Slice(w, 0, k) <=> x - idx \in 0 .. m + n - 1 /\ (x - idx) + 0 \in w
    BY SliceBits, m + n \in Nat
  <2>7. CASE x \in Nat
    <3>1. (x - idx) + 0 = x - idx /\ (x - (idx + m)) + m = x - idx
      BY <2>7
    <3>2. x - idx \in 0 .. m - 1 <=> idx <= x /\ x < idx + m
      BY <2>7
    <3>3. x - (idx + m) \in 0 .. n - 1 <=> idx + m <= x /\ x < idx + m + n
      BY <2>7
    <3>4. x - idx \in 0 .. m + n - 1 <=> idx <= x /\ x < idx + m + n
      BY <2>7
    <3>5. (x < idx + m <=> ~(idx + m <= x)) /\ (idx + m <= x => idx <= x) /\ (x < idx + m => x < idx + m + n)
      BY <2>7
    <3>6. QED
      BY <2>1, <2>2, <2>3, <2>4, <2>5, <2>6, <2>7, <3>1, <3>2, <3>3, <3>4, <3>5
  <2>8. CASE x \notin Nat
    BY <2>1, <2>2, <2>3, <2>8
  <2>9. QED
    BY <2>7, <2>8
<1>3. QED
  BY <1>2 DEF Joins

\* A word put in byte by byte, then its check bits: the coded word in its place.
LEMMA InsertedWordBits ==
  ASSUME NEW buf, NEW idx \in Nat, NEW word \in Word, NEW check \in Vector(7)
  PROVE  InsertedWord(buf, idx, word, check) = buf \cup At(Coded(word, check), idx)
<1> DEFINE Step(i, b) == Inserted(b, idx + 8 * (i - 1), Slice(word, 8 * (i - 1), 8), 8)
           bytes == CHOOSE b : b = [i \in 0 .. 4 |-> IF i = 0 THEN buf ELSE Step(i, b[i - 1])]
           Upto(i) == buf \cup At(Slice(word, 0, 8 * i), idx)
<1>1. InsertedWord(buf, idx, word, check) = Inserted(bytes[4], idx + 32, check, 7)
  BY DEF InsertedWord
<1>2. ASSUME NEW i \in 1 .. 4 PROVE Step(i, Upto(i - 1)) = Upto(i)
  <2> DEFINE m == 8 * (i - 1)
             s == Slice(word, m, 8)
  <2>1. m \in Nat /\ idx + m \in Nat /\ m + 8 = 8 * i
    OBVIOUS
  <2>2. s \in Vector(8)
    BY <2>1, SlicesFit
  <2> HIDE DEF m, s
  <2>3. Inserted(Upto(i - 1), idx + m, s, 8) = Upto(i - 1) \cup At(s, idx + m)
    <3>1. 8 \in 1 .. 8
      OBVIOUS
    <3> HIDE DEF Upto
    <3>2. QED
      BY <2>1, <2>2, <3>1, InsertedBits
  <2>4. At(Slice(word, 0, m), idx) \cup At(s, idx + m) = At(Slice(word, 0, 8 * i), idx)
    <3> DEFINE lo == idx + m
               k == 8 * i
               n == 8
    <3>1. m \in Nat /\ n \in Nat /\ lo = idx + m /\ k = m + n
      BY <2>1
    <3> HIDE DEF lo, k, n
    <3>2. Joins(word, m, n, idx, lo, k)
      BY <3>1, SlicesJoin
    <3>3. QED
      BY <3>2 DEF Joins, s, lo, k, n
  <2>5. Upto(i - 1) = buf \cup At(Slice(word, 0, m), idx)
    BY DEF m
  <2>6. Step(i, Upto(i - 1)) = Inserted(Upto(i - 1), idx + m, s, 8)
    BY DEF m, s
  <2> HIDE DEF Step
  <2>7. QED
    BY <2>3, <2>4, <2>5, <2>6
<1>3. Upto(0) = buf
  <2>1. Slice(word, 0, 0) = {}
    BY SliceBits
  <2>2. At({}, idx) = {} /\ 8 * 0 = 0
    BY DEF At
  <2>3. QED
    BY <2>1, <2>2
<1>4. Upto(4) = buf \cup At(word, idx)
  <2>1. Slice(word, 0, 32) = word
    <3>1. ASSUME NEW x PROVE x \in Slice(word, 0, 32) <=> x \in word
      <4>1. x \in Slice(word, 0, 32) <=> x \in 0 .. 31 /\ x + 0 \in word
        BY SliceBits
      <4>2. x \in 0 .. 31 => x + 0 = x
        OBVIOUS
      <4>3. QED
        BY <4>1, <4>2 DEF Word
    <3>2. QED
      BY <3>1
  <2>2. 8 * 4 = 32
    OBVIOUS
  <2>3. QED
    BY <2>1, <2>2
<1> HIDE DEF Step, Upto
<1>5. bytes[4] = Upto(4)
  <2> DEFINE b == [i \in 0 .. 4 |-> Upto(i)]
             c == [i \in 0 .. 4 |-> IF i = 0 THEN buf ELSE Step(i, b[i - 1])]
  <2>1. ASSUME NEW i \in 0 .. 4 PROVE b[i] = c[i]
    <3>1. CASE i = 0
      BY <1>3, <3>1
    <3>2. CASE i # 0
      <4>1. i \in 1 .. 4 /\ i - 1 \in 0 .. 4
        BY <3>2
      <4>2. b[i - 1] = Upto(i - 1) /\ b[i] = Upto(i)
        BY <4>1
      <4>3. c[i] = Step(i, Upto(i - 1))
        BY <3>2, <4>2
      <4>4. QED
        BY <1>2, <4>1, <4>2, <4>3
    <3>3. QED
      BY <3>1, <3>2
  <2>2. b = c
    BY <2>1
  <2>3. bytes = [i \in 0 .. 4 |-> IF i = 0 THEN buf ELSE Step(i, bytes[i - 1])]
    BY <2>2
  <2> HIDE DEF bytes
  <2>4. bytes[0] = buf /\ \A i \in 1 .. 4 : bytes[i] = Step(i, bytes[i - 1])
    <3>1. bytes[0] = buf
      BY <2>3
    <3>2. ASSUME NEW i \in 1 .. 4 PROVE bytes[i] = Step(i, bytes[i - 1])
      <4>1. i \in 0 .. 4 /\ i # 0
        OBVIOUS
      <4>2. QED
        BY <2>3, <4>1
    <3>3. QED
      BY <3>1, <3>2
  <2>5. ASSUME NEW i \in 1 .. 4, bytes[i - 1] = Upto(i - 1) PROVE bytes[i] = Upto(i)
    BY <1>2, <2>4, <2>5
  <2>6. bytes[1] = Upto(1)
    BY <1>3, <2>4, <2>5
  <2>7. bytes[2] = Upto(2)
    BY <2>5, <2>6
  <2>8. bytes[3] = Upto(3)
    BY <2>5, <2>7
  <2>9. QED
    BY <2>5, <2>8
<1> HIDE DEF bytes
<1>6. Inserted(bytes[4], idx + 32, check, 7) = buf \cup At(word, idx) \cup At(check, idx + 32)
  <2>1. 7 \in 1 .. 8 /\ idx + 32 \in Nat
    OBVIOUS
  <2>2. Inserted(bytes[4], idx + 32, check, 7) = bytes[4] \cup At(check, idx + 32)
    BY <2>1, InsertedBits
  <2>3. QED
    BY <1>4, <1>5, <2>2
<1>7. At(Coded(word, check), idx) = At(word, idx) \cup At(check, idx + 32)
  <2>1. At(At(check, 32), idx) = At(check, idx + 32)
    <3>1. check \subseteq Nat
      BY DEF Vector
    <3>2. \A x \in check : (x + 32) + idx = x + (idx + 32)
      BY <3>1
    <3>3. At(At(check, 32), idx) = {(x + 32) + idx : x \in check}
      BY DEF At
    <3>4. QED
      BY <3>2, <3>3 DEF At
  <2>2. \A v, w : At(v \cup w, idx) = At(v, idx) \cup At(w, idx)
    BY DEF At
  <2>3. QED
    BY <2>1, <2>2 DEF Coded
<1>8. QED
  BY <1>1, <1>6, <1>7

CheckOf(f) == IF f.good THEN CheckBits(f.word) ELSE Xor(CheckBits(f.word), 0 .. 6)
CodesOf(flagged) == [i \in Lane |-> Coded(flagged[i].word, CheckOf(flagged[i]))]

\* A coded word is found as it was: good just if it shall be.
LEMMA CodesFit ==
  ASSUME NEW flagged \in EccWords
  PROVE  /\ CodesOf(flagged) \in Chunks
         /\ \A i \in Lane : flagged[i].word \in Word /\ flagged[i].good \in BOOLEAN
                            /\ CheckOf(flagged[i]) \in Vector(7)
                            /\ Checked(CodesOf(flagged)[i]) = flagged[i]
<1>1. ASSUME NEW i \in Lane
      PROVE  flagged[i].word \in Word /\ flagged[i].good \in BOOLEAN
             /\ flagged[i] = [good |-> flagged[i].good, word |-> flagged[i].word]
  BY DEF EccWords
<1>2. ASSUME NEW i \in Lane
      PROVE  /\ CheckOf(flagged[i]) \in Vector(7)
             /\ CheckOf(flagged[i]) = CheckBits(flagged[i].word) <=> flagged[i].good
  <2> DEFINE c == CheckBits(flagged[i].word)
  <2>1. c \in Vector(7) /\ 0 .. 6 \in Vector(7)
    <3>1. 0 .. 6 = 0 .. 7 - 1
      OBVIOUS
    <3>2. QED
      BY <3>1, CheckBitsOf DEF Vector
  <2>2. Xor(c, 0 .. 6) \in Vector(7)
    BY <2>1, XorBits DEF Vector
  <2>3. Xor(c, 0 .. 6) # c
    <3>1. 0 \in Xor(c, 0 .. 6) <=> ~(0 \in c)
      BY XorBits
    <3>2. QED
      BY <3>1
  <2> HIDE DEF c
  <2>4. CheckOf(flagged[i]) = IF flagged[i].good THEN c ELSE Xor(c, 0 .. 6)
    BY DEF CheckOf, c
  <2>5. QED
    BY <1>1, <2>1, <2>2, <2>3, <2>4 DEF c
<1>3. CodesOf(flagged) \in Chunks
  BY <1>1, <1>2, CodedBits DEF CodesOf, Chunks
<1>4. ASSUME NEW i \in Lane PROVE Checked(CodesOf(flagged)[i]) = flagged[i]
  <2> DEFINE code == Coded(flagged[i].word, CheckOf(flagged[i]))
  <2>1. CodesOf(flagged)[i] = code
    BY DEF CodesOf
  <2>2. code \cap (0 .. 31) = flagged[i].word /\ Slice(code, 32, 7) = CheckOf(flagged[i])
    BY <1>1, <1>2, CodedBits
  <2> HIDE DEF code
  <2>3. Checked(code) = [good |-> CheckOf(flagged[i]) = CheckBits(flagged[i].word), word |-> flagged[i].word]
    BY <2>2 DEF Checked
  <2>4. (CheckOf(flagged[i]) = CheckBits(flagged[i].word)) = flagged[i].good
    BY <1>1, <1>2
  <2>5. QED
    BY <1>1, <2>1, <2>3, <2>4
<1>5. QED
  BY <1>1, <1>2, <1>3, <1>4

Filled(codes, i) == UNION {At(codes[j], 39 * j) : j \in 0 .. i - 1}

\* Packing a row one word after another puts every coded word into its chunk.
LEMMA PackedBits ==
  ASSUME NEW flagged \in EccWords
  PROVE  Packed(flagged) = Assembled(CodesOf(flagged))
<1> DEFINE codes == CodesOf(flagged)
           Put(i, b) == InsertedWord(b, 39 * (i - 1), flagged[i - 1].word, CheckOf(flagged[i - 1]))
           upto == CHOOSE b : b = [i \in 0 .. Width32 |-> IF i = 0 THEN {} ELSE Put(i, b[i - 1])]
<1>1. Packed(flagged) = upto[Width32]
  BY DEF Packed, CheckOf
<1>2. Width32 \in Nat
  BY Lanes
<1>3. ASSUME NEW i \in 1 .. Width32
      PROVE  Put(i, Filled(codes, i - 1)) = Filled(codes, i)
  <2> DEFINE k == i - 1
             idx == 39 * k
  <2>1. k \in Lane /\ idx \in Nat
    BY <1>2 DEF Lane
  <2>2. flagged[k].word \in Word /\ CheckOf(flagged[k]) \in Vector(7)
    BY <2>1, CodesFit
  <2>3. codes[k] = Coded(flagged[k].word, CheckOf(flagged[k]))
    BY <2>1 DEF CodesOf
  <2>4. Filled(codes, i) = Filled(codes, k) \cup At(codes[k], idx)
    <3>1. 0 .. i - 1 = (0 .. k - 1) \cup {k}
      BY <2>1
    <3>2. QED
      BY <3>1 DEF Filled
  <2> HIDE DEF k, idx, codes
  <2>5. InsertedWord(Filled(codes, k), idx, flagged[k].word, CheckOf(flagged[k]))
          = Filled(codes, k) \cup At(codes[k], idx)
    BY <2>1, <2>2, <2>3, InsertedWordBits
  <2>6. QED
    BY <2>4, <2>5 DEF k, idx
<1> HIDE DEF Put, codes
<1>4. upto[0] = {} /\ \A i \in 1 .. Width32 : upto[i] = Put(i, upto[i - 1])
  <2> DEFINE b == [i \in 0 .. Width32 |-> Filled(codes, i)]
             c == [i \in 0 .. Width32 |-> IF i = 0 THEN {} ELSE Put(i, b[i - 1])]
  <2>1. ASSUME NEW i \in 0 .. Width32 PROVE b[i] = c[i]
    <3>1. CASE i = 0
      <4>1. Filled(codes, 0) = {}
        BY DEF Filled
      <4>2. QED
        BY <3>1, <4>1
    <3>2. CASE i # 0
      <4>1. i \in 1 .. Width32 /\ i - 1 \in 0 .. Width32
        BY <1>2, <3>2
      <4>2. b[i - 1] = Filled(codes, i - 1) /\ b[i] = Filled(codes, i)
        BY <4>1
      <4>3. c[i] = Put(i, Filled(codes, i - 1))
        BY <3>2, <4>2
      <4>4. QED
        BY <1>3, <4>1, <4>2, <4>3
    <3>3. QED
      BY <3>1, <3>2
  <2>2. b = c
    BY <2>1
  <2>3. upto = [i \in 0 .. Width32 |-> IF i = 0 THEN {} ELSE Put(i, upto[i - 1])]
    BY <2>2
  <2> HIDE DEF upto
  <2>4. upto[0] = {}
    BY <1>2, <2>3
  <2>5. ASSUME NEW i \in 1 .. Width32 PROVE upto[i] = Put(i, upto[i - 1])
    <3>1. i \in 0 .. Width32 /\ i # 0
      BY <1>2
    <3>2. QED
      BY <2>3, <3>1
  <2>6. QED
    BY <2>4, <2>5
<1> HIDE DEF upto
<1>5. \A i \in 0 .. Width32 : upto[i] = Filled(codes, i)
  <2> DEFINE Bad == {i \in 0 .. Width32 : upto[i] # Filled(codes, i)}
  <2>1. ASSUME Bad # {} PROVE FALSE
    <3>1. Bad \subseteq Nat
      BY <1>2
    <3> HIDE DEF Bad
    <3>2. PICK i \in Bad : \A j \in Bad : i <= j
      BY <2>1, <3>1, LeastNatural
    <3>3. i \in 0 .. Width32 /\ upto[i] # Filled(codes, i)
      BY DEF Bad
    <3>4. i # 0
      <4>1. Filled(codes, 0) = {}
        BY DEF Filled
      <4>2. QED
        BY <1>4, <3>3, <4>1
    <3>5. i \in 1 .. Width32 /\ i - 1 \in 0 .. Width32 /\ ~(i <= i - 1)
      BY <1>2, <3>3, <3>4
    <3>6. upto[i - 1] = Filled(codes, i - 1)
      BY <3>2, <3>5 DEF Bad
    <3>7. QED
      BY <1>3, <1>4, <3>3, <3>5, <3>6
  <2>2. QED
    BY <2>1
<1>6. Filled(codes, Width32) = Assembled(codes)
  BY DEF Filled, Assembled, Lane
<1>7. QED
  BY <1>1, <1>2, <1>5, <1>6 DEF codes

\* Both sides find in a chunk the word and whether its check bits fit.
LEMMA UnpackedBits ==
  ASSUME NEW buf
  PROVE  Unpacked(buf) = [i \in Lane |-> Checked(Chunk(buf, i))]
<1>1. ASSUME NEW i \in Lane
      PROVE  LET word == UNION {At(Extracted(buf, 39 * i + 8 * j, 8), 8 * j) : j \in 0 .. 3}
             IN  /\ word = Chunk(buf, i) \cap (0 .. 31)
                 /\ Extracted(buf, 39 * i + 32, 7) = Slice(Chunk(buf, i), 32, 7)
  <2> DEFINE lo == 39 * i
             word == UNION {At(Extracted(buf, lo + 8 * j, 8), 8 * j) : j \in 0 .. 3}
             chunk == Slice(buf, lo, 39)
  <2>1. lo \in Nat
    BY Lanes
  <2>2. \A x : x \in chunk <=> x \in 0 .. 38 /\ x + lo \in buf
    BY <2>1, SliceBits
  <2> HIDE DEF lo, chunk
  <2>3. ASSUME NEW j \in 0 .. 3, NEW x
        PROVE  x \in At(Extracted(buf, lo + 8 * j, 8), 8 * j)
                 <=> x \in 8 * j .. 8 * j + 7 /\ x + lo \in buf
    <3> DEFINE m == 8 * j
               from == lo + m
               part == Slice(buf, from, 8)
    <3>1. m \in Nat /\ from \in Nat /\ 8 \in 1 .. 8
      BY <2>1
    <3>2. Extracted(buf, from, 8) = part
      BY <3>1, ExtractedBits
    <3>3. part \subseteq Nat /\ \A y : y \in part <=> y \in 0 .. 7 /\ y + from \in buf
      BY <3>1, SliceBits
    <3> HIDE DEF part
    <3>4. x \in At(part, m) <=> x \in Nat /\ m <= x /\ x - m \in part
      BY <3>1, <3>3, AtBits
    <3>5. x \in Nat => ((x - m) + from = x + lo /\ (x - m \in 0 .. 7 /\ m <= x <=> x \in m .. m + 7))
      BY <2>1, <3>1
    <3>6. x \in m .. m + 7 => x \in Nat
      BY <3>1
    <3>7. x \in At(part, m) <=> x \in m .. m + 7 /\ x + lo \in buf
      <4> HIDE DEF m, from
      <4>1. QED
        BY <3>3, <3>4, <3>5, <3>6
    <3>8. QED
      BY <3>2, <3>7
  <2>4. word = chunk \cap (0 .. 31)
    <3>1. ASSUME NEW x PROVE x \in word <=> x \in 0 .. 31 /\ x + lo \in buf
      <4>1. x \in word <=> \E j \in 0 .. 3 : x \in 8 * j .. 8 * j + 7 /\ x + lo \in buf
        BY <2>3
      <4>2. (\E j \in 0 .. 3 : x \in 8 * j .. 8 * j + 7) <=> x \in 0 .. 31
        <5>1. ASSUME x \in 0 .. 31 PROVE \E j \in 0 .. 3 : x \in 8 * j .. 8 * j + 7
          <6>1. x \div 8 \in 0 .. 3 /\ x \in 8 * (x \div 8) .. 8 * (x \div 8) + 7
            BY <5>1
          <6>2. QED
            BY <6>1
        <5>2. ASSUME NEW j \in 0 .. 3, x \in 8 * j .. 8 * j + 7 PROVE x \in 0 .. 31
          BY <5>2
        <5>3. QED
          BY <5>1, <5>2
      <4>3. QED
        BY <4>1, <4>2
    <3>2. \A x \in 0 .. 31 : x \in 0 .. 38
      OBVIOUS
    <3> HIDE DEF word
    <3>3. QED
      BY <2>2, <3>1, <3>2
  <2>5. Extracted(buf, lo + 32, 7) = Slice(chunk, 32, 7)
    <3> DEFINE from == lo + 32
    <3>1. from \in Nat /\ 7 \in 1 .. 8
      BY <2>1
    <3>2. Extracted(buf, from, 7) = Slice(buf, from, 7)
      BY <3>1, ExtractedBits
    <3>3. ASSUME NEW x PROVE x \in Slice(buf, from, 7) <=> x \in Slice(chunk, 32, 7)
      <4>1. x \in Slice(buf, from, 7) <=> x \in 0 .. 6 /\ x + from \in buf
        BY <3>1, SliceBits
      <4>2. x \in Slice(chunk, 32, 7) <=> x \in 0 .. 6 /\ x + 32 \in chunk
        BY SliceBits
      <4>3. x \in 0 .. 6 => (x + 32 \in 0 .. 38 /\ (x + 32) + lo = x + from)
        BY <2>1
      <4>4. QED
        BY <2>2, <4>1, <4>2, <4>3
    <3>4. QED
      BY <3>2, <3>3
  <2>6. QED
    BY <2>4, <2>5 DEF lo, chunk, Chunk
<1>2. QED
  BY <1>1 DEF Unpacked, Checked

-----------------------------------------------------------------------------
(* PRINCE *)

Block == Vector(64)

\* The round constants, listed in opposite orders, are the same.
LEMMA PrinceConstants ==
  \A r \in 0 .. 11 : Hw!PrinceRoundConst[r] = Sw!RoundConstant[r] /\ Sw!RoundConstant[r] \in Block
<1> DEFINE table == << <<\h0000, \h0000, \h0000, \h0000>>, <<\h1319, \h8a2e, \h0370, \h7344>>,
     <<\ha409, \h3822, \h299f, \h31d0>>, <<\h082e, \hfa98, \hec4e, \h6c89>>,
     <<\h4528, \h21e6, \h38d0, \h1377>>, <<\hbe54, \h66cf, \h34e9, \h0c6c>>,
     <<\h7ef8, \h4f78, \hfd95, \h5cb1>>, <<\h8584, \h0851, \hf1ac, \h43aa>>,
     <<\hc882, \hd32f, \h2532, \h3c54>>, <<\h64a5, \h1195, \he0e3, \h610d>>,
     <<\hd3b5, \ha399, \hca0c, \h2399>>, <<\hc0ac, \h29b7, \hc97c, \h50dd>> >>
<1> TAKE r \in 0 .. 11
<1>1. Sw!RoundConstant[r] = OfHalfWords(table[r + 1])
  BY HalfWordsAgree DEF Sw!RoundConstant
<1>2. Hw!PrinceRoundConst[r] = OfHalfWords(table[r + 1])
  BY HalfWordsAgree DEF Hw!PrinceRoundConst
<1>3. Len(table[r + 1]) = 4
  <2>1. r + 1 \in 1 .. 12
    OBVIOUS
  <2>2. QED
    BY <2>1
<1>4. \A h : Len(h) = 4 => OfHalfWords(h) \in Block
  <2>1. \A k : OfNumber(k, 16) \subseteq 0 .. 15
    BY DEF OfNumber
  <2> DEFINE Part(h, i) == At(OfNumber(h[i], 16), 16 * (Len(h) - i))
  <2>2. ASSUME NEW h, Len(h) = 4, NEW i \in 1 .. Len(h)
        PROVE  Part(h, i) \subseteq 0 .. 63
    <3> DEFINE lo == 16 * (Len(h) - i)
    <3>1. \A b \in 0 .. 15 : b + lo \in 0 .. 63
      BY <2>2
    <3>2. \A d : d \subseteq 0 .. 15 => At(d, lo) \subseteq 0 .. 63
      <4> HIDE DEF lo
      <4>1. QED
        BY <3>1 DEF At
    <3>3. QED
      BY <2>1, <3>2
  <2>3. ASSUME NEW h, Len(h) = 4 PROVE OfHalfWords(h) \subseteq 0 .. 63
    <3>1. OfHalfWords(h) = UNION {Part(h, i) : i \in 1 .. Len(h)}
      BY DEF OfHalfWords
    <3> HIDE DEF Part
    <3>2. QED
      BY <2>2, <2>3, <3>1
  <2>4. QED
    BY <2>3 DEF Block, Vector
<1>5. QED
  BY <1>1, <1>2, <1>3, <1>4

\* And so are the tables.
LEMMA PrinceBoxes ==
  /\ Sw!Sbox \in NibbleBox /\ Sw!SboxInv \in NibbleBox
  /\ Hw!PrinceSbox4 = Sw!Sbox /\ Hw!PrinceSbox4Inv = Sw!SboxInv
<1>1. <<11, 15, 3, 2, 10, 12, 9, 1, 6, 7, 8, 0, 14, 5, 13, 4>>
      = [i \in 1 .. 16 |-> <<4, 13, 5, 14, 0, 8, 7, 6, 1, 9, 12, 10, 2, 3, 15, 11>>[17 - i]]
  OBVIOUS
<1>2. <<11, 7, 3, 2, 15, 13, 8, 9, 10, 6, 4, 0, 5, 14, 12, 1>>
      = [i \in 1 .. 16 |-> <<1, 12, 14, 5, 0, 4, 6, 10, 9, 8, 13, 15, 2, 3, 7, 11>>[17 - i]]
  OBVIOUS
<1>3. Hw!PrinceSbox4 = Sw!Sbox
  BY <1>1, BoxesAgree DEF Sw!Sbox, Hw!PrinceSbox4, Hw!TopFirst
<1>4. Hw!PrinceSbox4Inv = Sw!SboxInv
  BY <1>2, BoxesAgree DEF Sw!SboxInv, Hw!PrinceSbox4Inv, Hw!TopFirst
<1>5. QED
  BY <1>3, <1>4, BoxFits, BoxesAgree DEF Sw!Sbox, Sw!SboxInv

\* The substitution layers of PRINCE agree.
LEMMA SubstitutedBlocks ==
  ASSUME NEW v
  PROVE  /\ Sw!SLayer(v) \in Block /\ Hw!Substituted(v, 16, Hw!PrinceSbox4) = Sw!SLayer(v)
         /\ Sw!SInvLayer(v) \in Block /\ Hw!Substituted(v, 16, Hw!PrinceSbox4Inv) = Sw!SInvLayer(v)
<1>1. ASSUME NEW box \in NibbleBox PROVE Substituted(v, 16, box) \in Block
  <2>1. ASSUME NEW x \in Substituted(v, 16, box) PROVE x \in 0 .. 63
    <3>1. 16 \in Nat /\ 0 .. 4 * 16 - 1 = 0 .. 63
      OBVIOUS
    <3>2. QED
      BY <3>1, SubstitutedBits
  <2>2. QED
    BY <2>1 DEF Block, Vector
<1>2. QED
  BY <1>1, PrinceBoxes, SwVectors, HwVectors DEF Sw!SLayer, Sw!SInvLayer

\* Where the nibbles come from, as the hardware's tables have it.
LEMMA ShiftTables ==
  \A n \in 0 .. 15 : /\ Hw!ShiftRows64[16 - n] = (n + 4 * ((n % 4) + 1)) % 16
                     /\ Hw!ShiftRows64Inv[16 - n] = (n + 4 * (3 - (n % 4))) % 16
<1>1. \A n \in 0 .. 15 : Hw!ShiftRows64[16 - n] = (n + 4 * ((n % 4) + 1)) % 16
  BY DEF Hw!ShiftRows64
<1>2. \A n \in 0 .. 15 : Hw!ShiftRows64Inv[16 - n] = (n + 4 * (3 - (n % 4))) % 16
  BY DEF Hw!ShiftRows64Inv
<1>3. QED
  BY <1>1, <1>2

\* Rotations of rows and tables of nibbles are the same permutations.
LEMMA ShiftRowsAgree ==
  ASSUME NEW v \in Block
  PROVE  /\ Sw!ShiftRows(v, FALSE) \in Block /\ Hw!PrinceShiftrows(v, Hw!ShiftRows64) = Sw!ShiftRows(v, FALSE)
         /\ Sw!ShiftRows(v, TRUE) \in Block /\ Hw!PrinceShiftrows(v, Hw!ShiftRows64Inv) = Sw!ShiftRows(v, TRUE)
<1>1. v \subseteq 0 .. 63
  BY DEF Block, Vector
<1>2. ASSUME NEW shifts, \A n \in 0 .. 15 : shifts[16 - n] \in 0 .. 15, NEW x
      PROVE  x \in Hw!PrinceShiftrows(v, shifts)
               <=> x \in 0 .. 63 /\ (x % 4) + 4 * shifts[16 - (x \div 4)] \in v
  <2> DEFINE Part(n) == Slice(v, 4 * shifts[16 - n], 4)
  <2>1. x \in Hw!PrinceShiftrows(v, shifts) <=> \E n \in 0 .. 15 : x \in At(Part(n), 4 * n)
    BY HwVectors DEF Hw!PrinceShiftrows, Hw!Nibble
  <2>2. ASSUME NEW n \in 0 .. 15
        PROVE  x \in At(Part(n), 4 * n)
                 <=> x \in 4 * n .. 4 * n + 3 /\ (x - 4 * n) + 4 * shifts[16 - n] \in v
    <3> DEFINE lo == 4 * shifts[16 - n]
               m == 4 * n
               part == Slice(v, lo, 4)
    <3>1. lo \in Nat /\ m \in Nat
      BY <1>2
    <3>2. part \subseteq Nat /\ \A y : y \in part <=> y \in 0 .. 3 /\ y + lo \in v
      BY <3>1, SliceBits
    <3> HIDE DEF part, lo, m
    <3>3. x \in At(part, m) <=> x \in Nat /\ m <= x /\ x - m \in part
      BY <3>1, <3>2, AtBits
    <3>4. x \in At(part, m) <=> x \in m .. m + 3 /\ (x - m) + lo \in v
      BY <3>1, <3>2, <3>3
    <3>5. QED
      BY <3>4 DEF part, lo, m
  <2> HIDE DEF Part
  <2>3. ASSUME x \in 0 .. 63
        PROVE  /\ x \div 4 \in 0 .. 15 /\ x - 4 * (x \div 4) = x % 4
               /\ \A n \in 0 .. 15 : x \in 4 * n .. 4 * n + 3 <=> n = x \div 4
    BY <2>3
  <2>4. \A n \in 0 .. 15 : x \in 4 * n .. 4 * n + 3 => x \in 0 .. 63
    OBVIOUS
  <2>5. QED
    BY <2>1, <2>2, <2>3, <2>4
<1>3. \A n \in 0 .. 15 : Hw!ShiftRows64[16 - n] \in 0 .. 15 /\ Hw!ShiftRows64Inv[16 - n] \in 0 .. 15
  BY ShiftTables
<1> DEFINE RowOf(b) == 3 - ((b \div 4) % 4)
           To(inverse, b) == (b + 16 * (IF inverse THEN 4 - RowOf(b) ELSE RowOf(b))) % 64
           From(inverse, x) == (x % 4) + 4 * (IF inverse THEN Hw!ShiftRows64Inv[16 - (x \div 4)]
                                              ELSE Hw!ShiftRows64[16 - (x \div 4)])
<1>4. ASSUME NEW x \in 0 .. 63
      PROVE  /\ From(FALSE, x) = (x % 4) + 4 * (((x \div 4) + 4 * (((x \div 4) % 4) + 1)) % 16)
             /\ From(TRUE, x) = (x % 4) + 4 * (((x \div 4) + 4 * (3 - ((x \div 4) % 4))) % 16)
  <2>1. x \div 4 \in 0 .. 15
    OBVIOUS
  <2>2. QED
    BY <2>1, ShiftTables
<1>5. ASSUME NEW x \in 0 .. 63
      PROVE  /\ To(FALSE, x) \in 0 .. 63 /\ From(FALSE, x) \in 0 .. 63
             /\ To(FALSE, From(FALSE, x)) = x /\ From(FALSE, To(FALSE, x)) = x
  <2> DEFINE F(n) == (n + 4 * ((n % 4) + 1)) % 16
             T(n) == (n + 4 * (3 - (n % 4))) % 16
  <2>1. \A n \in 0 .. 15 : F(n) \in 0 .. 15 /\ T(n) \in 0 .. 15 /\ F(T(n)) = n /\ T(F(n)) = n
    OBVIOUS
  <2>2. ASSUME NEW y \in 0 .. 63
        PROVE  /\ y \div 4 \in 0 .. 15 /\ y % 4 \in 0 .. 3 /\ y = (y % 4) + 4 * (y \div 4)
               /\ To(FALSE, y) = (y % 4) + 4 * T(y \div 4)
    BY <2>2
  <2>3. \A n \in 0 .. 15, r \in 0 .. 3 :
           r + 4 * n \in 0 .. 63 /\ (r + 4 * n) \div 4 = n /\ (r + 4 * n) % 4 = r
    OBVIOUS
  <2>4. \A y \in 0 .. 63 : From(FALSE, y) = (y % 4) + 4 * F(y \div 4)
    BY <1>4
  <2> HIDE DEF F, T, To, From
  <2>5. To(FALSE, x) \in 0 .. 63 /\ From(FALSE, To(FALSE, x)) = x
    <3> DEFINE n == T(x \div 4)
               y == (x % 4) + 4 * n
    <3>1. n \in 0 .. 15 /\ F(n) = x \div 4 /\ To(FALSE, x) = y
      BY <2>1, <2>2
    <3>2. y \in 0 .. 63 /\ y \div 4 = n /\ y % 4 = x % 4
      BY <2>2, <2>3, <3>1
    <3> HIDE DEF y, n
    <3>3. QED
      BY <2>2, <2>4, <3>1, <3>2
  <2>6. From(FALSE, x) \in 0 .. 63 /\ To(FALSE, From(FALSE, x)) = x
    <3> DEFINE n == F(x \div 4)
               y == (x % 4) + 4 * n
    <3>1. n \in 0 .. 15 /\ T(n) = x \div 4 /\ From(FALSE, x) = y
      BY <2>1, <2>2, <2>4
    <3>2. y \in 0 .. 63 /\ y \div 4 = n /\ y % 4 = x % 4
      BY <2>2, <2>3, <3>1
    <3> HIDE DEF y, n
    <3>3. QED
      BY <2>2, <3>1, <3>2
  <2>7. QED
    BY <2>5, <2>6
<1>6. ASSUME NEW x \in 0 .. 63
      PROVE  /\ To(TRUE, x) \in 0 .. 63 /\ From(TRUE, x) \in 0 .. 63
             /\ To(TRUE, From(TRUE, x)) = x /\ From(TRUE, To(TRUE, x)) = x
  <2> DEFINE F(n) == (n + 4 * (3 - (n % 4))) % 16
             T(n) == (n + 4 * ((n % 4) + 1)) % 16
  <2>1. \A n \in 0 .. 15 : F(n) \in 0 .. 15 /\ T(n) \in 0 .. 15 /\ F(T(n)) = n /\ T(F(n)) = n
    OBVIOUS
  <2>2. ASSUME NEW y \in 0 .. 63
        PROVE  /\ y \div 4 \in 0 .. 15 /\ y % 4 \in 0 .. 3 /\ y = (y % 4) + 4 * (y \div 4)
               /\ To(TRUE, y) = (y % 4) + 4 * T(y \div 4)
    BY <2>2
  <2>3. \A n \in 0 .. 15, r \in 0 .. 3 :
           r + 4 * n \in 0 .. 63 /\ (r + 4 * n) \div 4 = n /\ (r + 4 * n) % 4 = r
    OBVIOUS
  <2>4. \A y \in 0 .. 63 : From(TRUE, y) = (y % 4) + 4 * F(y \div 4)
    BY <1>4
  <2> HIDE DEF F, T, To, From
  <2>5. To(TRUE, x) \in 0 .. 63 /\ From(TRUE, To(TRUE, x)) = x
    <3> DEFINE n == T(x \div 4)
               y == (x % 4) + 4 * n
    <3>1. n \in 0 .. 15 /\ F(n) = x \div 4 /\ To(TRUE, x) = y
      BY <2>1, <2>2
    <3>2. y \in 0 .. 63 /\ y \div 4 = n /\ y % 4 = x % 4
      BY <2>2, <2>3, <3>1
    <3> HIDE DEF y, n
    <3>3. QED
      BY <2>2, <2>4, <3>1, <3>2
  <2>6. From(TRUE, x) \in 0 .. 63 /\ To(TRUE, From(TRUE, x)) = x
    <3> DEFINE n == F(x \div 4)
               y == (x % 4) + 4 * n
    <3>1. n \in 0 .. 15 /\ T(n) = x \div 4 /\ From(TRUE, x) = y
      BY <2>1, <2>2, <2>4
    <3>2. y \in 0 .. 63 /\ y \div 4 = n /\ y % 4 = x % 4
      BY <2>2, <2>3, <3>1
    <3> HIDE DEF y, n
    <3>3. QED
      BY <2>2, <3>1, <3>2
  <2>7. QED
    BY <2>5, <2>6
<1>7. \A inverse \in BOOLEAN : Sw!ShiftRows(v, inverse) = {To(inverse, b) : b \in v}
  BY DEF Sw!ShiftRows
<1>8. ASSUME NEW x
      PROVE  /\ x \in Hw!PrinceShiftrows(v, Hw!ShiftRows64) <=> x \in 0 .. 63 /\ From(FALSE, x) \in v
             /\ x \in Hw!PrinceShiftrows(v, Hw!ShiftRows64Inv) <=> x \in 0 .. 63 /\ From(TRUE, x) \in v
  BY <1>2, <1>3
<1> HIDE DEF To, From
<1>9. ASSUME NEW x
      PROVE  /\ x \in Sw!ShiftRows(v, FALSE) <=> x \in 0 .. 63 /\ From(FALSE, x) \in v
             /\ x \in Sw!ShiftRows(v, TRUE) <=> x \in 0 .. 63 /\ From(TRUE, x) \in v
  <2>1. x \in Sw!ShiftRows(v, FALSE) <=> x \in 0 .. 63 /\ From(FALSE, x) \in v
    <3>1. x \in Sw!ShiftRows(v, FALSE) <=> \E b \in v : x = To(FALSE, b)
      BY <1>7
    <3>2. QED
      BY <1>1, <1>5, <3>1
  <2>2. x \in Sw!ShiftRows(v, TRUE) <=> x \in 0 .. 63 /\ From(TRUE, x) \in v
    <3>1. x \in Sw!ShiftRows(v, TRUE) <=> \E b \in v : x = To(TRUE, b)
      BY <1>7
    <3>2. QED
      BY <1>1, <1>6, <3>1
  <2>3. QED
    BY <2>1, <2>2
<1>10. /\ Hw!PrinceShiftrows(v, Hw!ShiftRows64) = Sw!ShiftRows(v, FALSE)
       /\ Hw!PrinceShiftrows(v, Hw!ShiftRows64Inv) = Sw!ShiftRows(v, TRUE)
  BY <1>8, <1>9
<1>11. Sw!ShiftRows(v, FALSE) \in Block /\ Sw!ShiftRows(v, TRUE) \in Block
  <2>1. Block = SUBSET (0 .. 63)
    BY DEF Block, Vector
  <2>2. QED
    BY <1>9, <2>1
<1>12. QED
  BY <1>10, <1>11

\* The hardware's masks leave out one bit of every four, which moves with the row.
LEMMA MixMasks ==
  \A q \in 0 .. 3, d \in 0 .. 15 :
     d \in OfNumber(Hw!ShiftRowsConst[1 + q], 16) <=> d % 4 # ((d \div 4) + 4 - q) % 4
<1> DEFINE Pow(n) == 2^n
<1>1. /\ Pow(0) = 1 /\ Pow(1) = 2 /\ Pow(2) = 4 /\ Pow(3) = 8 /\ Pow(4) = 16 /\ Pow(5) = 32
      /\ Pow(6) = 64 /\ Pow(7) = 128 /\ Pow(8) = 256 /\ Pow(9) = 512 /\ Pow(10) = 1024
      /\ Pow(11) = 2048 /\ Pow(12) = 4096 /\ Pow(13) = 8192 /\ Pow(14) = 16384
      /\ Pow(15) = 32768
  OBVIOUS
<1>2. \A k, d : d \in OfNumber(k, 16) <=> d \in 0 .. 15 /\ (k \div Pow(d)) % 2 = 1
  BY DEF OfNumber
<1> HIDE DEF Pow
<1>3. /\ Hw!ShiftRowsConst[1] = 31710 /\ Hw!ShiftRowsConst[2] = 48615
      /\ Hw!ShiftRowsConst[3] = 56955 /\ Hw!ShiftRowsConst[4] = 59325
  BY DEF Hw!ShiftRowsConst
<1>4. \A d \in 0 .. 15 : d \in OfNumber(31710, 16) <=> d % 4 # ((d \div 4) + 4 - 0) % 4
  BY <1>1, <1>2
<1>5. \A d \in 0 .. 15 : d \in OfNumber(48615, 16) <=> d % 4 # ((d \div 4) + 4 - 1) % 4
  BY <1>1, <1>2
<1>6. \A d \in 0 .. 15 : d \in OfNumber(56955, 16) <=> d % 4 # ((d \div 4) + 4 - 2) % 4
  BY <1>1, <1>2
<1>7. \A d \in 0 .. 15 : d \in OfNumber(59325, 16) <=> d % 4 # ((d \div 4) + 4 - 3) % 4
  BY <1>1, <1>2
<1>8. QED
  BY <1>3, <1>4, <1>5, <1>6, <1>7

\* The rows of the simulation's matrices leave out the same bits.
LEMMA MixRows ==
  \A d \in 0 .. 15, j \in 0 .. 3, b \in 0 .. 3 :
     /\ 4 * j + b \in Sw!M0[d] <=> b = d % 4 /\ d % 4 # ((d \div 4) + j + 1) % 4
     /\ 4 * j + b \in Sw!M1[d] <=> b = d % 4 /\ d % 4 # ((d \div 4) + j) % 4
<1> SUFFICES ASSUME NEW d \in 0 .. 15
             PROVE  \A j \in 0 .. 3, b \in 0 .. 3 :
                      /\ 4 * j + b \in Sw!M0[d] <=> b = d % 4 /\ d % 4 # ((d \div 4) + j + 1) % 4
                      /\ 4 * j + b \in Sw!M1[d] <=> b = d % 4 /\ d % 4 # ((d \div 4) + j) % 4
  OBVIOUS
<1> DEFINE e == d % 4
           n == d \div 4
           Small(k) == {e} \ {(n + k) % 4}
<1>1. e \in 0 .. 3 /\ n \in 0 .. 3
  OBVIOUS
<1>2. Sw!M0[d] = At(Small(3), 8) \cup At(Small(2), 4) \cup Small(1) \cup At(Small(0), 12)
  BY SwVectors DEF Sw!M0
<1>3. Sw!M1[d] = {(b + 4) % 16 : b \in Sw!M0[d]}
  BY DEF Sw!M1
<1> HIDE DEF e, n
<1>4. ASSUME NEW x
      PROVE  x \in Sw!M0[d] <=> \/ x = e + 8 /\ e # (n + 3) % 4
                                \/ x = e + 4 /\ e # (n + 2) % 4
                                \/ x = e /\ e # (n + 1) % 4
                                \/ x = e + 12 /\ e # (n + 0) % 4
  <2>1. x \in Small(1) <=> x = e /\ e # (n + 1) % 4
    OBVIOUS
  <2>2. x \in At(Small(3), 8) <=> x = e + 8 /\ e # (n + 3) % 4
    BY DEF At
  <2>3. x \in At(Small(2), 4) <=> x = e + 4 /\ e # (n + 2) % 4
    BY DEF At
  <2>4. x \in At(Small(0), 12) <=> x = e + 12 /\ e # (n + 0) % 4
    BY DEF At
  <2> HIDE DEF Small
  <2>5. QED
    BY <1>2, <2>1, <2>2, <2>3, <2>4
<1>5. ASSUME NEW j \in 0 .. 3, NEW b \in 0 .. 3
      PROVE  4 * j + b \in Sw!M0[d] <=> b = e /\ e # (n + j + 1) % 4
  <2>1. /\ 4 * j + b = e + 8 <=> j = 2 /\ b = e
        /\ 4 * j + b = e + 4 <=> j = 1 /\ b = e
        /\ 4 * j + b = e <=> j = 0 /\ b = e
        /\ 4 * j + b = e + 12 <=> j = 3 /\ b = e
    BY <1>1
  <2>2. j = 0 \/ j = 1 \/ j = 2 \/ j = 3
    OBVIOUS
  <2>3. /\ j = 0 => (n + j + 1) % 4 = (n + 1) % 4
        /\ j = 1 => (n + j + 1) % 4 = (n + 2) % 4
        /\ j = 2 => (n + j + 1) % 4 = (n + 3) % 4
        /\ j = 3 => (n + j + 1) % 4 = (n + 0) % 4
    BY <1>1
  <2>4. QED
    BY <1>4, <2>1, <2>2, <2>3
<1>6. ASSUME NEW j \in 0 .. 3, NEW b \in 0 .. 3
      PROVE  4 * j + b \in Sw!M1[d] <=> b = e /\ e # (n + j) % 4
  <2> DEFINE x == 4 * ((j + 3) % 4) + b
  <2>1. Sw!M0[d] \subseteq 0 .. 15
    BY <1>1, <1>4
  <2>2. 4 * j + b \in Sw!M1[d] <=> x \in Sw!M0[d]
    <3>1. x \in 0 .. 15 /\ (x + 4) % 16 = 4 * j + b
      OBVIOUS
    <3>2. \A y \in 0 .. 15 : (y + 4) % 16 = 4 * j + b => y = x
      OBVIOUS
    <3> HIDE DEF x
    <3>3. 4 * j + b \in Sw!M1[d] <=> \E y \in Sw!M0[d] : 4 * j + b = (y + 4) % 16
      BY <1>3
    <3>4. QED
      BY <2>1, <3>1, <3>2, <3>3
  <2>3. x \in Sw!M0[d] <=> b = e /\ e # (n + ((j + 3) % 4) + 1) % 4
    <3>1. (j + 3) % 4 \in 0 .. 3
      OBVIOUS
    <3>2. QED
      BY <1>5, <3>1
  <2>4. (n + ((j + 3) % 4) + 1) % 4 = (n + j) % 4
    BY <1>1
  <2>5. QED
    BY <2>2, <2>3, <2>4
<1>7. QED
  BY <1>5, <1>6 DEF e, n

\* Matrices over GF(2) and masked sums of nibbles are the same linear map.
LEMMA MixAgrees ==
  ASSUME NEW v
  PROVE  Sw!MPrimeLayer(v) \in Block /\ Hw!PrinceMultPrime(v) = Sw!MPrimeLayer(v)
<1> DEFINE Word16(c) == Slice(v, 16 * c, 16)
           Rows(c) == IF c \in {0, 3} THEN Sw!M0 ELSE Sw!M1
           Index(c, j) == IF c \in {0, 3} THEN 3 - j ELSE (4 - j) % 4
           Masks(c, j) == OfNumber(Hw!ShiftRowsConst[1 + Index(c, j)], 16)
           Masked(c, j, b) == {d \in Word16(c) \cap Masks(c, j) : d % 4 = b}
           Selected(c, x) == {i \in Word16(c) : x \in Rows(c)[i]}
           SwPart(c) == At({b \in 0 .. 15 : Odd(Selected(c, b))}, 16 * c)
           HwPart(c, j) == At({b \in 0 .. 3 : Odd(Masked(c, j, b))}, 16 * c + 4 * j)
<1>1. Sw!MPrimeLayer(v) = UNION {SwPart(c) : c \in 0 .. 3}
  BY SwVectors, ParitiesAgree DEF Sw!MPrimeLayer, Sw!MatMult
<1>2. Hw!PrinceMultPrime(v) = UNION {HwPart(c, j) : c \in 0 .. 3, j \in 0 .. 3}
  <2> DEFINE Part(c, j) ==
               Hw!At({b \in 0 .. 3 :
                        Hw!Odd({d \in Hw!Slice(v, 16 * c, 16)
                                       \cap Hw!OfNumber(Hw!ShiftRowsConst[1 + Index(c, j)], 16) :
                                d % 4 = b})}, 16 * c + 4 * j)
  <2>1. Hw!PrinceMultPrime(v) = UNION {Part(c, j) : c \in 0 .. 3, j \in 0 .. 3}
    BY DEF Hw!PrinceMultPrime
  <2>2. \A c, j : Part(c, j) = HwPart(c, j)
    BY HwVectors, ParitiesAgree
  <2> HIDE DEF Part, HwPart
  <2>3. QED
    BY <2>1, <2>2
<1>3. \A c \in 0 .. 3 : Word16(c) \subseteq 0 .. 15
  BY SliceBits
<1>4. ASSUME NEW c \in 0 .. 3, NEW j \in 0 .. 3, NEW b \in 0 .. 3
      PROVE  Masked(c, j, b) = Selected(c, 4 * j + b)
  <2>1. ASSUME NEW d \in Word16(c)
        PROVE  d \in Masks(c, j) /\ d % 4 = b <=> 4 * j + b \in Rows(c)[d]
    <3>1. d \in 0 .. 15
      BY <1>3, <2>1
    <3>2. Index(c, j) \in 0 .. 3
      OBVIOUS
    <3>3. d \in Masks(c, j) <=> d % 4 # ((d \div 4) + 4 - Index(c, j)) % 4
      <4> HIDE DEF Index
      <4>1. QED
        BY <3>1, <3>2, MixMasks
    <3>4. CASE c \in {0, 3}
      <4>1. Index(c, j) = 3 - j /\ Rows(c) = Sw!M0
        BY <3>4
      <4>2. ((d \div 4) + 4 - (3 - j)) % 4 = ((d \div 4) + j + 1) % 4
        BY <3>1
      <4>3. 4 * j + b \in Sw!M0[d] <=> b = d % 4 /\ d % 4 # ((d \div 4) + j + 1) % 4
        BY <3>1, MixRows
      <4> HIDE DEF Masks, Index, Rows
      <4>4. QED
        BY <3>3, <4>1, <4>2, <4>3
    <3>5. CASE c \notin {0, 3}
      <4>1. Index(c, j) = (4 - j) % 4 /\ Rows(c) = Sw!M1
        BY <3>5
      <4>2. ((d \div 4) + 4 - ((4 - j) % 4)) % 4 = ((d \div 4) + j) % 4
        BY <3>1
      <4>3. 4 * j + b \in Sw!M1[d] <=> b = d % 4 /\ d % 4 # ((d \div 4) + j) % 4
        BY <3>1, MixRows
      <4> HIDE DEF Masks, Index, Rows
      <4>4. QED
        BY <3>3, <4>1, <4>2, <4>3
    <3>6. QED
      BY <3>4, <3>5
  <2> HIDE DEF Masks, Rows, Word16
  <2>2. QED
    BY <2>1
<1> HIDE DEF Selected, Masked, Masks, Word16
<1>5. ASSUME NEW c \in 0 .. 3, NEW x
      PROVE  x \in SwPart(c) <=> x \in 16 * c .. 16 * c + 15 /\ Odd(Selected(c, x - 16 * c))
  <2> DEFINE part == {b \in 0 .. 15 : Odd(Selected(c, b))}
             lo == 16 * c
  <2>1. lo \in Nat /\ part \subseteq Nat
    OBVIOUS
  <2> HIDE DEF part, lo
  <2>2. x \in At(part, lo) <=> x \in Nat /\ lo <= x /\ x - lo \in part
    BY <2>1, AtBits
  <2>3. \A y : y \in part <=> y \in 0 .. 15 /\ Odd(Selected(c, y))
    BY DEF part
  <2>4. x \in At(part, lo) <=> x \in lo .. lo + 15 /\ Odd(Selected(c, x - lo))
    BY <2>1, <2>2, <2>3
  <2>5. QED
    BY <2>4 DEF part, lo
<1>6. ASSUME NEW c \in 0 .. 3, NEW j \in 0 .. 3, NEW x
      PROVE  x \in HwPart(c, j)
               <=> x \in 16 * c + 4 * j .. 16 * c + 4 * j + 3 /\ Odd(Selected(c, x - 16 * c))
  <2> DEFINE part == {b \in 0 .. 3 : Odd(Selected(c, 4 * j + b))}
             lo == 16 * c + 4 * j
  <2>1. lo \in Nat /\ part \subseteq Nat
    OBVIOUS
  <2>2. HwPart(c, j) = At(part, lo)
    <3>1. {b \in 0 .. 3 : Odd(Masked(c, j, b))} = part
      BY <1>4
    <3>2. QED
      BY <3>1
  <2> HIDE DEF part, lo, HwPart
  <2>3. x \in At(part, lo) <=> x \in Nat /\ lo <= x /\ x - lo \in part
    BY <2>1, AtBits
  <2>4. \A y : y \in part <=> y \in 0 .. 3 /\ Odd(Selected(c, 4 * j + y))
    BY DEF part
  <2>5. x \in Nat => 4 * j + (x - lo) = x - 16 * c
    BY DEF lo
  <2>6. x \in At(part, lo) <=> x \in lo .. lo + 3 /\ Odd(Selected(c, x - 16 * c))
    BY <2>1, <2>3, <2>4, <2>5
  <2>7. QED
    BY <2>2, <2>6 DEF lo
<1> HIDE DEF SwPart, HwPart
<1>7. ASSUME NEW x PROVE x \in Hw!PrinceMultPrime(v) <=> x \in Sw!MPrimeLayer(v)
  <2>1. ASSUME NEW c \in 0 .. 3, x \in SwPart(c) PROVE x \in Hw!PrinceMultPrime(v)
    <3> DEFINE j == (x - 16 * c) \div 4
    <3>1. x \in 16 * c .. 16 * c + 15 /\ Odd(Selected(c, x - 16 * c))
      BY <1>5, <2>1
    <3>2. j \in 0 .. 3 /\ x \in 16 * c + 4 * j .. 16 * c + 4 * j + 3
      BY <3>1
    <3> HIDE DEF j
    <3>3. x \in HwPart(c, j)
      BY <1>6, <3>1, <3>2
    <3>4. QED
      BY <1>2, <3>2, <3>3
  <2>2. ASSUME NEW c \in 0 .. 3, NEW j \in 0 .. 3, x \in HwPart(c, j) PROVE x \in SwPart(c)
    BY <1>5, <1>6, <2>2
  <2>3. QED
    BY <1>1, <1>2, <2>1, <2>2
<1>8. Sw!MPrimeLayer(v) \subseteq 0 .. 63
  BY <1>1, <1>5
<1>9. QED
  BY <1>7, <1>8 DEF Block, Vector

\* The second whitening key.
HwK0Prime(k0) == {b - 1 : b \in k0 \cap (2 .. 63)} \cup {63 + b : b \in k0 \cap {0}}
                 \cup (IF Hw!Odd(k0 \cap {1, 63}) THEN {0} ELSE {})

\* The second whitening key is the same.
LEMMA WhiteningAgrees ==
  ASSUME NEW k0 \in Block
  PROVE  HwK0Prime(k0) = Sw!K0Prime(k0) /\ Sw!K0Prime(k0) \in Block
<1>1. k0 \subseteq 0 .. 63
  BY DEF Block, Vector
<1> DEFINE rotated == {(b + 63) % 64 : b \in k0}
           top == {b - 63 : b \in k0 \cap {63}}
<1>2. ASSUME NEW x
      PROVE  /\ x \in rotated <=> \/ x \in 0 .. 62 /\ x + 1 \in k0
                                  \/ x = 63 /\ 0 \in k0
             /\ x \in top <=> x = 0 /\ 63 \in k0
  <2>1. \A b \in 0 .. 63 : (b + 63) % 64 = IF b = 0 THEN 63 ELSE b - 1
    OBVIOUS
  <2>2. x \in rotated <=> \E b \in k0 : x = IF b = 0 THEN 63 ELSE b - 1
    BY <1>1, <2>1
  <2>3. ASSUME NEW b \in k0, x = IF b = 0 THEN 63 ELSE b - 1
        PROVE  (x \in 0 .. 62 /\ x + 1 \in k0) \/ (x = 63 /\ 0 \in k0)
    BY <1>1, <2>3
  <2>4. ASSUME x \in 0 .. 62, x + 1 \in k0
        PROVE  \E b \in k0 : x = IF b = 0 THEN 63 ELSE b - 1
    <3>1. x = IF x + 1 = 0 THEN 63 ELSE (x + 1) - 1
      BY <2>4
    <3>2. QED
      BY <2>4, <3>1
  <2>5. x \in rotated <=> (x \in 0 .. 62 /\ x + 1 \in k0) \/ (x = 63 /\ 0 \in k0)
    BY <2>2, <2>3, <2>4
  <2>6. x \in top <=> x = 0 /\ 63 \in k0
    OBVIOUS
  <2>7. QED
    BY <2>5, <2>6
<1>3. Odd(k0 \cap {1, 63}) <=> ~(1 \in k0 <=> 63 \in k0)
  <2>1. {} \in Vector(64) /\ {1} \in Vector(64) /\ 1 # 63
    BY DEF Vector
  <2>2. ~Odd({}) /\ Odd({} \cup {1}) /\ Odd({} \cup {63}) /\ ~Odd({1} \cup {63})
    <3>1. \A v \in Vector(64) : \A x : x \notin v => (Odd(v \cup {x}) <=> ~Odd(v))
      BY OddStep
    <3>2. ~Odd({})
      BY OddStep
    <3>3. Odd({} \cup {1}) /\ Odd({} \cup {63})
      BY <2>1, <3>1, <3>2
    <3>4. {1} = {} \cup {1} /\ 63 \notin {1}
      OBVIOUS
    <3>5. Odd({1} \cup {63}) <=> ~Odd({1})
      BY <2>1, <3>1, <3>4
    <3>6. QED
      BY <3>2, <3>3, <3>4, <3>5
  <2>3. k0 \cap {1, 63} = IF 1 \in k0 THEN IF 63 \in k0 THEN {1} \cup {63} ELSE {} \cup {1}
                          ELSE IF 63 \in k0 THEN {} \cup {63} ELSE {}
    OBVIOUS
  <2>4. QED
    BY <2>2, <2>3
<1>4. ASSUME NEW x
      PROVE  x \in HwK0Prime(k0) <=> \/ x \in 1 .. 62 /\ x + 1 \in k0
                                     \/ x = 63 /\ 0 \in k0
                                     \/ x = 0 /\ ~(1 \in k0 <=> 63 \in k0)
  <2>1. x \in {b - 1 : b \in k0 \cap (2 .. 63)} <=> x \in 1 .. 62 /\ x + 1 \in k0
    <3>1. ASSUME NEW b \in k0 \cap (2 .. 63), x = b - 1 PROVE x \in 1 .. 62 /\ x + 1 \in k0
      BY <3>1
    <3>2. ASSUME x \in 1 .. 62, x + 1 \in k0 PROVE x \in {b - 1 : b \in k0 \cap (2 .. 63)}
      <4>1. x + 1 \in k0 \cap (2 .. 63) /\ x = (x + 1) - 1
        BY <3>2
      <4>2. QED
        BY <4>1
    <3>3. QED
      BY <3>1, <3>2
  <2>2. x \in {63 + b : b \in k0 \cap {0}} <=> x = 63 /\ 0 \in k0
    OBVIOUS
  <2>3. x \in (IF Hw!Odd(k0 \cap {1, 63}) THEN {0} ELSE {}) <=> x = 0 /\ ~(1 \in k0 <=> 63 \in k0)
    BY <1>3, ParitiesAgree
  <2>4. QED
    BY <2>1, <2>2, <2>3 DEF HwK0Prime
<1>5. Sw!K0Prime(k0) = Xor(rotated, top)
  BY SwVectors DEF Sw!K0Prime
<1>6. ASSUME NEW x PROVE x \in HwK0Prime(k0) <=> x \in Sw!K0Prime(k0)
  <2>1. x \in Sw!K0Prime(k0) <=> ~(x \in rotated <=> x \in top)
    BY <1>5, XorBits
  <2> HIDE DEF rotated, top
  <2>2. CASE x = 0
    <3>1. x \in 0 .. 62 /\ x \notin 1 .. 62 /\ x # 63 /\ x + 1 = 1
      BY <2>2
    <3>2. QED
      BY <1>2, <1>4, <2>1, <2>2, <3>1
  <2>3. CASE x # 0
    <3>1. x \in 0 .. 62 <=> x \in 1 .. 62
      BY <2>3
    <3>2. QED
      BY <1>2, <1>4, <2>1, <2>3, <3>1
  <2>4. QED
    BY <2>2, <2>3
<1>7. HwK0Prime(k0) \subseteq 0 .. 63
  <2>1. 0 \in 0 .. 63 /\ 63 \in 0 .. 63 /\ \A x \in 1 .. 62 : x \in 0 .. 63
    OBVIOUS
  <2>2. QED
    BY <1>4, <2>1
<1>8. HwK0Prime(k0) = Sw!K0Prime(k0)
  BY <1>6
<1>9. Block = SUBSET (0 .. 63)
  BY DEF Block, Vector
<1>10. QED
  BY <1>7, <1>8, <1>9

\* The cipher with two half rounds, as both sides unroll to it.
RoundForth(v, c, k) == Xor(Xor(Sw!ShiftRows(Sw!MPrimeLayer(Sw!SLayer(v)), FALSE), k), c)
RoundBack(v, c, k) == Sw!SInvLayer(Sw!MPrimeLayer(Sw!ShiftRows(Xor(Xor(v, k), c), TRUE)))
Cipher(v, k0, k1) ==
  LET rc == Sw!RoundConstant
      start == Xor(Xor(Xor(v, k0), k1), rc[0])
      forth == RoundForth(RoundForth(start, rc[1], k0), rc[2], k1)
      turned == Sw!SInvLayer(Sw!MPrimeLayer(Sw!SLayer(forth)))
      back == RoundBack(RoundBack(turned, rc[9], k1), rc[10], k0)
  IN Xor(Xor(Xor(back, k1), rc[11]), Sw!K0Prime(k0))

\* Sums of blocks are blocks.
LEMMA BlocksXor == \A v, w \in Block : Xor(v, w) \in Block
<1>1. \A v, w \in SUBSET (0 .. 63) : Xor(v, w) \in SUBSET (0 .. 63)
  BY XorBits
<1>2. Block = SUBSET (0 .. 63)
  BY DEF Block, Vector
<1>3. QED
  BY <1>1, <1>2

\* Rounds keep the width of a block.
LEMMA RoundsFit ==
  ASSUME NEW v \in Block, NEW c \in Block, NEW k \in Block
  PROVE  RoundForth(v, c, k) \in Block /\ RoundBack(v, c, k) \in Block
<1>1. RoundForth(v, c, k) \in Block
  BY MixAgrees, ShiftRowsAgree, BlocksXor DEF RoundForth
<1>2. RoundBack(v, c, k) \in Block
  BY SubstitutedBlocks DEF RoundBack
<1>3. QED
  BY <1>1, <1>2

\* The cipher keeps the width of a block.
LEMMA CipherFits ==
  ASSUME NEW v \in Block, NEW k0 \in Block, NEW k1 \in Block
  PROVE  Cipher(v, k0, k1) \in Block
<1>1. \A x : Sw!SInvLayer(x) \in Block
  BY SubstitutedBlocks
<1>2. Sw!RoundConstant[11] \in Block /\ Sw!K0Prime(k0) \in Block
  BY PrinceConstants, WhiteningAgrees
<1>3. QED
  BY <1>1, <1>2, BlocksXor DEF Cipher, RoundBack

\* prince_enc_dec with two half rounds is the cipher.
LEMMA SwCipher ==
  ASSUME NEW v \in Block, NEW k0 \in Block, NEW k1 \in Block
  PROVE  Sw!EncDec(v, k0, k1, FALSE, 2) = Cipher(v, k0, k1)
<1> DEFINE rc == Sw!RoundConstant
           in == Xor(v, k0)
           Key(n) == IF n % 2 = 1 THEN k0 ELSE k1
           Ahead(r, w) == Sw!Xor(Sw!Xor(Sw!MLayer(Sw!SLayer(w)), Key(r)), rc[r])
           Return(r, w) == Sw!SInvLayer(Sw!MInvLayer(Sw!Xor(Sw!Xor(w, Key(2 + r + 1)), rc[10 - 2 + r])))
           start == Sw!Xor(Sw!Xor(in, k1), rc[0])
           forward == CHOOSE s : s = [r \in 0 .. 2 |-> IF r = 0 THEN start ELSE Ahead(r, s[r - 1])]
           turned == Sw!SInvLayer(Sw!MPrimeLayer(Sw!SLayer(forward[2])))
           backward == CHOOSE s : s = [r \in 0 .. 2 |-> IF r = 0 THEN turned ELSE Return(r, s[r - 1])]
<1>1. Sw!Core(in, k0, k1, 2) = Sw!Xor(Sw!Xor(backward[2], k1), rc[11])
  BY DEF Sw!Core
<1>2. Sw!EncDec(v, k0, k1, FALSE, 2) = Xor(Sw!Core(in, k0, k1, 2), Sw!K0Prime(k0))
  BY SwVectors, XorBits DEF Sw!EncDec
<1> HIDE DEF in, start
<1>3. forward[2] = Ahead(2, Ahead(1, start))
  <2> HIDE DEF Ahead
  <2> DEFINE s == [r \in 0 .. 2 |-> IF r = 0 THEN start ELSE IF r = 1 THEN Ahead(1, start)
                                    ELSE Ahead(2, Ahead(1, start))]
  <2>1. s = [r \in 0 .. 2 |-> IF r = 0 THEN start ELSE Ahead(r, s[r - 1])]
    OBVIOUS
  <2>2. forward = [r \in 0 .. 2 |-> IF r = 0 THEN start ELSE Ahead(r, forward[r - 1])]
    BY <2>1
  <2> HIDE DEF forward
  <2>3. forward[0] = start /\ forward[1] = Ahead(1, forward[0]) /\ forward[2] = Ahead(2, forward[1])
    BY <2>2
  <2>4. QED
    BY <2>3
<1> HIDE DEF forward, turned
<1>4. backward[2] = Return(2, Return(1, turned))
  <2> HIDE DEF Return
  <2> DEFINE s == [r \in 0 .. 2 |-> IF r = 0 THEN turned ELSE IF r = 1 THEN Return(1, turned)
                                    ELSE Return(2, Return(1, turned))]
  <2>1. s = [r \in 0 .. 2 |-> IF r = 0 THEN turned ELSE Return(r, s[r - 1])]
    OBVIOUS
  <2>2. backward = [r \in 0 .. 2 |-> IF r = 0 THEN turned ELSE Return(r, backward[r - 1])]
    BY <2>1
  <2> HIDE DEF backward
  <2>3. backward[0] = turned /\ backward[1] = Return(1, backward[0]) /\ backward[2] = Return(2, backward[1])
    BY <2>2
  <2>4. QED
    BY <2>3
<1> HIDE DEF backward
<1>5. Key(1) = k0 /\ Key(2) = k1 /\ Key(4) = k1 /\ Key(5) = k0
  OBVIOUS
<1>6. \A w : Ahead(1, w) = RoundForth(w, rc[1], k0) /\ Ahead(2, w) = RoundForth(w, rc[2], k1)
  BY <1>5, SwVectors DEF RoundForth, Sw!MLayer
<1>7. \A w : Return(1, w) = RoundBack(w, rc[9], k1) /\ Return(2, w) = RoundBack(w, rc[10], k0)
  <2>1. 2 + 1 + 1 = 4 /\ 2 + 2 + 1 = 5 /\ 10 - 2 + 1 = 9 /\ 10 - 2 + 2 = 10
    OBVIOUS
  <2> HIDE DEF Key
  <2>2. QED
    BY <1>5, <2>1, SwVectors DEF RoundBack, Sw!MInvLayer
<1> HIDE DEF Ahead, Return, Key
<1>8. QED
  BY <1>1, <1>2, <1>3, <1>4, <1>6, <1>7, SwVectors DEF Cipher, in, start, turned

\* Bits of blocks.
LEMMA BlockBits == Block = SUBSET (0 .. 63)
  BY DEF Block, Vector

\* prim_prince with two half rounds is the cipher.
LEMMA HwCipher ==
  ASSUME NEW v \in Block, NEW key
  PROVE  Hw!Prince(v, key, 2) = Cipher(v, Slice(key, 64, 64), Slice(key, 0, 64))
<1> DEFINE k0 == Hw!Slice(key, 64, 64)
           k1 == Hw!Slice(key, 0, 64)
           rc == Sw!RoundConstant
           Key(n) == IF n % 2 = 1 THEN k0 ELSE k1
           Ahead(r, w) == Hw!Xor(Hw!Xor(Hw!PrinceShiftrows(Hw!PrinceMultPrime(
                                          Hw!Substituted(w, 16, Hw!PrinceSbox4)), Hw!ShiftRows64),
                                        Hw!PrinceRoundConst[r]), Key(r))
           Return(r, w) == Hw!Substituted(Hw!PrinceMultPrime(Hw!PrinceShiftrows(
                             Hw!Xor(Hw!Xor(w, Key(2 + r + 1)), Hw!PrinceRoundConst[10 - 2 + r]),
                             Hw!ShiftRows64Inv)), 16, Hw!PrinceSbox4Inv)
           start == Hw!Xor(Hw!Xor(Hw!Xor(v, k0), k1), Hw!PrinceRoundConst[0])
           lo == CHOOSE s : s = [r \in 0 .. 2 |-> IF r = 0 THEN start ELSE Ahead(r, s[r - 1])]
           turned == Hw!Substituted(Hw!PrinceMultPrime(Hw!Substituted(lo[2], 16, Hw!PrinceSbox4)),
                                    16, Hw!PrinceSbox4Inv)
           hi == CHOOSE s : s = [r \in 0 .. 2 |-> IF r = 0 THEN turned ELSE Return(r, s[r - 1])]
<1>1. k0 \in Block /\ k1 \in Block
  <2>1. 64 \in Nat /\ 0 \in Nat
    OBVIOUS
  <2>2. QED
    BY <2>1, SlicesFit, HwVectors DEF Block
<1>2. Hw!Prince(v, key, 2)
        = Hw!Xor(Hw!Xor(Hw!Xor(hi[2], Hw!PrinceRoundConst[11]), k1), HwK0Prime(k0))
  BY DEF Hw!Prince, HwK0Prime
<1>3. \A r \in 0 .. 11 : Hw!PrinceRoundConst[r] = rc[r] /\ rc[r] \in Block
  BY PrinceConstants
<1> HIDE DEF k0, k1, start, rc
<1>4. lo[2] = Ahead(2, Ahead(1, start))
  <2> HIDE DEF Ahead
  <2> DEFINE s == [r \in 0 .. 2 |-> IF r = 0 THEN start ELSE IF r = 1 THEN Ahead(1, start)
                                    ELSE Ahead(2, Ahead(1, start))]
  <2>1. s = [r \in 0 .. 2 |-> IF r = 0 THEN start ELSE Ahead(r, s[r - 1])]
    OBVIOUS
  <2>2. lo = [r \in 0 .. 2 |-> IF r = 0 THEN start ELSE Ahead(r, lo[r - 1])]
    BY <2>1
  <2> HIDE DEF lo
  <2>3. lo[0] = start /\ lo[1] = Ahead(1, lo[0]) /\ lo[2] = Ahead(2, lo[1])
    BY <2>2
  <2>4. QED
    BY <2>3
<1> HIDE DEF lo, turned
<1>5. hi[2] = Return(2, Return(1, turned))
  <2> HIDE DEF Return
  <2> DEFINE s == [r \in 0 .. 2 |-> IF r = 0 THEN turned ELSE IF r = 1 THEN Return(1, turned)
                                    ELSE Return(2, Return(1, turned))]
  <2>1. s = [r \in 0 .. 2 |-> IF r = 0 THEN turned ELSE Return(r, s[r - 1])]
    OBVIOUS
  <2>2. hi = [r \in 0 .. 2 |-> IF r = 0 THEN turned ELSE Return(r, hi[r - 1])]
    BY <2>1
  <2> HIDE DEF hi
  <2>3. hi[0] = turned /\ hi[1] = Return(1, hi[0]) /\ hi[2] = Return(2, hi[1])
    BY <2>2
  <2>4. QED
    BY <2>3
<1> HIDE DEF hi
<1>6. Key(1) = k0 /\ Key(2) = k1 /\ Key(4) = k1 /\ Key(5) = k0
  OBVIOUS
<1> HIDE DEF Key
<1>7. \A a, b, c : Xor(Xor(a, b), c) = Xor(Xor(a, c), b)
  BY XorBits
<1>8. \A w, c, k : Xor(Xor(Hw!PrinceShiftrows(Hw!PrinceMultPrime(
                             Hw!Substituted(w, 16, Hw!PrinceSbox4)), Hw!ShiftRows64), c), k)
                   = RoundForth(w, c, k)
  <2> TAKE w, c, k
  <2>1. Hw!PrinceShiftrows(Hw!PrinceMultPrime(Hw!Substituted(w, 16, Hw!PrinceSbox4)), Hw!ShiftRows64)
          = Sw!ShiftRows(Sw!MPrimeLayer(Sw!SLayer(w)), FALSE)
    BY SubstitutedBlocks, MixAgrees, ShiftRowsAgree
  <2> DEFINE x == Sw!ShiftRows(Sw!MPrimeLayer(Sw!SLayer(w)), FALSE)
  <2>2. RoundForth(w, c, k) = Xor(Xor(x, k), c)
    BY DEF RoundForth
  <2> HIDE DEF x
  <2>3. Xor(Xor(x, c), k) = Xor(Xor(x, k), c)
    BY <1>7
  <2>4. QED
    BY <2>1, <2>2, <2>3 DEF x
<1>9. ASSUME NEW w \in Block, NEW c \in Block, NEW k \in Block
      PROVE  Hw!Substituted(Hw!PrinceMultPrime(Hw!PrinceShiftrows(Xor(Xor(w, k), c), Hw!ShiftRows64Inv)),
                            16, Hw!PrinceSbox4Inv) = RoundBack(w, c, k)
  <2> DEFINE x == Xor(Xor(w, k), c)
  <2>1. x \in Block
    BY BlocksXor
  <2>2. Hw!PrinceShiftrows(x, Hw!ShiftRows64Inv) = Sw!ShiftRows(x, TRUE)
    BY <2>1, ShiftRowsAgree
  <2> HIDE DEF x
  <2>3. QED
    BY <2>2, SubstitutedBlocks, MixAgrees DEF RoundBack, x
<1>10. \A w : Ahead(1, w) = RoundForth(w, rc[1], k0) /\ Ahead(2, w) = RoundForth(w, rc[2], k1)
  BY <1>3, <1>6, <1>8, HwVectors
<1>11. \A w \in Block : Return(1, w) = RoundBack(w, rc[9], k1) /\ Return(2, w) = RoundBack(w, rc[10], k0)
  <2>1. 2 + 1 + 1 = 4 /\ 2 + 2 + 1 = 5 /\ 10 - 2 + 1 = 9 /\ 10 - 2 + 2 = 10
    OBVIOUS
  <2>2. /\ rc[9] \in Block /\ rc[10] \in Block
        /\ Hw!PrinceRoundConst[9] = rc[9] /\ Hw!PrinceRoundConst[10] = rc[10]
    BY <1>3
  <2>3. QED
    BY <1>1, <1>6, <1>9, <2>1, <2>2, HwVectors
<1>12. turned = Sw!SInvLayer(Sw!MPrimeLayer(Sw!SLayer(lo[2]))) /\ turned \in Block
  BY SubstitutedBlocks, MixAgrees DEF turned
<1>13. start = Xor(Xor(Xor(v, k0), k1), rc[0])
  BY <1>3, HwVectors DEF start
<1>14. Hw!PrinceRoundConst[11] = rc[11] /\ HwK0Prime(k0) = Sw!K0Prime(k0)
  BY <1>1, <1>3, WhiteningAgrees
<1>15. RoundBack(turned, rc[9], k1) \in Block
  BY <1>1, <1>3, <1>12, RoundsFit
<1> HIDE DEF Ahead, Return
<1>16. hi[2] = RoundBack(RoundBack(turned, rc[9], k1), rc[10], k0)
  BY <1>5, <1>11, <1>12, <1>15
<1>17. lo[2] = RoundForth(RoundForth(start, rc[1], k0), rc[2], k1)
  BY <1>4, <1>10
<1>18. Hw!Prince(v, key, 2) = Cipher(v, k0, k1)
  BY <1>2, <1>7, <1>12, <1>13, <1>14, <1>16, <1>17, HwVectors DEF Cipher, rc
<1>19. QED
  BY <1>18, HwVectors DEF k0, k1

\* Both sides have the same keystream for an address, and it fills a row.
LEMMA StreamsAgree ==
  ASSUME NEW p \in 1 .. Len(Ports), NEW r \in BOOLEAN, NEW a \in Addrs
  PROVE  HwStream[p][r][a] = SwStream[p][r][a] /\ SwStream[p][r][a] \in Row
<1> DEFINE addr == AddrBits(a)
           nonce == Nonce(p, r)
           key == Ports[p].key
           Input(k) == addr \cup At(Slice(nonce, k * (64 - AddrWidth), 64 - AddrWidth), AddrWidth)
           Out(k) == Cipher(Input(k), Slice(key, 64, 64), Slice(key, 0, 64))
           blocks == 0 .. (GetPhysWidth + 63) \div 64 - 1
           whole == UNION {At(IF r THEN Out(0) ELSE Out(k), 64 * k) : k \in blocks}
<1>1. AddrWidth \in 1 .. 32 /\ addr \in Vector(AddrWidth) /\ GetPhysWidth \in Nat
  BY AddressesFit, AreaAssumption, Lanes
<1>2. \A k \in blocks : k \in Nat
  BY <1>1
<1> HIDE DEF addr, nonce, key, blocks
<1>3. ASSUME NEW k \in Nat PROVE Input(k) \in Block
  <2> DEFINE m == 64 - AddrWidth
             part == Slice(nonce, k * m, m)
  <2>1. m \in Nat /\ k * m \in Nat /\ AddrWidth \in Nat /\ AddrWidth + m = 64
    BY <1>1
  <2>2. part \in Vector(m)
    BY <2>1, SlicesFit
  <2> HIDE DEF m, part
  <2>3. \A b \in 0 .. m - 1 : b + AddrWidth \in 0 .. 63
    BY <2>1
  <2>4. At(part, AddrWidth) \subseteq 0 .. 63
    BY <2>2, <2>3 DEF At, Vector
  <2>5. addr \subseteq 0 .. 63
    BY <1>1 DEF Vector
  <2>6. addr \cup At(part, AddrWidth) \subseteq 0 .. 63
    BY <2>4, <2>5
  <2>7. QED
    BY <2>6, BlockBits DEF m, part
<1>4. Slice(key, 64, 64) \in Block /\ Slice(key, 0, 64) \in Block
  <2>1. 64 \in Nat /\ 0 \in Nat
    OBVIOUS
  <2>2. QED
    BY <2>1, SlicesFit DEF Block
<1> HIDE DEF Input
<1>5. \A k \in Nat : /\ Sw!EncDec(Input(k), Slice(key, 64, 64), Slice(key, 0, 64), FALSE, 2) = Out(k)
                     /\ Hw!Prince(Input(k), key, 2) = Out(k)
  BY <1>3, <1>4, SwCipher, HwCipher
<1> HIDE DEF Out
<1>6. Sw!GenKeystream(addr, AddrWidth, nonce, key, GetPhysWidth, r) = {b \in whole : b < GetPhysWidth}
  <2> DEFINE SwInput(k) == addr \cup Sw!At(Sw!Slice(nonce, k * (64 - AddrWidth), 64 - AddrWidth), AddrWidth)
             SwOut(k) == Sw!EncDec(SwInput(k), Sw!Slice(key, 64, 64), Sw!Slice(key, 0, 64), FALSE, 2)
             raw == UNION {Sw!At(IF r THEN SwOut(0) ELSE SwOut(k), 64 * k) : k \in blocks}
  <2>1. Sw!GenKeystream(addr, AddrWidth, nonce, key, GetPhysWidth, r) = {b \in raw : b < GetPhysWidth}
    BY DEF Sw!GenKeystream, Sw!NumPrinceHalfRounds, blocks
  <2>2. raw = whole
    <3>1. \A k : SwInput(k) = Input(k)
      BY SwVectors DEF Input
    <3> HIDE DEF SwInput
    <3>2. QED
      BY <1>2, <1>5, <3>1, SwVectors
  <2>3. QED
    BY <2>1, <2>2
<1>7. Hw!Keystream(addr, AddrWidth, nonce, key, GetPhysWidth, r) = {b \in whole : b < GetPhysWidth}
  <2> DEFINE HwInput(k) == addr \cup Hw!At(Hw!Slice(nonce, k * (64 - AddrWidth), 64 - AddrWidth), AddrWidth)
             raw == IF r THEN UNION {Hw!At(Hw!Prince(HwInput(0), key, 2), 64 * k) : k \in blocks}
                    ELSE UNION {Hw!At(Hw!Prince(HwInput(k), key, 2), 64 * k) : k \in blocks}
  <2>1. Hw!Keystream(addr, AddrWidth, nonce, key, GetPhysWidth, r) = {b \in raw : b < GetPhysWidth}
    BY DEF Hw!Keystream, blocks
  <2>2. raw = whole
    <3>1. \A k : HwInput(k) = Input(k)
      BY HwVectors DEF Input
    <3> HIDE DEF HwInput
    <3>2. QED
      BY <1>2, <1>5, <3>1, HwVectors
  <2>3. QED
    BY <2>1, <2>2
<1>8. whole \subseteq Nat
  <2>1. \A k \in Nat : Out(k) \in Block
    BY <1>3, <1>4, CipherFits DEF Out
  <2>2. ASSUME NEW k \in blocks PROVE At(IF r THEN Out(0) ELSE Out(k), 64 * k) \subseteq Nat
    <3> DEFINE out == IF r THEN Out(0) ELSE Out(k)
               lo == 64 * k
    <3>1. out \in Block /\ lo \in Nat
      BY <1>2, <2>1
    <3>2. out \subseteq Nat
      <4> HIDE DEF out
      <4>1. out \subseteq 0 .. 63
        BY <3>1, BlockBits
      <4>2. QED
        BY <4>1
    <3> HIDE DEF out, lo
    <3>3. At(out, lo) \subseteq Nat
      BY <3>1, <3>2 DEF At
    <3>4. QED
      BY <3>3 DEF out, lo
  <2>3. QED
    BY <2>2
<1>9. {b \in whole : b < GetPhysWidth} \in Row
  <2> HIDE DEF whole
  <2>1. ASSUME NEW b \in whole, b < GetPhysWidth PROVE b \in 0 .. GetPhysWidth - 1
    <3>1. b \in Nat
      BY <1>8
    <3>2. QED
      BY <1>1, <2>1, <3>1
  <2>2. QED
    BY <2>1 DEF Row
<1>10. QED
  BY <1>6, <1>7, <1>9 DEF SwStream, HwStream, addr, nonce, key

-----------------------------------------------------------------------------
(* What is stored for an address, and what is read there *)

RowFor(flagged, a, p, r) == EncRow(Assembled(CodesOf(flagged)), SwStream[p][r][a])
Found(row, a, p, r) == [i \in Lane |-> Checked(Chunk(DecRow(row, SwStream[p][r][a]), i))]

\* Words that are written with their integrity are words for WriteWithIntegrity.
LEMMA IntegralFits == \A words \in Words : Integral(words) \in EccWords
<1> TAKE words \in Words
<1>1. \A i \in Lane : words[i] \in Word
  BY AreaAssumption
<1>2. QED
  BY <1>1 DEF Integral, EccWords

\* What is stored is a row, and what is found there is what was stored.
LEMMA StoredRows ==
  ASSUME NEW p \in 1 .. Len(Ports), NEW r \in BOOLEAN, NEW a \in Addrs, NEW flagged \in EccWords
  PROVE  RowFor(flagged, a, p, r) \in Row /\ Found(RowFor(flagged, a, p, r), a, p, r) = flagged
<1> DEFINE codes == CodesOf(flagged)
           row == Assembled(codes)
           stream == SwStream[p][r][a]
<1>1. codes \in Chunks /\ \A i \in Lane : Checked(codes[i]) = flagged[i]
  BY CodesFit
<1>2. row \in Row /\ \A i \in Lane : Chunk(row, i) = codes[i]
  BY <1>1, AssembledBits
<1>3. stream \in Row
  BY StreamsAgree
<1> HIDE DEF codes, row, stream
<1>4. EncRow(row, stream) \in Row /\ DecRow(EncRow(row, stream), stream) = row
  BY <1>2, <1>3, DecRowUndoesEncRow
<1>5. Found(EncRow(row, stream), a, p, r) = [i \in Lane |-> flagged[i]]
  BY <1>1, <1>2, <1>4 DEF Found, stream
<1>6. flagged = [i \in Lane |-> flagged[i]]
  BY DEF EccWords
<1>7. QED
  BY <1>4, <1>5, <1>6 DEF RowFor, codes, row, stream

\* Both sides find the same in every row.
LEMMA ReadsAgree ==
  ASSUME NEW rows, NEW a \in Addrs, port \in 1 .. Len(Ports), repeat \in BOOLEAN
  PROVE  /\ SwRead(rows, a) = Found(rows[ToPhysAddr[port][repeat][a]], a, port, repeat)
         /\ HwRead(rows, a) = Found(rows[ToPhysAddr[port][repeat][a]], a, port, repeat)
<1> DEFINE row == rows[ToPhysAddr[port][repeat][a]]
           stream == SwStream[port][repeat][a]
           data == DecRow(row, stream)
<1>1. HwStream[port][repeat][a] = stream /\ HwAddr[port][repeat][a] = ToPhysAddr[port][repeat][a]
  BY StreamsAgree, Places
<1>2. Sw!DecryptData(row, GetPhysWidth, 39, stream) = data /\ Hw!Rdata(row, stream, GetPhysWidth) = data
  BY SwRows, HwRows
<1>3. SwRead(rows, a) = Unpacked(data)
  BY <1>2 DEF SwRead
<1>4. HwRead(rows, a) = [i \in Lane |-> [good |-> Hw!SecdedGood(Chunk(data, i)),
                                        word |-> Chunk(data, i) \cap (0 .. 31)]]
  BY <1>1, <1>2 DEF HwRead, Chunk
<1> HIDE DEF data
<1>5. ASSUME NEW i \in Lane
      PROVE  [good |-> Hw!SecdedGood(Chunk(data, i)), word |-> Chunk(data, i) \cap (0 .. 31)]
               = Checked(Chunk(data, i))
  <2> DEFINE code == Chunk(data, i)
  <2>1. code \in Vector(39)
    BY ChunksFit
  <2> HIDE DEF code
  <2>2. Hw!SecdedGood(code) <=> Slice(code, 32, 7) = CheckBits(code \cap (0 .. 31))
    BY <2>1, DecodersAgree
  <2>3. Hw!SecdedGood(code) \in BOOLEAN
    BY DEF Hw!SecdedGood
  <2>4. Hw!SecdedGood(code) = (Slice(code, 32, 7) = CheckBits(code \cap (0 .. 31)))
    BY <2>2, <2>3
  <2>5. QED
    BY <2>4 DEF Checked, code
<1>6. QED
  BY <1>3, <1>4, <1>5, UnpackedBits DEF Found, data

\* Both sides store the same row for the same words.
LEMMA WritesAgree ==
  ASSUME NEW a \in Addrs, port \in 1 .. Len(Ports), repeat \in BOOLEAN
  PROVE  /\ \A flagged \in EccWords : SwStored(flagged, a) = RowFor(flagged, a, port, repeat)
         /\ \A words \in Words :
              Hw!WdataScr(UNION {At(Hw!SecdedEnc(words[i]), 39 * i) : i \in Lane},
                          HwStream[port][repeat][a], GetPhysWidth)
                = RowFor(Integral(words), a, port, repeat)
<1>1. \A flagged \in EccWords : SwStored(flagged, a) = RowFor(flagged, a, port, repeat)
  BY PackedBits, SwRows DEF SwStored, RowFor
<1>2. ASSUME NEW words \in Words
      PROVE  UNION {At(Hw!SecdedEnc(words[i]), 39 * i) : i \in Lane} = Assembled(CodesOf(Integral(words)))
  <2>1. ASSUME NEW i \in Lane PROVE Hw!SecdedEnc(words[i]) = CodesOf(Integral(words))[i]
    <3>1. words[i] \in Word
      BY AreaAssumption
    <3>2. Integral(words)[i].good = TRUE /\ Integral(words)[i].word = words[i]
      BY DEF Integral
    <3>3. CodesOf(Integral(words))[i] = Coded(words[i], CheckBits(words[i]))
      BY <3>2 DEF CodesOf, CheckOf
    <3>4. QED
      BY <3>1, <3>3, EncodersAgree
  <2>2. QED
    BY <2>1 DEF Assembled
<1>3. HwStream[port][repeat][a] = SwStream[port][repeat][a]
  BY StreamsAgree
<1>4. QED
  BY <1>1, <1>2, <1>3, HwRows DEF RowFor

-----------------------------------------------------------------------------
(* The invariant *)

\* rows hold, scrambled under key p, the words that a side knows it has written.
Holds(rows, known, p, r) ==
  \A a \in DOMAIN known : /\ known[a] \in EccWords
                          /\ rows[ToPhysAddr[p][r][a]] = RowFor(known[a], a, p, r)
RowsFit(rows) == DOMAIN rows = PhysAddr /\ \A i \in PhysAddr : rows[i] \in Row

Written(rows, rows2, known, known2, flagged, a, p, r) ==
  /\ rows2 = [rows EXCEPT ![ToPhysAddr[p][r][a]] = RowFor(flagged, a, p, r)]
  /\ known2 = With(known, a, flagged)

IInv == TypeOK /\ Holds(mem, loaded, port, repeat) /\ Holds(array, stored, port, repeat)

\* Writing one address leaves what is held at the others, since no two share a place.
LEMMA HeldAfterWrite ==
  ASSUME NEW p \in 1 .. Len(Ports), NEW r \in BOOLEAN, NEW a \in Addrs, NEW flagged \in EccWords,
         NEW rows, RowsFit(rows), NEW known, DOMAIN known \subseteq Addrs, Holds(rows, known, p, r),
         NEW rows2, NEW known2, Written(rows, rows2, known, known2, flagged, a, p, r)
  PROVE  RowsFit(rows2) /\ DOMAIN known2 \subseteq Addrs /\ Holds(rows2, known2, p, r)
<1> DEFINE place == ToPhysAddr[p][r]
<1>1. /\ \A b \in Addrs : place[b] \in PhysAddr
      /\ \A b, c \in Addrs : place[b] = place[c] => b = c
  BY Places
<1>2. RowFor(flagged, a, p, r) \in Row
  BY StoredRows
<1> HIDE DEF place
<1>3. /\ DOMAIN rows2 = PhysAddr /\ rows2[place[a]] = RowFor(flagged, a, p, r)
      /\ \A i \in PhysAddr : i # place[a] => rows2[i] = rows[i]
  BY <1>1 DEF RowsFit, place, Written
<1>4. RowsFit(rows2)
  BY <1>2, <1>3 DEF RowsFit
<1>5. /\ DOMAIN known2 = DOMAIN known \cup {a} /\ known2[a] = flagged
      /\ \A b \in DOMAIN known : b # a => known2[b] = known[b]
  BY DEF With, Written
<1>6. ASSUME NEW b \in DOMAIN known2
      PROVE  known2[b] \in EccWords /\ rows2[place[b]] = RowFor(known2[b], b, p, r)
  <2>1. CASE b = a
    BY <1>3, <1>5, <2>1
  <2>2. CASE b # a
    <3>1. b \in DOMAIN known /\ known2[b] = known[b] /\ b \in Addrs
      BY <1>5, <2>2
    <3>2. rows2[place[b]] = rows[place[b]]
      BY <1>1, <1>3, <2>2, <3>1
    <3>3. QED
      BY <3>1, <3>2 DEF Holds, place
  <2>3. QED
    BY <2>1, <2>2
<1>7. QED
  BY <1>4, <1>5, <1>6 DEF Holds, place

\* The type invariant, by parts.
LEMMA TypeParts ==
  TypeOK <=> /\ port \in 1 .. Len(Ports) /\ repeat \in BOOLEAN
             /\ RowsFit(mem) /\ RowsFit(array)
             /\ DOMAIN loaded \subseteq Addrs /\ DOMAIN stored \subseteq Addrs
  BY DEF TypeOK, RowsFit

\* The invariant holds at the start.
LEMMA InitHolds == Init => IInv
<1> SUFFICES ASSUME Init PROVE IInv
  OBVIOUS
<1>1. {} \in Row
  BY DEF Row
<1>2. port \in 1 .. Len(Ports)
  BY PortsFit DEF Init
<1>3. DOMAIN Unknown = {}
  BY DEF Unknown
<1>4. TypeOK
  BY <1>1, <1>2, <1>3 DEF Init, TypeOK
<1>5. Holds(mem, loaded, port, repeat) /\ Holds(array, stored, port, repeat)
  BY <1>3 DEF Init, Holds
<1>6. QED
  BY <1>4, <1>5 DEF IInv

\* Every step keeps it.
LEMMA StepHolds == IInv /\ [Next]_vars => IInv'
<1> SUFFICES ASSUME IInv, [Next]_vars PROVE IInv'
  OBVIOUS
<1>1. /\ port \in 1 .. Len(Ports) /\ repeat \in BOOLEAN
      /\ RowsFit(mem) /\ RowsFit(array)
      /\ DOMAIN loaded \subseteq Addrs /\ DOMAIN stored \subseteq Addrs
      /\ Holds(mem, loaded, port, repeat) /\ Holds(array, stored, port, repeat)
  BY TypeParts DEF IInv
<1>2. ASSUME /\ port' \in 1 .. Len(Ports) /\ repeat' \in BOOLEAN
             /\ RowsFit(mem') /\ RowsFit(array')
             /\ DOMAIN loaded' \subseteq Addrs /\ DOMAIN stored' \subseteq Addrs
             /\ Holds(mem', loaded', port', repeat') /\ Holds(array', stored', port', repeat')
      PROVE  IInv'
  BY <1>2 DEF IInv, TypeOK, RowsFit
<1>3. ASSUME NEW a \in Addrs, NEW flagged \in EccWords, SetMem(a, flagged) PROVE IInv'
  <2>1. /\ Written(mem, mem', loaded, loaded', flagged, a, port, repeat)
        /\ array' = array /\ port' = port /\ repeat' = repeat /\ stored' = stored
    BY <1>1, <1>3, WritesAgree DEF SetMem, Written
  <2>2. RowsFit(mem') /\ DOMAIN loaded' \subseteq Addrs /\ Holds(mem', loaded', port, repeat)
    BY <1>1, <2>1, HeldAfterWrite
  <2>3. QED
    BY <1>1, <1>2, <2>1, <2>2
<1>4. ASSUME NEW a \in Addrs, NEW words \in Words, Write(a, words) PROVE IInv'
  BY <1>3, <1>4, IntegralFits DEF Write
<1>5. ASSUME NEW a \in Addrs, NEW flagged \in Flagged, WriteWithIntegrity(a, flagged) PROVE IInv'
  BY <1>3, <1>5, AreaAssumption DEF WriteWithIntegrity
<1>6. ASSUME NEW a \in Addrs, NEW words \in Words, HwWrite(a, words) PROVE IInv'
  <2> DEFINE flagged == Integral(words)
  <2>1. /\ Written(array, array', stored, stored', flagged, a, port, repeat)
        /\ mem' = mem /\ port' = port /\ repeat' = repeat /\ loaded' = loaded
    <3>1. HwAddr[port][repeat][a] = ToPhysAddr[port][repeat][a]
      BY <1>1, Places
    <3>2. QED
      BY <1>1, <1>6, <3>1, WritesAgree DEF HwWrite, Written
  <2>2. flagged \in EccWords
    BY IntegralFits
  <2> HIDE DEF flagged
  <2>3. RowsFit(array') /\ DOMAIN stored' \subseteq Addrs /\ Holds(array', stored', port, repeat)
    BY <1>1, <2>1, <2>2, HeldAfterWrite
  <2>4. QED
    BY <1>1, <1>2, <2>1, <2>3
<1>7. ASSUME NewKey PROVE IInv'
  <2>1. /\ port' = port + 1 /\ port < Len(Ports) /\ loaded' = Unknown /\ stored' = Unknown
        /\ mem' = mem /\ array' = array /\ repeat' = repeat
    BY <1>7 DEF NewKey
  <2>2. port' \in 1 .. Len(Ports)
    BY <1>1, <2>1, PortsFit
  <2>3. DOMAIN Unknown = {}
    BY DEF Unknown
  <2>4. Holds(mem', loaded', port', repeat') /\ Holds(array', stored', port', repeat')
    BY <2>1, <2>3 DEF Holds
  <2>5. QED
    BY <1>1, <1>2, <2>1, <2>2, <2>3, <2>4
<1>8. CASE UNCHANGED vars
  BY <1>1, <1>2, <1>8 DEF vars
<1>9. QED
  BY <1>4, <1>5, <1>6, <1>7, <1>8 DEF Next

\* So it always holds.
LEMMA AlwaysHolds == Spec => []IInv
<1>1. QED
  BY InitHolds, StepHolds, PTL DEF Spec

\* prim_subst_perm with two rounds moves no two addresses to one row, whatever the nonce: what
\* ScrRam assumes of its address scrambling (ScramblingAssumption).
THEOREM AddressesStayApart ==
  ASSUME NEW p \in 1 .. Len(Ports), NEW r \in BOOLEAN
  PROVE  /\ HwAddr[p][r] \in [Addrs -> PhysAddr]
         /\ \A a, b \in Addrs : HwAddr[p][r][a] = HwAddr[p][r][b] => a = b
<1> DEFINE Moved(a) == AddrInt(Hw!AddrScr(AddrBits(a), AddrWidth, Nonce(p, r), GetNonceWidth(r)))
<1>1. HwAddr[p][r] = [a \in Addrs |-> Moved(a)]
  BY DEF HwAddr
<1> HIDE DEF Moved
<1>2. \A a \in Addrs : HwAddr[p][r][a] \in PhysAddr
  BY Places
<1>3. QED
  BY <1>1, <1>2, Places

\* Rows stay within the width of the memory, keys among those that come to the ports.
THEOREM RowsTyped == Spec => []TypeOK
<1>1. IInv => TypeOK
  BY DEF IInv
<1>2. QED
  BY <1>1, AlwaysHolds, PTL

\* For every key, nonce, width and content of the memory the C++ model of the simulation
\* and the SystemVerilog find the same words, and the same verdict about their check bits.
THEOREM ViewsAlwaysAgree == Spec => []ViewsAgree
<1>1. IInv => ViewsAgree
  <2> SUFFICES ASSUME IInv PROVE ViewsAgree
    OBVIOUS
  <2>1. port \in 1 .. Len(Ports) /\ repeat \in BOOLEAN
    BY DEF IInv, TypeOK
  <2>2. QED
    BY <2>1, ReadsAgree DEF ViewsAgree
<1>2. QED
  BY <1>1, AlwaysHolds, PTL

\* Each side's functions decode the rows the other side made under this key to the words
\* they were made of, with an error just where the simulation stored a word without
\* integrity: descrambling and the check undo what the other side's scrambling and coding
\* did.  Nothing is said of the two sides having an array in common.
THEOREM WrittenAlwaysDecodes == Spec => []WrittenDecodes
<1>1. IInv => WrittenDecodes
  <2> SUFFICES ASSUME IInv PROVE WrittenDecodes
    OBVIOUS
  <2>1. /\ port \in 1 .. Len(Ports) /\ repeat \in BOOLEAN
        /\ DOMAIN loaded \subseteq Addrs /\ DOMAIN stored \subseteq Addrs
        /\ Holds(mem, loaded, port, repeat) /\ Holds(array, stored, port, repeat)
    BY DEF IInv, TypeOK
  <2>2. ASSUME NEW a \in DOMAIN loaded PROVE HwRead(mem, a) = loaded[a]
    BY <2>1, ReadsAgree, StoredRows DEF Holds
  <2>3. ASSUME NEW a \in DOMAIN stored PROVE SwRead(array, a) = stored[a]
    BY <2>1, ReadsAgree, StoredRows DEF Holds
  <2>4. QED
    BY <2>2, <2>3 DEF WrittenDecodes
<1>2. QED
  BY <1>1, AlwaysHolds, PTL
=============================================================================
