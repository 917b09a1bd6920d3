------------------------------- MODULE PrinceRef -------------------------------
(***************************************************************************)
(* The reference implementation of the PRINCE cipher that the scrambling   *)
(* model of the simulation uses, prince_ref.h, with a number of rounds to  *)
(* choose and the new key schedule.                                        *)
(***************************************************************************)
EXTENDS Naturals, Sequences, Bits

RoundConstant == [r \in 0 .. 11 |-> OfHalfWords(
  << <<\h0000, \h0000, \h0000, \h0000>>, <<\h1319, \h8a2e, \h0370, \h7344>>,
     <<\ha409, \h3822, \h299f, \h31d0>>, <<\h082e, \hfa98, \hec4e, \h6c89>>,
     <<\h4528, \h21e6, \h38d0, \h1377>>, <<\hbe54, \h66cf, \h34e9, \h0c6c>>,
     <<\h7ef8, \h4f78, \hfd95, \h5cb1>>, <<\h8584, \h0851, \hf1ac, \h43aa>>,
     <<\hc882, \hd32f, \h2532, \h3c54>>, <<\h64a5, \h1195, \he0e3, \h610d>>,
     <<\hd3b5, \ha399, \hca0c, \h2399>>, <<\hc0ac, \h29b7, \hc97c, \h50dd>> >>[r + 1])]

Alpha == RoundConstant[11]

Sbox == Box(<<11, 15, 3, 2, 10, 12, 9, 1, 6, 7, 8, 0, 14, 5, 13, 4>>)
SboxInv == Box(<<11, 7, 3, 2, 15, 13, 8, 9, 10, 6, 4, 0, 5, 14, 12, 1>>)

SLayer(v) == Substituted(v, 16, Sbox)
SInvLayer(v) == Substituted(v, 16, SboxInv)

\* The two matrices over GF(2), by rows: row j of the small matrix q is bit j,
\* and zero for j = q; the second matrix is the first one rotated.
M0 == [i \in 0 .. 15 |->
  LET Small(k) == {i % 4} \ {((i \div 4) + k) % 4}
  IN At(Small(3), 8) \cup At(Small(2), 4) \cup Small(1) \cup At(Small(0), 12)]
M1 == [i \in 0 .. 15 |-> {(b + 4) % 16 : b \in M0[i]}]

\* The sum of the rows that a chunk of 16 bits selects.
MatMult(chunk, rows) == {b \in 0 .. 15 : Odd({i \in chunk : b \in rows[i]})}

MPrimeLayer(v) ==
  UNION {At(MatMult(Slice(v, 16 * c, 16), IF c \in {0, 3} THEN M0 ELSE M1), 16 * c) :
         c \in 0 .. 3}

\* Row i, counted from the top nibble of each 16 bits, rotates by i nibbles of
\* rows.  For i = 0 the code also shifts by 64, which C leaves undefined; machines
\* give the word or zero, and either way the OR with the other shift is the word.
ShiftRows(v, inverse) ==
  LET Row(b) == 3 - ((b \div 4) % 4)
  IN {(b + 16 * (IF inverse THEN 4 - Row(b) ELSE Row(b))) % 64 : b \in v}

MLayer(v) == ShiftRows(MPrimeLayer(v), FALSE)
MInvLayer(v) == MPrimeLayer(ShiftRows(v, TRUE))

Core(input, k0New, k1, half) ==
  LET RoundKey(n) == IF n % 2 = 1 THEN k0New ELSE k1
      forward[r \in 0 .. half] ==
        IF r = 0 THEN Xor(Xor(input, k1), RoundConstant[0])
        ELSE Xor(Xor(MLayer(SLayer(forward[r - 1])), RoundKey(r)), RoundConstant[r])
      backward[r \in 0 .. half] ==
        IF r = 0 THEN SInvLayer(MPrimeLayer(SLayer(forward[half])))
        ELSE SInvLayer(MInvLayer(Xor(Xor(backward[r - 1], RoundKey(half + r + 1)),
                                     RoundConstant[10 - half + r])))
  IN Xor(Xor(backward[half], k1), RoundConstant[11])

\* The second whitening key: the first one rotated, plus its top bit.
K0Prime(k0) == Xor({(b + 63) % 64 : b \in k0}, {b - 63 : b \in k0 \cap {63}})

EncDec(input, encK0, encK1, decrypt, half) ==
  LET tweak == IF decrypt THEN Alpha ELSE {}
      k0 == IF decrypt THEN K0Prime(encK0) ELSE encK0
      k0Prime == IF decrypt THEN encK0 ELSE K0Prime(encK0)
  IN Xor(Core(Xor(input, k0), Xor(encK0, tweak), Xor(encK1, tweak), half), k0Prime)
=============================================================================
