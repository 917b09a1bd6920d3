------------------------------ MODULE ScrDatapath ------------------------------
(***************************************************************************)
(* The combinational part of the scrambled RAM as the hardware has it:     *)
(* prim_subst_perm, prim_prince and prim_cipher_pkg, the scrambling in     *)
(* prim_ram_1p_scr around them, and the code for 39 bits,                  *)
(* prim_secded_inv_39_32_enc and _dec.  Translated from the SystemVerilog, *)
(* independently of ScrambleModel, which says the same in C++.             *)
(***************************************************************************)
EXTENDS Naturals, Sequences, Bits

\* Packed arrays are written with element 15 first.
TopFirst(images) == Box([i \in 1 .. 16 |-> images[17 - i]])
PrinceSbox4 == TopFirst(<<4, 13, 5, 14, 0, 8, 7, 6, 1, 9, 12, 10, 2, 3, 15, 11>>)
PrinceSbox4Inv == TopFirst(<<1, 12, 14, 5, 0, 4, 6, 10, 9, 8, 13, 15, 2, 3, 7, 11>>)
PresentSbox4 == TopFirst(<<2, 1, 7, 4, 8, 15, 14, 3, 13, 10, 0, 9, 11, 6, 5, 12>>)
PresentSbox4Inv == TopFirst(<<10, 9, 7, 0, 3, 6, 4, 11, 13, 2, 1, 12, 8, 15, 14, 5>>)
ShiftRows64 == <<15, 10, 5, 0, 11, 6, 1, 12, 7, 2, 13, 8, 3, 14, 9, 4>>
ShiftRows64Inv == <<15, 2, 5, 8, 11, 14, 1, 4, 7, 10, 13, 0, 3, 6, 9, 12>>
PrinceRoundConst == [r \in 0 .. 11 |-> OfHalfWords(
  << <<\hC0AC, \h29B7, \hC97C, \h50DD>>, <<\hD3B5, \hA399, \hCA0C, \h2399>>,
     <<\h64A5, \h1195, \hE0E3, \h610D>>, <<\hC882, \hD32F, \h2532, \h3C54>>,
     <<\h8584, \h0851, \hF1AC, \h43AA>>, <<\h7EF8, \h4F78, \hFD95, \h5CB1>>,
     <<\hBE54, \h66CF, \h34E9, \h0C6C>>, <<\h4528, \h21E6, \h38D0, \h1377>>,
     <<\h082E, \hFA98, \hEC4E, \h6C89>>, <<\hA409, \h3822, \h299F, \h31D0>>,
     <<\h1319, \h8A2E, \h0370, \h7344>>, <<\h0000, \h0000, \h0000, \h0000>> >>[12 - r])]
ShiftRowsConst == <<\h7BDE, \hBDE7, \hDE7B, \hE7BD>>

-----------------------------------------------------------------------------
(* prim_subst_perm *)

\* All even positions first, then all odd ones; the last of an odd width stays.
Grouped(width) == [b \in 0 .. width - 1 |->
  LET half == width \div 2
  IN IF b < half THEN 2 * b ELSE IF b < 2 * half THEN 2 * (b - half) + 1 ELSE b]

Flipped(v, width) == {b \in 0 .. width - 1 : width - 1 - b \in v}

SboxNibbles(v, width, box) ==
  LET n == width \div 4 IN Substituted(v, n, box) \cup (v \ (0 .. 4 * n - 1))

SubstPerm(data, key, width, rounds, decrypt) ==
  LET from == Grouped(width)
      EncRound(v) ==
        LET flipped == Flipped(SboxNibbles(v, width, PresentSbox4), width)
        IN {b \in 0 .. width - 1 : from[b] \in flipped}
      DecRound(v) == SboxNibbles(Flipped({from[b] : b \in v}, width), width, PresentSbox4Inv)
      state[r \in 0 .. rounds] ==
        IF r = 0 THEN data
        ELSE LET v == Xor(state[r - 1], key) IN IF decrypt THEN DecRound(v) ELSE EncRound(v)
  IN Xor(state[rounds], key)

-----------------------------------------------------------------------------
(* prim_prince, encrypting, with the new key schedule *)

Nibble(v, n) == Slice(v, 4 * n, 4)

PrinceShiftrows(v, shifts) ==
  UNION {At(Nibble(v, shifts[16 - n]), 4 * n) : n \in 0 .. 15}

\* Nibble j of chunk c is the sum of the chunk's nibbles under a mask.
PrinceMultPrime(v) ==
  LET Mask(c, j) == OfNumber(ShiftRowsConst[1 + (IF c \in {0, 3} THEN 3 - j ELSE (4 - j) % 4)], 16)
      Red16(w) == {b \in 0 .. 3 : Odd({d \in w : d % 4 = b})}
  IN UNION {At(Red16(Slice(v, 16 * c, 16) \cap Mask(c, j)), 16 * c + 4 * j) :
            c \in 0 .. 3, j \in 0 .. 3}

Prince(data, key, half) ==
  LET k0 == Slice(key, 64, 64)
      k1 == Slice(key, 0, 64)
      k0Prime == {b - 1 : b \in k0 \cap (2 .. 63)} \cup {63 + b : b \in k0 \cap {0}}
                 \cup (IF Odd(k0 \cap {1, 63}) THEN {0} ELSE {})
      RoundKey(n) == IF n % 2 = 1 THEN k0 ELSE k1
      Sbox(v, box) == Substituted(v, 16, box)
      lo[k \in 0 .. half] ==
        IF k = 0 THEN Xor(Xor(Xor(data, k0), k1), PrinceRoundConst[0])
        ELSE Xor(Xor(PrinceShiftrows(PrinceMultPrime(Sbox(lo[k - 1], PrinceSbox4)),
                                     ShiftRows64),
                     PrinceRoundConst[k]), RoundKey(k))
      middle == Sbox(lo[half], PrinceSbox4)
      hi[k \in 0 .. half] ==
        IF k = 0 THEN Sbox(PrinceMultPrime(middle), PrinceSbox4Inv)
        ELSE Sbox(PrinceMultPrime(PrinceShiftrows(
                    Xor(Xor(hi[k - 1], RoundKey(half + k + 1)), PrinceRoundConst[10 - half + k]),
                    ShiftRows64Inv)), PrinceSbox4Inv)
  IN Xor(Xor(Xor(hi[half], PrinceRoundConst[11]), k1), k0Prime)

-----------------------------------------------------------------------------
(* prim_ram_1p_scr: two rounds everywhere, OTBN's width of a diffusion block. *)

DiffWidth == 39
Slices(width) == 0 .. (width + DiffWidth - 1) \div DiffWidth - 1
LocalWidth(width, k) == IF width - k * DiffWidth >= DiffWidth THEN DiffWidth
                        ELSE width - k * DiffWidth

AddrScr(addr, addrWidth, nonce, nonceWidth) ==
  SubstPerm(addr, Slice(nonce, nonceWidth - addrWidth, addrWidth), addrWidth, 2, FALSE)

Keystream(addr, addrWidth, nonce, key, width, replicate) ==
  LET dataNonceWidth == 64 - addrWidth
      DataScrNonce(k) == Slice(nonce, k * dataNonceWidth, dataNonceWidth)
      Out(k) == Prince(addr \cup At(DataScrNonce(k), addrWidth), key, 2)
      n == (width + 63) \div 64
      out0 == Out(0)
      whole == IF replicate THEN UNION {At(out0, 64 * k) : k \in 0 .. n - 1}
               ELSE UNION {At(Out(k), 64 * k) : k \in 0 .. n - 1}
  IN {b \in whole : b < width}

WdataScr(wdata, keystream, width) ==
  LET xored == Xor(wdata, keystream)
  IN UNION {LET w == LocalWidth(width, k)
            IN At(SubstPerm(Slice(xored, k * DiffWidth, w), {}, w, 2, FALSE), k * DiffWidth) :
            k \in Slices(width)}

Rdata(rdataScr, keystream, width) ==
  Xor(UNION {LET w == LocalWidth(width, k)
             IN At(SubstPerm(Slice(rdataScr, k * DiffWidth, w), {}, w, 2, TRUE), k * DiffWidth) :
             k \in Slices(width)}, keystream)

-----------------------------------------------------------------------------
(* prim_secded_inv_39_32 *)

ParityMask == [i \in 0 .. 6 |-> OfHalfWords(
  << <<\h2606, \hBD25>>, <<\hDEBA, \h8050>>, <<\h413D, \h89AA>>, <<\h3123, \h4ED1>>,
     <<\hC2C1, \h323B>>, <<\h2DCC, \h624C>>, <<\h9850, \h5586>> >>[i + 1])]
Inverted == OfHalfWords(<<\h002A, \h0000, \h0000>>)

SecdedEnc(data) == Xor(data \cup {32 + i : i \in {j \in 0 .. 6 : Odd(data \cap ParityMask[j])}},
                       Inverted)

\* Neither err_o[0] nor err_o[1].
SecdedGood(word) ==
  LET syndrome == {i \in 0 .. 6 : Odd(Xor(word, Inverted) \cap (ParityMask[i] \cup {32 + i}))}
  IN ~Odd(syndrome) /\ syndrome = {}
=============================================================================
