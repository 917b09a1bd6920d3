----------------------------- MODULE ScrambleModel -----------------------------
(***************************************************************************)
(* What the simulation knows of memory scrambling, scramble_model.cc: the  *)
(* substitution and permutation network, the keystream, and the scrambling *)
(* of addresses and data.                                                  *)
(***************************************************************************)
EXTENDS PrinceRef

PresentSbox4 == Box(<<12, 5, 6, 11, 9, 0, 10, 13, 3, 14, 15, 8, 4, 7, 1, 2>>)
PresentSbox4Inv == Box(<<5, 14, 15, 8, 12, 1, 2, 13, 11, 4, 6, 3, 0, 7, 9, 10>>)
NumAddrSubstPermRounds == 2
NumDataSubstPermRounds == 2
NumPrinceHalfRounds == 2

\* Bits that fill no nibble are copied.
SboxLayer(v, width, box) ==
  Substituted(v, width \div 4, box) \cup {b \in v : b \div 4 = width \div 4}

FlipLayer(v, width) == {width - 1 - b : b \in v}

\* Even bits go to the lower half, odd bits to the upper; of an odd width the
\* last bit stays.
PermLayer(v, width, invert) ==
  LET half == width \div 2
      Forth(b) == IF b = 2 * half THEN b ELSE (b \div 2) + (b % 2) * half
      Back(b) == IF b = 2 * half THEN b ELSE IF b < half THEN 2 * b ELSE 2 * (b - half) + 1
  IN {IF invert THEN Back(b) ELSE Forth(b) : b \in v}

SubstPermEnc(v, key, width, rounds) ==
  LET state[r \in 0 .. rounds] ==
        IF r = 0 THEN v
        ELSE PermLayer(FlipLayer(SboxLayer(Xor(state[r - 1], key), width, PresentSbox4),
                                 width), width, FALSE)
  IN Xor(state[rounds], key)

SubstPermDec(v, key, width, rounds) ==
  LET state[r \in 0 .. rounds] ==
        IF r = 0 THEN v
        ELSE SboxLayer(FlipLayer(PermLayer(Xor(state[r - 1], key), width, TRUE), width),
                       width, PresentSbox4Inv)
  IN Xor(state[rounds], key)

\* Mutant: the two keys of the cipher are swapped.
GenKeystreamUnreversed(addr, addrWidth, nonce, key, width, repeat) ==
  LET Iv(i) == addr \cup At(Slice(nonce, i * (64 - addrWidth), 64 - addrWidth), addrWidth)
      Block(i) == EncDec(Iv(i), Slice(key, 0, 64), Slice(key, 64, 64), FALSE,
                         NumPrinceHalfRounds)
      first == Block(0)
      blocks == 0 .. (width + 63) \div 64 - 1
  IN {b \in UNION {At(IF repeat THEN first ELSE Block(i), 64 * i) : i \in blocks} : b < width}

\* Either one block of PRINCE is repeated, or block i has nonce bits of its own.
\* The byte reversals around the cipher make key bits 64 .. 127 its first key.
GenKeystream(addr, addrWidth, nonce, key, width, repeat) ==
  LET Iv(i) == addr \cup At(Slice(nonce, i * (64 - addrWidth), 64 - addrWidth), addrWidth)
      Block(i) == EncDec(Iv(i), Slice(key, 64, 64), Slice(key, 0, 64), FALSE,
                         NumPrinceHalfRounds)
      first == Block(0)
      blocks == 0 .. (width + 63) \div 64 - 1
  IN {b \in UNION {At(IF repeat THEN first ELSE Block(i), 64 * i) : i \in blocks} : b < width}

\* Mutant: chunks are put back at the next byte.
SubstPermFullWidthOnBytes(v, width, spWidth, enc) ==
  LET Chunk(i) ==
        LET lo == i * spWidth
            n == IF lo + spWidth <= width THEN spWidth ELSE width - lo
        IN At(IF enc THEN SubstPermEnc(Slice(v, lo, n), {}, n, NumDataSubstPermRounds)
                     ELSE SubstPermDec(Slice(v, lo, n), {}, n, NumDataSubstPermRounds),
              8 * ((spWidth + 7) \div 8) * i)
  IN UNION {Chunk(i) : i \in 0 .. (width + spWidth - 1) \div spWidth - 1}

\* Chunks of spWidth bits, each scrambled for itself; the last may be smaller.
SubstPermFullWidth(v, width, spWidth, enc) ==
  LET Chunk(i) ==
        LET lo == i * spWidth
            n == IF lo + spWidth <= width THEN spWidth ELSE width - lo
        IN At(IF enc THEN SubstPermEnc(Slice(v, lo, n), {}, n, NumDataSubstPermRounds)
                     ELSE SubstPermDec(Slice(v, lo, n), {}, n, NumDataSubstPermRounds), lo)
  IN UNION {Chunk(i) : i \in 0 .. (width + spWidth - 1) \div spWidth - 1}

\* The top bits of the nonce are the key.
ScrambleAddr(addr, addrWidth, nonce, nonceWidth) ==
  SubstPermEnc(addr, Slice(nonce, nonceWidth - addrWidth, addrWidth), addrWidth,
               NumAddrSubstPermRounds)

EncryptData(v, width, spWidth, keystream) ==
  SubstPermFullWidth(Xor(v, keystream), width, spWidth, TRUE)

DecryptData(v, width, spWidth, keystream) ==
  Xor(SubstPermFullWidth(v, width, spWidth, FALSE), keystream)
=============================================================================
