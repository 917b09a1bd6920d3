-------------------------------- MODULE Secded --------------------------------
(***************************************************************************)
(* The codes that correct one wrong bit and detect two: the encoders of    *)
(* secded_enc.c against the decoders prim_secded_*_dec.  A code has a mask *)
(* for each check bit, which the encoders use, and a syndrome for each bit *)
(* of the data, which the decoders use; the two are written down           *)
(* separately in the code.  The "inv" variant inverts every second check   *)
(* bit.                                                                    *)
(***************************************************************************)
EXTENDS Naturals, Sequences, Bits

Masks22 == <<<<\h496E>>, <<\hF20B>>, <<\h8ED8>>, <<\h7714>>, <<\hACA5>>, <<\h11F3>>>>
Masks28 == <<<<\h0030, \h03FF>>, <<\h0010, \hFC0F>>, <<\h0027, \h1C71>>, <<\h003B, \h6592>>,
             <<\h003D, \hAAA4>>, <<\h003E, \hD348>>>>
Masks39 == <<<<\h2606, \hBD25>>, <<\hDEBA, \h8050>>, <<\h413D, \h89AA>>, <<\h3123, \h4ED1>>,
             <<\hC2C1, \h323B>>, <<\h2DCC, \h624C>>, <<\h9850, \h5586>>>>
Masks64 == <<<<\h0103, \hFFF8, \h0000, \h7FFF>>, <<\h017C, \h1FF8, \h01FF, \h801F>>,
             <<\h01BD, \hE1F8, \h7E07, \h81E1>>, <<\h01DE, \hEE3B, \h8E38, \h8E22>>,
             <<\h01EF, \h76CD, \hB2C9, \h3244>>, <<\h01F7, \hBB56, \hD552, \h5488>>,
             <<\h01FB, \hDDA7, \h69A4, \h6910>>>>
Masks72 == <<<<\hB900, \h0000, \h001F, \hFFFF>>, <<\h5E00, \h000F, \hFFE0, \h003F>>,
             <<\h6700, \h3FF0, \h03E0, \h07C1>>, <<\hCD0F, \hC0F0, \h3C20, \h7842>>,
             <<\hB671, \hC711, \hC443, \h8884>>, <<\hB5B6, \h5926, \h488C, \h9108>>,
             <<\hCBDA, \hAA4A, \h9115, \h2210>>, <<\h7AED, \h348D, \h221A, \h4420>>>>

Syndromes22 == <<50, 35, 25, 7, 44, 49, 37, 52, 41, 14, 28, 21, 42, 26, 11, 22>>
Syndromes28 == <<7, 11, 19, 35, 13, 21, 37, 25, 41, 49, 14, 22, 38, 26, 42, 50, 28, 44, 52, 56,
                 59, 61>>
Syndromes39 == <<25, 84, 97, 52, 26, 21, 42, 76, 69, 56, 73, 13, 81, 49, 104, 7, 28, 11, 37, 38,
                 70, 14, 112, 50, 44, 19, 35, 98, 74, 41, 22, 82>>
Syndromes64 == <<7, 11, 19, 35, 67, 13, 21, 37, 69, 25, 41, 73, 49, 81, 97, 14, 22, 38, 70, 26,
                 42, 74, 50, 82, 98, 28, 44, 76, 52, 84, 100, 56, 88, 104, 112, 31, 47, 79, 55,
                 87, 103, 59, 91, 107, 115, 61, 93, 109, 117, 121, 62, 94, 110, 118, 122, 124,
                 127>>
Syndromes72 == <<7, 11, 19, 35, 67, 131, 13, 21, 37, 69, 133, 25, 41, 73, 137, 49, 81, 145, 97,
                 161, 193, 14, 22, 38, 70, 134, 26, 42, 74, 138, 50, 82, 146, 98, 162, 194, 28,
                 44, 76, 140, 52, 84, 148, 100, 164, 196, 56, 88, 152, 104, 168, 200, 112, 176,
                 208, 224, 109, 214, 62, 203, 179, 181, 206, 121>>

\* n bits in all, k of them data.
Code(n, k, masks, syndromes) ==
  [n |-> n, k |-> k, mask |-> [i \in 0 .. n - k - 1 |-> OfHalfWords(masks[i + 1])],
   syndrome |-> [b \in 0 .. k - 1 |-> OfNumber(syndromes[b + 1], n - k)]]

Code39 == Code(39, 32, Masks39, Syndromes39)

Codes == {Code(22, 16, Masks22, Syndromes22), Code(28, 22, Masks28, Syndromes28), Code39,
          Code(64, 57, Masks64, Syndromes64), Code(72, 64, Masks72, Syndromes72)}

\* calc_parity
CalcParity(word, invert) == Odd(word) # invert

\* enc_secded_* and enc_secded_inv_*: the check bits of a word.
EncSecded(code, inv, word) ==
  {i \in DOMAIN code.mask : CalcParity(word \cap code.mask[i], inv /\ i % 2 = 1)}

\* prim_secded_*_dec and prim_secded_inv_*_dec: a wrong bit gives its syndrome.
Decoded(code, inv, received) ==
  LET inverted == {code.k + i : i \in {j \in DOMAIN code.mask : inv /\ j % 2 = 1}}
      upright == Xor(received, inverted)
      syndrome == {i \in DOMAIN code.mask : Odd(upright \cap (code.mask[i] \cup {code.k + i}))}
  IN [data |-> Xor(received \cap (0 .. code.k - 1),
                   {b \in DOMAIN code.syndrome : syndrome = code.syndrome[b]}),
      err |-> IF Odd(syndrome) THEN "single" ELSE IF syndrome # {} THEN "double" ELSE "none"]

\* Whatever C encodes, the hardware decodes: unchanged, also with one bit wrong, and with
\* two bits wrong it says so.  The codes are linear, so that few words will do.
ASSUME DecodersFit ==
  \A code \in Codes, inv \in BOOLEAN, word \in {{}, {0, 5, 6, 15}} :
    LET sent == word \cup At(EncSecded(code, inv, word), code.k)
        bits == 0 .. code.n - 1
    IN /\ Decoded(code, inv, sent) = [data |-> word, err |-> "none"]
       /\ \A b \in bits : Decoded(code, inv, Xor(sent, {b})) = [data |-> word, err |-> "single"]
       /\ \A b \in bits : \A c \in 0 .. b - 1 :
            Decoded(code, inv, Xor(sent, {b, c})).err = "double"
=============================================================================
