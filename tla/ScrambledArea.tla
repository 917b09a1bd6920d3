----------------------------- MODULE ScrambledArea -----------------------------
(***************************************************************************)
(* A scrambled memory seen from both sides: the simulation, which packs,   *)
(* protects and scrambles words in C++ (Ecc32MemArea and                   *)
(* ScrambledEcc32MemArea) and stores rows through simutil_set_mem, and     *)
(* the hardware, which does the same in prim_secded_inv_39_32 and          *)
(* prim_ram_1p_scr.  One action is one whole write of either side.         *)
(* The two write different arrays of prim_generic_ram_1p: simutil_set_mem  *)
(* writes `mem`, which in this repository no hardware reads.  So nothing   *)
(* here says that data passes from one side to the other; what is compared *)
(* is how the two encode a row and how they decode one.                    *)
(* A word is a set of bits; what a side reads at an address is, for each   *)
(* of the Width32 words there, the word and whether its check bits fit.    *)
(***************************************************************************)
EXTENDS Naturals, Sequences, Bits, Secded
Sw == INSTANCE ScrambleModel
Hw == INSTANCE ScrDatapath

CONSTANTS Width32,     \* 32-bit words in a row of the memory
          AddrWidth,   \* bits of an address
          Ports,       \* the keys and nonces that are at the ports one after another
          Addrs,       \* the addresses that are accessed
          Words,       \* what Write and the hardware store: functions from Lane
          Flagged      \* what WriteWithIntegrity stores: [good, word] for each lane

Lane == 0 .. Width32 - 1
GetPhysWidth == 39 * Width32
GetPrinceReplications(r) == IF r THEN 1 ELSE (GetPhysWidth + 63) \div 64
GetNonceWidth(r) == 64 * GetPrinceReplications(r)
Word == SUBSET (0 .. 31)
EccWords == [Lane -> [good : BOOLEAN, word : Word]]

ASSUME AreaAssumption ==
  /\ Width32 \in 1 .. 8 /\ AddrWidth \in 1 .. 32
  /\ Addrs \subseteq 0 .. 2^AddrWidth - 1
  /\ Ports \in Seq([key : SUBSET (0 .. 127), nonce : SUBSET (0 .. 319)]) /\ Ports # <<>>
  /\ Words \subseteq [Lane -> Word]
  /\ Flagged \subseteq EccWords

VARIABLES mem,      \* `mem` of prim_generic_ram_1p, which the simulation reads and writes
          array,    \* the rows of sram_array_*, which the hardware reads and writes
          port,     \* which of Ports the key and nonce ports carry
          repeat,   \* one block of keystream for the whole row, or one for every 64 bits
          loaded,   \* history: what the simulation wrote under this key, by address
          stored    \* history: what the hardware wrote under this key
vars == <<mem, array, port, repeat, loaded, stored>>

Row == SUBSET (0 .. GetPhysWidth - 1)
PhysAddr == 0 .. 2^AddrWidth - 1
Unknown == [a \in {} |-> {}]
With(known, a, flagged) == [b \in DOMAIN known \cup {a} |-> IF b = a THEN flagged ELSE known[b]]
Integral(words) == [i \in Lane |-> [good |-> TRUE, word |-> words[i]]]
AddrBits(a) == OfNumber(a, AddrWidth)
AddrInt(v) == CHOOSE n \in PhysAddr : AddrBits(n) = v
Nonce(p, r) == Slice(Ports[p].nonce, 0, GetNonceWidth(r))

-----------------------------------------------------------------------------
(* The simulation *)

\* Mutant: plain parity, not the inverted code.
CheckBitsPlain(word) == EncSecded(Code39, FALSE, word)
CheckBits(word) == EncSecded(Code39, TRUE, word)

\* Up to 8 bits go to at most two bytes of the buffer, whose place is zero.
RoomInByte(idx, count) == LET room == 8 - (idx % 8) IN IF room < count THEN room ELSE count
Inserted(buf, idx, bits, count) ==
  LET n == RoomInByte(idx, count)
  IN buf \cup At(Slice(bits, 0, n), idx) \cup At(Slice(bits, n, count - n), idx + n)
Extracted(buf, idx, count) ==
  LET n == RoomInByte(idx, count)
  IN Slice(buf, idx, n) \cup At(Slice(buf, idx + n, count - n), n)

InsertedWord(buf, idx, word, check) ==
  LET bytes[i \in 0 .. 4] ==
        IF i = 0 THEN buf ELSE Inserted(bytes[i - 1], idx + 8 * (i - 1), Slice(word, 8 * (i - 1), 8), 8)
  IN Inserted(bytes[4], idx + 32, check, 7)

\* The check bits of a word that shall not be good are inverted.
Packed(flagged) ==
  LET Check(f) == IF f.good THEN CheckBits(f.word) ELSE Xor(CheckBits(f.word), 0 .. 6)
      upto[i \in 0 .. Width32] ==
        IF i = 0 THEN {}
        ELSE InsertedWord(upto[i - 1], 39 * (i - 1), flagged[i - 1].word, Check(flagged[i - 1]))
  IN upto[Width32]

Unpacked(buf) ==
  [i \in Lane |->
     LET word == UNION {At(Extracted(buf, 39 * i + 8 * j, 8), 8 * j) : j \in 0 .. 3}
     IN [good |-> Extracted(buf, 39 * i + 32, 7) = CheckBits(word), word |-> word]]

SwStream == [p \in 1 .. Len(Ports) |-> [r \in BOOLEAN |-> [a \in Addrs |->
  Sw!GenKeystream(AddrBits(a), AddrWidth, Nonce(p, r), Ports[p].key, GetPhysWidth, r)]]]
ToPhysAddr == [p \in 1 .. Len(Ports) |-> [r \in BOOLEAN |-> [a \in Addrs |->
  AddrInt(Sw!ScrambleAddr(AddrBits(a), AddrWidth, Nonce(p, r), GetNonceWidth(r)))]]]

SwStored(flagged, a) ==
  Sw!EncryptData(Packed(flagged), GetPhysWidth, 39, SwStream[port][repeat][a])

\* What Read and ReadWithIntegrity return of rows.
SwRead(rows, a) ==
  Unpacked(Sw!DecryptData(rows[ToPhysAddr[port][repeat][a]], GetPhysWidth, 39,
                          SwStream[port][repeat][a]))

SetMem(a, flagged) ==
  /\ mem' = [mem EXCEPT ![ToPhysAddr[port][repeat][a]] = SwStored(flagged, a)]
  /\ loaded' = With(loaded, a, flagged)
  /\ UNCHANGED <<array, port, repeat, stored>>

Write(a, words) == SetMem(a, Integral(words))
WriteWithIntegrity(a, flagged) == SetMem(a, flagged)

-----------------------------------------------------------------------------
(* The hardware *)

HwStream == [p \in 1 .. Len(Ports) |-> [r \in BOOLEAN |-> [a \in Addrs |->
  Hw!Keystream(AddrBits(a), AddrWidth, Nonce(p, r), Ports[p].key, GetPhysWidth, r)]]]
HwAddr == [p \in 1 .. Len(Ports) |-> [r \in BOOLEAN |-> [a \in Addrs |->
  AddrInt(Hw!AddrScr(AddrBits(a), AddrWidth, Nonce(p, r), GetNonceWidth(r)))]]]

HwRead(rows, a) ==
  LET rdata == Hw!Rdata(rows[HwAddr[port][repeat][a]], HwStream[port][repeat][a], GetPhysWidth)
  IN [i \in Lane |-> LET code == Slice(rdata, 39 * i, 39)
                     IN [good |-> Hw!SecdedGood(code), word |-> code \cap (0 .. 31)]]

HwWrite(a, words) ==
  LET wdata == UNION {At(Hw!SecdedEnc(words[i]), 39 * i) : i \in Lane}
  IN /\ array' = [array EXCEPT ![HwAddr[port][repeat][a]] =
                    Hw!WdataScr(wdata, HwStream[port][repeat][a], GetPhysWidth)]
     /\ stored' = With(stored, a, Integral(words))
     /\ UNCHANGED <<mem, port, repeat, loaded>>

NewKey ==
  /\ port < Len(Ports)
  /\ port' = port + 1
  /\ loaded' = Unknown /\ stored' = Unknown
  /\ UNCHANGED <<mem, array, repeat>>

-----------------------------------------------------------------------------
Init ==
  /\ mem = [i \in PhysAddr |-> {}]
  /\ array = [i \in PhysAddr |-> {}]
  /\ port = 1
  /\ repeat \in BOOLEAN
  /\ loaded = Unknown /\ stored = Unknown

Next ==
  \/ \E a \in Addrs, words \in Words : Write(a, words)
  \/ \E a \in Addrs, flagged \in Flagged : WriteWithIntegrity(a, flagged)
  \/ \E a \in Addrs, words \in Words : HwWrite(a, words)
  \/ NewKey

Spec == Init /\ [][Next]_vars

-----------------------------------------------------------------------------
\* Rows fit the width of the memory.
TypeOK ==
  /\ port \in 1 .. Len(Ports) /\ repeat \in BOOLEAN
  /\ DOMAIN mem = PhysAddr /\ DOMAIN array = PhysAddr
  /\ \A i \in PhysAddr : mem[i] \in Row /\ array[i] \in Row
  /\ DOMAIN loaded \subseteq Addrs /\ DOMAIN stored \subseteq Addrs

\* Whatever rows hold, after whichever writes and key changes, the simulation's
\* functions and the hardware's decode them to the same words and the same verdict about
\* their check bits: the two translations of scrambling, packing and coding agree.
ViewsAgree ==
  \A a \in Addrs : SwRead(mem, a) = HwRead(mem, a) /\ SwRead(array, a) = HwRead(array, a)

\* A row that one side made would be decoded by the other side to just the words it was
\* made of, for the address it was made for, however many writes to other addresses
\* followed, with an error for each word that was stored without integrity and for no
\* other.  It is about the two sides' functions, applied to each other's rows: the arrays
\* stay apart, and neither side ever reads the other's.
WrittenDecodes ==
  /\ \A a \in DOMAIN loaded : HwRead(mem, a) = loaded[a]
  /\ \A a \in DOMAIN stored : SwRead(array, a) = stored[a]
=============================================================================
