-------------------------------- MODULE ScrRam --------------------------------
(***************************************************************************)
(* The scrambled single-port RAM of OTBN, prim_ram_1p_scr, with the array  *)
(* it drives and the key port that otbn_scramble_ctrl feeds.               *)
(*                                                                         *)
(* A write is granted one cycle before its data can be scrambled, so it    *)
(* waits in the stage "writeEn" and, when a read takes the port, in a      *)
(* holding register; a read of the same row is answered from the           *)
(* unscrambled copy.  One step is one clock cycle.                         *)
(*                                                                         *)
(* A lane is a group of bits with one mask bit, one diffusion block wide.  *)
(* A scrambled lane is the pair of the address whose keystream hides it    *)
(* and its value; under any other keystream it is Garbage, and so is every *)
(* scrambled lane once the key has changed.                                *)
(***************************************************************************)
EXTENDS Naturals

CONSTANTS
  Depth,    \* words in the RAM
  Lane,     \* groups of bits that share a mask bit
  Val,      \* values of a lane
  Data,     \* words a write may carry
  Masks,    \* sets of lanes a write may touch
  Nonce,    \* nonces the key port may carry
  Phys,     \* the address scrambling, [Nonce -> [Addr -> Addr]]
  Garbage,  \* a lane that does not decode
  Stale,    \* a keystream begun under a key that is gone
  None      \* no response

Addr == 0 .. Depth - 1

ASSUME DepthAssumption == Depth \in Nat \ {0}
ASSUME ScramblingAssumption ==
  /\ Phys \in [Nonce -> [Addr -> Addr]]
  /\ \A n \in Nonce : \A a, b \in Addr : Phys[n][a] = Phys[n][b] => a = b
ASSUME ValuesAssumption ==
  /\ 0 \in Val /\ Data \subseteq [Lane -> Val] /\ Masks \subseteq SUBSET Lane
  /\ Garbage \notin Val /\ Garbage \notin Addr \X Val
  /\ Stale \notin Addr /\ None \notin [Lane -> Val \cup {Garbage}]

Cells == (Addr \X Val) \cup {Garbage}

VARIABLES
  mem, rdataScr,                         \* sram_array: contents, output register
  writeEn, writePending, waddr,          \* write_en_q, write_pending_q, waddr_scr_q
  wmask, wdata, wdataScr,                \* wmask_q (as a set), wdata_q, wdata_scr_q
  rvalid, collision,                     \* rvalid_q, addr_collision_q
  intgErrR, intgErrW,                    \* intg_error_r_q, intg_error_w_q
  middle,                                \* prim_prince: address of the keystream begun
  keyValid, nonce,                       \* from otbn_scramble_ctrl
  locking                                \* intg_error_i in the previous cycle

arrayVars == <<mem, rdataScr>>
writeVars == <<writeEn, writePending, waddr, wmask, wdata, wdataScr, intgErrW>>
readVars == <<rvalid, collision, intgErrR>>
portVars == <<middle, keyValid, nonce, locking>>
vars == <<mem, rdataScr, writeEn, writePending, waddr, wmask, wdata, wdataScr,
          intgErrW, rvalid, collision, intgErrR, middle, keyValid, nonce, locking>>

-----------------------------------------------------------------------------
(* Signals. *)

\* Write data under the keystream begun when the write was granted.
Scrambled == [l \in Lane |-> IF middle = Stale THEN Garbage ELSE <<middle, wdata[l]>>]

\* A stored lane under the keystream of address a.
Decode(a, cell) == IF cell # Garbage /\ cell[1] = a THEN cell[2] ELSE Garbage

Undelivered == writeEn \/ writePending

\* Mutant: no holding register.
ScrDataUnheld == Scrambled

\* The data of the undelivered write: the held copy first.
ScrData == IF writePending THEN wdataScr ELSE Scrambled

\* The array once the undelivered write is in it.
Landed == [mem EXCEPT ![waddr] =
             [l \in Lane |-> IF l \in wmask THEN ScrData[l] ELSE @[l]]]

\* Every scrambled lane becomes unreadable when the key changes.
Under(k, cells) == IF k = "keep" THEN cells ELSE [l \in Lane |-> Garbage]

RvalidO == rvalid /\ ~intgErrR

\* Mutant: a collision forwards the lanes outside the mask, too.
RdataOUnmasked == [l \in Lane |-> IF collision THEN wdata[l]
                                  ELSE Decode(middle, rdataScr[l])]

\* The word for the user: what is undelivered is taken from the plain copy.
RdataO == [l \in Lane |-> IF collision /\ l \in wmask THEN wdata[l]
                          ELSE Decode(middle, rdataScr[l])]

-----------------------------------------------------------------------------
(* Parts of a cycle.  p: physical address of the read, if there is one;    *)
(* e: intg_error_i; k: what the key port does at the end of the cycle.     *)

MacroWrite(readEn) == Undelivered /\ ~readEn /\ ~intgErrW

\* prim_ram_1p_adv and sram_array: one masked write or one read.
Array(readEn, p, e, k) ==
  LET req == ~intgErrW /\ ~e /\ (readEn \/ Undelivered)
      write == MacroWrite(readEn)
      stored == IF req /\ write THEN Landed ELSE mem
      output == IF req /\ ~write THEN mem[p] ELSE rdataScr
  IN /\ mem' = [q \in Addr |-> Under(k, stored[q])]
     /\ rdataScr' = Under(k, output)

\* Mutant: the pending flag is not cleared.
HoldForever(readEn, k) ==
  /\ writePending' = ((writeEn /\ readEn) \/ writePending)
  /\ wdataScr' = Under(k, IF writeEn /\ readEn THEN Scrambled ELSE wdataScr)

\* The holding register takes a write whose turn a read has taken.
Hold(readEn, k) ==
  /\ writePending' = IF MacroWrite(readEn) THEN FALSE
                     ELSE (writeEn /\ readEn) \/ writePending
  /\ wdataScr' = Under(k, IF writeEn /\ readEn THEN Scrambled ELSE wdataScr)

\* The keystream is begun for each granted address.
Keystream(begun, k) == middle' = IF k = "keep" THEN begun ELSE Stale

\* Mutant: a wipe overwrites the nonce, too.
KeyPortSpoilsNonce(k) ==
  \/ k = "keep" /\ UNCHANGED <<keyValid, nonce>>
  \/ k = "wipe" /\ keyValid' = FALSE /\ nonce' = Garbage
  \/ k = "load" /\ ~keyValid /\ keyValid' = TRUE /\ nonce' \in Nonce

\* otbn_scramble_ctrl: a wipe takes the key away and clears valid; a new key
\* and nonce only come to a port that is not valid.
KeyPort(k) ==
  \/ k = "keep" /\ UNCHANGED <<keyValid, nonce>>
  \/ k = "wipe" /\ keyValid' = FALSE /\ UNCHANGED nonce
  \/ k = "load" /\ ~keyValid /\ keyValid' = TRUE /\ nonce' \in Nonce

\* OTBN does not stop locking before reset.
Errors(e) == (locking => e) /\ locking' = e /\ intgErrR' = e

-----------------------------------------------------------------------------
(* One action per kind of cycle. *)

Init ==
  /\ mem = [q \in Addr |-> [l \in Lane |-> Garbage]]
  /\ rdataScr = [l \in Lane |-> Garbage]
  /\ writeEn = FALSE /\ writePending = FALSE /\ waddr = 0
  /\ wmask = {} /\ wdata = [l \in Lane |-> 0]
  /\ wdataScr = [l \in Lane |-> Garbage]
  /\ rvalid = FALSE /\ collision = FALSE /\ intgErrR = FALSE /\ intgErrW = FALSE
  /\ middle = Stale
  /\ keyValid = TRUE /\ nonce \in Nonce /\ locking = FALSE

\* A read is granted; it takes the port.
Read(a, e, k) ==
  LET p == Phys[nonce][a] IN
  /\ keyValid
  /\ Errors(e) /\ KeyPort(k) /\ Array(TRUE, p, e, k) /\ Hold(TRUE, k)
  /\ Keystream(a, k)
  /\ rvalid' = TRUE /\ collision' = (Undelivered /\ p = waddr)
  /\ writeEn' = FALSE
  /\ UNCHANGED <<waddr, wmask, wdata, intgErrW>>

\* A write is granted; an older one is delivered in the same cycle.
Write(a, data, mask, e, k) ==
  /\ keyValid
  /\ Errors(e) /\ KeyPort(k) /\ Array(FALSE, 0, e, k) /\ Hold(FALSE, k)
  /\ Keystream(a, k)
  /\ rvalid' = FALSE /\ collision' = FALSE
  /\ writeEn' = TRUE /\ waddr' = Phys[nonce][a]
  /\ wmask' = mask /\ wdata' = data /\ intgErrW' = e

\* Nothing is granted: no request, or no valid key.
Idle(e, k) ==
  /\ Errors(e) /\ KeyPort(k) /\ Array(FALSE, 0, e, k) /\ Hold(FALSE, k)
  /\ Keystream(middle, k)
  /\ rvalid' = FALSE /\ collision' = FALSE /\ writeEn' = FALSE
  /\ UNCHANGED <<waddr, wmask, wdata, intgErrW>>

KeyMoves == {"keep", "wipe", "load"}

Next == \E e \in BOOLEAN, k \in KeyMoves :
  \/ \E a \in Addr : Read(a, e, k)
  \/ \E a \in Addr, data \in Data, mask \in Masks :
       Write(a, data, mask, e, k)
  \/ Idle(e, k)

Spec == Init /\ [][Next]_vars

-----------------------------------------------------------------------------
(* Properties. *)

\* Types of the registers, the array and the ports of prim_ram_1p_scr.
TypeOK ==
  /\ mem \in [Addr -> [Lane -> Cells]] /\ rdataScr \in [Lane -> Cells]
  /\ writeEn \in BOOLEAN /\ writePending \in BOOLEAN /\ waddr \in Addr
  /\ wmask \in SUBSET Lane /\ wdata \in [Lane -> Val] /\ wdataScr \in [Lane -> Cells]
  /\ rvalid \in BOOLEAN /\ collision \in BOOLEAN
  /\ intgErrR \in BOOLEAN /\ intgErrW \in BOOLEAN
  /\ middle \in Addr \cup {Stale}
  /\ keyValid \in BOOLEAN /\ nonce \in Nonce /\ locking \in BOOLEAN

\* There is one holding register for undelivered writes: a write never enters
\* the stage while another is still held.
NoOverrun == ~locking => ~(writeEn /\ writePending)

\* While the key is valid, an undelivered write is scrambled for the row it
\* will be put in, and its plain copy, from which reads of the row are
\* answered, is what the row will decode to.
UndeliveredReadable ==
  ~locking /\ keyValid /\ Undelivered =>
    \E a \in Addr : /\ Phys[nonce][a] = waddr
                    /\ \A l \in wmask : ScrData[l] = <<a, wdata[l]>>

\* The word each address stands for: the array with the undelivered write in
\* it, each row decoded for the address that scrambles to it.
Store == LET rows == IF Undelivered THEN Landed ELSE mem IN
  [a \in Addr |-> [l \in Lane |-> Decode(a, rows[Phys[nonce][a]][l])]]

Rsp == IF RvalidO THEN RdataO ELSE None

Memory == INSTANCE WordMemory WITH store <- Store, rsp <- Rsp, locked <- locking

\* The RAM behaves as a plain memory that forgets on a new key: whatever is
\* under way, a read returns what the last granted writes left at its address.
ImplementsMemory == Memory!MSpec

\* The inductive invariant.
IInv ==
  /\ TypeOK /\ NoOverrun /\ UndeliveredReadable
  /\ locking => intgErrR
  /\ intgErrW => locking
=============================================================================
