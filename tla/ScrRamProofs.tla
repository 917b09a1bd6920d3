---------------------------- MODULE ScrRamProofs ----------------------------
(***************************************************************************)
(* The scrambled RAM implements the plain memory of WordMemory, for every  *)
(* depth, set of lanes, values and nonces and every injective scrambling   *)
(* of the addresses.                                                       *)
(***************************************************************************)
EXTENDS ScrRam, TLAPS

-----------------------------------------------------------------------------
(* Types of the signals. *)

\* The signals a cycle is computed from have the types of the registers.
LEMMA SignalTypes ==
  ASSUME TypeOK
  PROVE  /\ Scrambled \in [Lane -> Cells]
         /\ ScrData \in [Lane -> Cells]
         /\ Landed \in [Addr -> [Lane -> Cells]]
<1>1. Scrambled \in [Lane -> Cells]
  BY DEF TypeOK, Scrambled, Cells
<1>2. ScrData \in [Lane -> Cells]
  BY <1>1 DEF TypeOK, ScrData
<1>3. Landed \in [Addr -> [Lane -> Cells]]
  <2>1. [l \in Lane |-> IF l \in wmask THEN ScrData[l] ELSE mem[waddr][l]]
          \in [Lane -> Cells]
    BY <1>2 DEF TypeOK
  <2>2. QED
    BY <2>1 DEF TypeOK, Landed
<1>4. QED
  BY <1>1, <1>2, <1>3

\* A key change keeps the type of a word.
LEMMA UnderType ==
  ASSUME NEW k, NEW cells \in [Lane -> Cells]
  PROVE  Under(k, cells) \in [Lane -> Cells]
BY DEF Under, Cells

\* What a stored lane decodes to.
LEMMA DecodeType ==
  ASSUME NEW a, NEW cell \in Cells
  PROVE  Decode(a, cell) \in Val \cup {Garbage}
BY DEF Decode, Cells

\* Lanes decode under the keystream they were scrambled with.
LEMMA DecodeOwn ==
  ASSUME NEW a \in Addr, NEW v \in Val
  PROVE  Decode(a, <<a, v>>) = v
BY ValuesAssumption DEF Decode

\* The array keeps its type through a cycle.
LEMMA ArrayType ==
  ASSUME TypeOK, NEW r \in BOOLEAN, NEW p \in Addr, NEW e, NEW k, Array(r, p, e, k)
  PROVE  mem' \in [Addr -> [Lane -> Cells]] /\ rdataScr' \in [Lane -> Cells]
<1> DEFINE req == ~intgErrW /\ ~e /\ (r \/ Undelivered)
           stored == IF req /\ MacroWrite(r) THEN Landed ELSE mem
           output == IF req /\ ~MacroWrite(r) THEN mem[p] ELSE rdataScr
<1>1. stored \in [Addr -> [Lane -> Cells]] /\ output \in [Lane -> Cells]
  BY SignalTypes DEF TypeOK
<1>2. mem' = [q \in Addr |-> Under(k, stored[q])] /\ rdataScr' = Under(k, output)
  BY DEF Array
<1>3. \A q \in Addr : Under(k, stored[q]) \in [Lane -> Cells]
  BY <1>1, UnderType
<1>4. Under(k, output) \in [Lane -> Cells]
  BY <1>1, UnderType
<1> HIDE DEF stored, output
<1>5. QED
  BY <1>2, <1>3, <1>4

\* The holding register keeps its type through a cycle.
LEMMA HoldType ==
  ASSUME TypeOK, NEW r \in BOOLEAN, NEW k, Hold(r, k)
  PROVE  writePending' \in BOOLEAN /\ wdataScr' \in [Lane -> Cells]
<1>1. writePending' \in BOOLEAN
  BY DEF TypeOK, Hold
<1>2. (IF writeEn /\ r THEN Scrambled ELSE wdataScr) \in [Lane -> Cells]
  BY SignalTypes DEF TypeOK
<1>3. QED
  BY <1>1, <1>2, UnderType DEF Hold

\* The key port keeps its type through a cycle.
LEMMA KeyType ==
  ASSUME TypeOK, NEW k, KeyPort(k)
  PROVE  keyValid' \in BOOLEAN /\ nonce' \in Nonce
BY DEF TypeOK, KeyPort

\* Addresses: 0 is one, and scrambling an address gives an address.
LEMMA Addresses ==
  /\ 0 \in Addr
  /\ \A n \in Nonce, a \in Addr : Phys[n][a] \in Addr
BY DepthAssumption, ScramblingAssumption DEF Addr

\* Every cycle keeps the types.
LEMMA TypeStep == TypeOK /\ [Next]_vars => TypeOK'
<1> SUFFICES ASSUME TypeOK, [Next]_vars PROVE TypeOK'
  OBVIOUS
<1> USE DEF Errors
<1>1. ASSUME NEW e \in BOOLEAN, NEW k \in KeyMoves, NEW a \in Addr, Read(a, e, k)
      PROVE  TypeOK'
  <2>1. Phys[nonce][a] \in Addr
    BY Addresses DEF TypeOK
  <2>2. /\ mem' \in [Addr -> [Lane -> Cells]] /\ rdataScr' \in [Lane -> Cells]
        /\ writePending' \in BOOLEAN /\ wdataScr' \in [Lane -> Cells]
        /\ keyValid' \in BOOLEAN /\ nonce' \in Nonce
    BY <1>1, <2>1, ArrayType, HoldType, KeyType DEF Read
  <2>3. middle' \in Addr \cup {Stale}
    BY <1>1 DEF Read, Keystream
  <2>4. collision' \in BOOLEAN
    BY <1>1 DEF Read
  <2>5. QED
    BY <1>1, <2>2, <2>3, <2>4 DEF Read, TypeOK
<1>2. ASSUME NEW e \in BOOLEAN, NEW k \in KeyMoves, NEW a \in Addr,
             NEW data \in Data, NEW mask \in Masks, Write(a, data, mask, e, k)
      PROVE  TypeOK'
  <2>1. Phys[nonce][a] \in Addr
    BY Addresses DEF TypeOK
  <2>2. /\ mem' \in [Addr -> [Lane -> Cells]] /\ rdataScr' \in [Lane -> Cells]
        /\ writePending' \in BOOLEAN /\ wdataScr' \in [Lane -> Cells]
        /\ keyValid' \in BOOLEAN /\ nonce' \in Nonce
    BY <1>2, Addresses, ArrayType, HoldType, KeyType DEF Write
  <2>3. middle' \in Addr \cup {Stale}
    BY <1>2 DEF Write, Keystream
  <2>4. wmask' \in SUBSET Lane /\ wdata' \in [Lane -> Val]
    BY <1>2, ValuesAssumption DEF Write
  <2>5. QED
    BY <1>2, <2>1, <2>2, <2>3, <2>4 DEF Write, TypeOK
<1>3. ASSUME NEW e \in BOOLEAN, NEW k \in KeyMoves, Idle(e, k)
      PROVE  TypeOK'
  <2>1. /\ mem' \in [Addr -> [Lane -> Cells]] /\ rdataScr' \in [Lane -> Cells]
        /\ writePending' \in BOOLEAN /\ wdataScr' \in [Lane -> Cells]
        /\ keyValid' \in BOOLEAN /\ nonce' \in Nonce
    BY <1>3, Addresses, ArrayType, HoldType, KeyType DEF Idle
  <2>2. middle' \in Addr \cup {Stale}
    BY <1>3 DEF Idle, Keystream, TypeOK
  <2>3. QED
    BY <1>3, <2>1, <2>2 DEF Idle, TypeOK
<1>4. CASE UNCHANGED vars
  BY <1>4 DEF vars, TypeOK
<1>5. QED
  BY <1>1, <1>2, <1>3, <1>4 DEF Next

-----------------------------------------------------------------------------
(* What a cycle without an integrity error does to the undelivered write.  *)

\* The array with the undelivered write in it.
Rows == IF Undelivered THEN Landed ELSE mem

\* While a read is granted the undelivered write is kept as it is.
LEMMA ReadKeeps ==
  ASSUME IInv, NEW a \in Addr, Read(a, FALSE, "keep")
  PROVE  /\ mem' = mem /\ rdataScr' = mem[Phys[nonce][a]]
         /\ Undelivered' = Undelivered
         /\ Undelivered => ScrData' = ScrData
         /\ Rows' = Rows
<1>1. ~intgErrW /\ ~locking
  BY DEF IInv, Read, Errors
<1>2. ~MacroWrite(TRUE)
  BY DEF MacroWrite
<1>3. /\ mem' = [q \in Addr |-> mem[q]] /\ rdataScr' = mem[Phys[nonce][a]]
  BY <1>1, <1>2 DEF Read, Array, Under
<1>4. mem' = mem
  BY <1>3 DEF IInv, TypeOK
<1>5. /\ writeEn' = FALSE /\ writePending' = (writeEn \/ writePending)
      /\ wdataScr' = IF writeEn THEN Scrambled ELSE wdataScr
  BY <1>2 DEF Read, Hold, Under
<1>6. Undelivered' = Undelivered
  BY <1>5 DEF Undelivered
<1>7. Undelivered => ScrData' = ScrData
  BY <1>1, <1>5 DEF IInv, NoOverrun, Undelivered, ScrData
<1>8. UNCHANGED <<waddr, wmask>>
  BY DEF Read
<1>9. Undelivered => Landed' = Landed
  BY <1>4, <1>7, <1>8 DEF Landed
<1>10. QED
  BY <1>3, <1>4, <1>6, <1>7, <1>9 DEF Rows

\* In any other cycle it is delivered.
LEMMA OthersDeliver ==
  ASSUME IInv, Array(FALSE, 0, FALSE, "keep"), Hold(FALSE, "keep"), ~locking
  PROVE  mem' = Rows /\ writePending' = FALSE
<1>1. ~intgErrW
  BY DEF IInv
<1>2. MacroWrite(FALSE) <=> Undelivered
  BY <1>1 DEF MacroWrite
<1>3. mem' = [q \in Addr |-> Rows[q]]
  BY <1>1, <1>2 DEF Array, Under, Rows
<1>4. Rows \in [Addr -> [Lane -> Cells]]
  BY SignalTypes DEF Rows, IInv, TypeOK
<1>5. writePending' = FALSE
  BY <1>2 DEF Hold, Undelivered, IInv, TypeOK
<1>6. QED
  BY <1>3, <1>4, <1>5

\* A key change makes every row and every word under way unreadable.
LEMMA KeyChangeBlanks ==
  ASSUME TypeOK, NEW r \in BOOLEAN, NEW p, NEW e, NEW k, k # "keep", NEW b,
         Array(r, p, e, k), Hold(r, k), Keystream(b, k), nonce' \in Nonce
  PROVE  Store' = [c \in Addr |-> [l \in Lane |-> Garbage]]
<1> DEFINE blank == [l \in Lane |-> Garbage]
<1>1. mem' = [q \in Addr |-> blank] /\ wdataScr' = blank /\ middle' = Stale
  BY DEF Array, Hold, Keystream, Under
<1>2. Scrambled' = blank
  BY <1>1 DEF Scrambled
<1>3. ScrData' = blank
  BY <1>1, <1>2 DEF ScrData
<1>4. Landed' = [q \in Addr |-> blank]
  BY <1>1, <1>3 DEF Landed
<1>5. \A q \in Addr, l \in Lane : (IF Undelivered' THEN Landed' ELSE mem')[q][l] = Garbage
  BY <1>1, <1>4
<1>6. \A c \in Addr, l \in Lane :
        Decode(c, (IF Undelivered' THEN Landed' ELSE mem')[Phys[nonce'][c]][l]) = Garbage
  BY <1>5, Addresses DEF Decode
<1>7. Store' = [c \in Addr |-> [l \in Lane |->
        Decode(c, (IF Undelivered' THEN Landed' ELSE mem')[Phys[nonce'][c]][l])]]
  BY DEF Store
<1>8. QED
  BY <1>6, <1>7

-----------------------------------------------------------------------------
(* The inductive invariant. *)

\* The RAM comes out of reset in the invariant.
LEMMA InitIInv == Init => IInv
<1> SUFFICES ASSUME Init PROVE IInv
  OBVIOUS
<1>1. TypeOK
  BY Addresses, ValuesAssumption DEF Init, TypeOK, Cells
<1>2. QED
  BY <1>1 DEF Init, IInv, NoOverrun, UndeliveredReadable, Undelivered

\* Every cycle keeps the invariant.
LEMMA InvStep == IInv /\ [Next]_vars => IInv'
<1> SUFFICES ASSUME IInv, [Next]_vars PROVE IInv'
  OBVIOUS
<1>t. TypeOK'
  BY TypeStep DEF IInv
<1>1. ASSUME NEW e \in BOOLEAN, NEW k \in KeyMoves, NEW a \in Addr, Read(a, e, k)
      PROVE  IInv'
  <2>1. (locking => intgErrR)' /\ (intgErrW => locking)'
    BY <1>1 DEF Read, Errors, IInv
  <2>2. NoOverrun'
    BY <1>1 DEF Read, NoOverrun
  <2>3. UndeliveredReadable'
    <3> SUFFICES ASSUME ~locking', keyValid', Undelivered'
                 PROVE  \E b \in Addr : /\ Phys[nonce'][b] = waddr'
                                        /\ \A l \in wmask' : ScrData'[l] = <<b, wdata'[l]>>
      BY DEF UndeliveredReadable
    <3>1. e = FALSE /\ ~locking /\ keyValid
      BY <1>1 DEF Read, Errors
    <3>2. k = "keep" /\ nonce' = nonce
      BY <1>1, <3>1 DEF Read, KeyPort
    <3>3. Undelivered /\ ScrData' = ScrData
      BY <1>1, <3>1, <3>2, ReadKeeps
    <3>4. UNCHANGED <<waddr, wmask, wdata>>
      BY <1>1 DEF Read
    <3>5. QED
      BY <3>1, <3>2, <3>3, <3>4 DEF IInv, UndeliveredReadable
  <2>4. QED
    BY <1>t, <2>1, <2>2, <2>3 DEF IInv
<1>2. ASSUME NEW e \in BOOLEAN, NEW k \in KeyMoves, NEW a \in Addr,
             NEW data \in Data, NEW mask \in Masks, Write(a, data, mask, e, k)
      PROVE  IInv'
  <2>1. (locking => intgErrR)' /\ (intgErrW => locking)'
    BY <1>2 DEF Write, Errors
  <2>2. NoOverrun'
    <3>1. ~locking' => ~intgErrW
      BY <1>2 DEF Write, Errors, IInv
    <3>2. ~locking' => writePending' = FALSE
      BY <1>2, <3>1 DEF Write, Hold, MacroWrite, Undelivered
    <3>3. QED
      BY <3>2 DEF NoOverrun
  <2>3. UndeliveredReadable'
    <3> SUFFICES ASSUME ~locking', keyValid', Undelivered'
                 PROVE  \E b \in Addr : /\ Phys[nonce'][b] = waddr'
                                        /\ \A l \in wmask' : ScrData'[l] = <<b, wdata'[l]>>
      BY DEF UndeliveredReadable
    <3>1. k = "keep" /\ nonce' = nonce
      BY <1>2 DEF Write, KeyPort
    <3>2. ~writePending'
      BY <1>2, <2>2 DEF Write, NoOverrun
    <3>3. middle' = a /\ middle' # Stale
      BY <1>2, <3>1, ValuesAssumption DEF Write, Keystream
    <3>4. mask \subseteq Lane
      BY ValuesAssumption
    <3>5. \A l \in mask : ScrData'[l] = <<a, wdata'[l]>>
      BY <3>2, <3>3, <3>4 DEF ScrData, Scrambled
    <3>6. QED
      BY <1>2, <3>1, <3>5 DEF Write
  <2>4. QED
    BY <1>t, <2>1, <2>2, <2>3 DEF IInv
<1>3. ASSUME NEW e \in BOOLEAN, NEW k \in KeyMoves, Idle(e, k)
      PROVE  IInv'
  <2>1. (locking => intgErrR)' /\ (intgErrW => locking)'
    BY <1>3 DEF Idle, Errors, IInv
  <2>2. ~locking' => ~Undelivered'
    <3>1. ~locking' => ~intgErrW
      BY <1>3 DEF Idle, Errors, IInv
    <3>2. QED
      BY <1>3, <3>1 DEF Idle, Hold, MacroWrite, Undelivered
  <2>3. QED
    BY <1>t, <2>1, <2>2 DEF IInv, NoOverrun, UndeliveredReadable, Undelivered
<1>4. CASE UNCHANGED vars
  <2>1. Undelivered' = Undelivered /\ ScrData' = ScrData
    BY <1>4 DEF vars, Undelivered, ScrData, Scrambled
  <2>2. QED
    BY <1>t, <1>4, <2>1 DEF vars, IInv, NoOverrun, UndeliveredReadable
<1>5. QED
  BY <1>1, <1>2, <1>3, <1>4 DEF Next

\* The invariant always holds.
THEOREM Invariant == Spec => []IInv
BY InitIInv, InvStep, PTL DEF Spec

\* The registers, the array and the ports of prim_ram_1p_scr keep their types.
THEOREM TypesHold == Spec => []TypeOK
<1>1. IInv => TypeOK
  BY DEF IInv
<1>2. QED
  BY Invariant, <1>1, PTL

\* A granted write never enters the stage while an older one is still held,
\* so write_pending_q and one holding register are enough.
THEOREM NeverOverrun == Spec => []NoOverrun
<1>1. IInv => NoOverrun
  BY DEF IInv
<1>2. QED
  BY Invariant, <1>1, PTL

\* An undelivered write is always scrambled for the row it will be put in, and
\* agrees with the plain copy that reads are answered from.
THEOREM UndeliveredIsReadable == Spec => []UndeliveredReadable
<1>1. IInv => UndeliveredReadable
  BY DEF IInv
<1>2. QED
  BY Invariant, <1>1, PTL

-----------------------------------------------------------------------------
(* The refinement. *)

\* The word of each address, from the rows.
LEMMA StoreOfRows ==
  Store = [a \in Addr |-> [l \in Lane |-> Decode(a, Rows[Phys[nonce][a]][l])]]
BY DEF Store, Rows

\* Types of the mapped variables.
WellMapped == /\ Store \in [Addr -> [Lane -> Val \cup {Garbage}]]
              /\ Rsp \in [Lane -> Val \cup {Garbage}] \cup {None}

\* The mapped variables have the types of the plain memory's.
LEMMA MappedTypes == TypeOK => WellMapped
<1> SUFFICES ASSUME TypeOK PROVE WellMapped
  OBVIOUS
<1>1. Rows \in [Addr -> [Lane -> Cells]]
  BY SignalTypes DEF Rows, TypeOK
<1>2. \A a \in Addr, l \in Lane : Rows[Phys[nonce][a]][l] \in Cells
  BY <1>1, Addresses DEF TypeOK
<1>3. Store \in [Addr -> [Lane -> Val \cup {Garbage}]]
  BY <1>2, DecodeType, StoreOfRows
<1>4. \A l \in Lane : Decode(middle, rdataScr[l]) \in Val \cup {Garbage}
  BY DecodeType DEF TypeOK
<1>5. RdataO \in [Lane -> Val \cup {Garbage}]
  BY <1>4 DEF RdataO, TypeOK
<1>6. QED
  BY <1>3, <1>5 DEF Rsp, WellMapped

\* They have them in the next state, too.
LEMMA MappedTypesNext == TypeOK' => WellMapped'
BY MappedTypes, PTL

\* The same of the rows in the next state.
LEMMA StoreOfRowsNext ==
  Store' = [a \in Addr |-> [l \in Lane |-> Decode(a, Rows'[Phys[nonce'][a]][l])]]
BY DEF Store, Rows

\* Reset maps to the blank memory.
LEMMA InitMaps == Init => Memory!MInit
<1> SUFFICES ASSUME Init PROVE Memory!MInit
  OBVIOUS
<1>1. Store = [a \in Addr |-> [l \in Lane |-> Garbage]]
  <2>1. \A a \in Addr, l \in Lane : Decode(a, mem[Phys[nonce][a]][l]) = Garbage
    BY Addresses DEF Init, Decode
  <2>2. Rows = mem
    BY DEF Init, Rows, Undelivered
  <2>3. QED
    BY <2>1, <2>2, StoreOfRows
<1>2. Rsp = None /\ locking = FALSE
  BY DEF Init, Rsp, RvalidO
<1>3. QED
  BY <1>1, <1>2 DEF Memory!MInit, Memory!Blank

\* A cycle with an integrity error maps to a lock.
LEMMA ErrorMaps ==
  ASSUME TypeOK', Errors(TRUE)
  PROVE  Memory!MLock
<1>1. locking' = TRUE /\ Rsp' = None
  BY DEF Errors, Rsp, RvalidO
<1>2. Store' \in [Addr -> [Lane -> Val \cup {Garbage}]]
  BY MappedTypesNext DEF WellMapped
<1>3. QED
  BY <1>1, <1>2 DEF Memory!MLock, Memory!Words

\* A cycle in which the key changes maps to forgetting.
LEMMA KeyChangeMaps ==
  ASSUME TypeOK, TypeOK', NEW r \in BOOLEAN, NEW p, NEW k, k # "keep", NEW b,
         Errors(FALSE), Array(r, p, FALSE, k), Hold(r, k), Keystream(b, k)
  PROVE  Memory!MForget
<1>1. Store' = [c \in Addr |-> [l \in Lane |-> Garbage]]
  BY KeyChangeBlanks DEF TypeOK
<1>2. ~locking /\ locking' = locking
  BY DEF Errors, TypeOK
<1>3. Rsp' \in [Lane -> Val \cup {Garbage}] \cup {None}
  BY MappedTypesNext DEF WellMapped
<1>4. QED
  BY <1>1, <1>2, <1>3 DEF Memory!MForget, Memory!Words, Memory!Blank

\* A granted read maps to a read of the mapped store.
LEMMA ReadMaps ==
  ASSUME IInv, IInv', NEW a \in Addr, Read(a, FALSE, "keep")
  PROVE  Memory!MRead
<1> DEFINE p == Phys[nonce][a]
<1>1. ~locking /\ locking' = locking /\ keyValid /\ nonce' = nonce
  BY DEF Read, Errors, KeyPort, IInv, TypeOK
<1>2. Store' = Store
  BY <1>1, ReadKeeps, StoreOfRows, StoreOfRowsNext
<1>3. p \in Addr
  BY Addresses DEF IInv, TypeOK
<1>4. Rsp' = RdataO'
  BY DEF Read, Errors, Rsp, RvalidO
<1>5. RdataO' = [l \in Lane |-> IF collision' /\ l \in wmask THEN wdata[l]
                               ELSE Decode(a, mem[p][l])]
  BY ReadKeeps DEF Read, RdataO, Keystream
<1>6. collision' <=> Undelivered /\ p = waddr
  BY DEF Read
<1>7. ASSUME NEW l \in Lane
      PROVE  (IF collision' /\ l \in wmask THEN wdata[l] ELSE Decode(a, mem[p][l]))
               = Decode(a, Rows[p][l])
  <2>1. CASE collision' /\ l \in wmask
    <3>1. PICK b \in Addr : /\ Phys[nonce][b] = waddr
                           /\ \A m \in wmask : ScrData[m] = <<b, wdata[m]>>
      BY <1>1, <1>6, <2>1 DEF IInv, UndeliveredReadable
    <3>2. b = a
      BY <1>6, <2>1, <3>1, ScramblingAssumption DEF IInv, TypeOK
    <3>3. Rows[p][l] = ScrData[l]
      <4>1. Undelivered /\ p = waddr
        BY <1>6, <2>1
      <4>2. Landed[waddr] = [m \in Lane |-> IF m \in wmask THEN ScrData[m] ELSE mem[waddr][m]]
        BY DEF Landed, IInv, TypeOK
      <4>3. QED
        BY <2>1, <4>1, <4>2 DEF Rows
    <3>4. wdata[l] \in Val
      BY DEF IInv, TypeOK
    <3>5. Rows[p][l] = <<a, wdata[l]>>
      BY <2>1, <3>1, <3>2, <3>3
    <3>6. Decode(a, Rows[p][l]) = wdata[l]
      BY <3>4, <3>5, DecodeOwn
    <3>7. QED
      BY <2>1, <3>6
  <2>2. CASE ~(collision' /\ l \in wmask)
    <3>1. Rows[p][l] = mem[p][l]
      BY <1>3, <1>6, <2>2 DEF Rows, Landed, IInv, TypeOK
    <3>2. QED
      BY <2>2, <3>1
  <2>3. QED
    BY <2>1, <2>2
<1>8. Rsp' = Store[a]
  BY <1>4, <1>5, <1>7, StoreOfRows
<1>9. QED
  BY <1>1, <1>2, <1>8 DEF Memory!MRead

\* A cycle that grants nothing maps to rest.
LEMMA IdleMaps ==
  ASSUME IInv, Idle(FALSE, "keep")
  PROVE  Memory!MIdle
<1>1. ~locking /\ locking' = locking /\ nonce' = nonce
  BY DEF Idle, Errors, KeyPort, IInv, TypeOK
<1>2. mem' = Rows /\ ~Undelivered'
  BY <1>1, OthersDeliver DEF Idle, Undelivered
<1>3. Rows' = Rows
  BY <1>2 DEF Rows
<1>4. Store' = Store
  BY <1>1, <1>3, StoreOfRows, StoreOfRowsNext
<1>5. Rsp' = None
  BY DEF Idle, Rsp, RvalidO
<1>6. QED
  BY <1>1, <1>4, <1>5 DEF Memory!MIdle

\* A granted write maps to a write: the older one is in the array by then.
LEMMA WriteMaps ==
  ASSUME IInv, IInv', NEW a \in Addr, NEW data \in Data, NEW mask \in Masks,
         Write(a, data, mask, FALSE, "keep")
  PROVE  Memory!MWrite
<1> DEFINE p == Phys[nonce][a]
<1>1. ~locking /\ locking' = locking /\ nonce' = nonce
  BY DEF Write, Errors, KeyPort, IInv, TypeOK
<1>2. mem' = Rows /\ writePending' = FALSE
  BY <1>1, OthersDeliver DEF Write
<1>3. p \in Addr /\ mask \subseteq Lane /\ data \in [Lane -> Val]
  BY Addresses, ValuesAssumption DEF IInv, TypeOK
<1>4. Rows \in [Addr -> [Lane -> Cells]]
  BY SignalTypes DEF Rows, IInv, TypeOK
<1>5. Undelivered' /\ ScrData' = [l \in Lane |-> <<a, data[l]>>]
  <2>1. Undelivered' /\ ScrData' = Scrambled'
    BY <1>2 DEF Write, Undelivered, ScrData
  <2>2. middle' = a /\ middle' # Stale /\ wdata' = data
    BY ValuesAssumption DEF Write, Keystream
  <2>3. QED
    BY <2>1, <2>2 DEF Scrambled
<1>6. Rows' = [Rows EXCEPT ![p] =
                 [l \in Lane |-> IF l \in mask THEN <<a, data[l]>> ELSE Rows[p][l]]]
  <2>1. Rows' = [mem' EXCEPT ![waddr'] =
                   [l \in Lane |-> IF l \in wmask' THEN ScrData'[l] ELSE mem'[waddr'][l]]]
    BY <1>5 DEF Rows, Landed
  <2>2. waddr' = p /\ wmask' = mask
    BY DEF Write
  <2>3. [l \in Lane |-> IF l \in mask THEN ScrData'[l] ELSE Rows[p][l]]
          = [l \in Lane |-> IF l \in mask THEN <<a, data[l]>> ELSE Rows[p][l]]
    BY <1>5
  <2>4. QED
    BY <1>2, <2>1, <2>2, <2>3
<1>7. ASSUME NEW b \in Addr, NEW l \in Lane
      PROVE  Decode(b, Rows'[Phys[nonce][b]][l])
               = IF b = a /\ l \in mask THEN data[l] ELSE Decode(b, Rows[Phys[nonce][b]][l])
  <2>1. Phys[nonce][b] \in Addr /\ (b # a => Phys[nonce][b] # p)
    BY Addresses, ScramblingAssumption DEF IInv, TypeOK
  <2>2. CASE b # a
    BY <1>4, <1>6, <2>1, <2>2
  <2>3. CASE b = a /\ l \in mask
    <3>1. Rows'[p][l] = <<a, data[l]>> /\ data[l] \in Val
      BY <1>3, <1>4, <1>6, <2>3
    <3>2. QED
      BY <2>3, <3>1, DecodeOwn
  <2>4. CASE b = a /\ l \notin mask
    <3>1. Rows'[p][l] = Rows[p][l]
      BY <1>3, <1>4, <1>6, <2>4
    <3>2. QED
      BY <2>4, <3>1
  <2>5. QED
    BY <2>2, <2>3, <2>4
<1>8. Store' = [Store EXCEPT ![a] = Memory!Overlay(Store[a], data, mask)]
  <2>1. Store' = [b \in Addr |-> [l \in Lane |->
                   IF b = a /\ l \in mask THEN data[l]
                   ELSE Decode(b, Rows[Phys[nonce][b]][l])]]
    BY <1>1, <1>7, StoreOfRowsNext
  <2>2. Memory!Overlay(Store[a], data, mask) =
          [l \in Lane |-> IF l \in mask THEN data[l] ELSE Decode(a, Rows[p][l])]
    BY StoreOfRows DEF Memory!Overlay
  <2>3. QED
    BY <2>1, <2>2, StoreOfRows
<1>9. Rsp' = None
  BY DEF Write, Rsp, RvalidO
<1>10. QED
  BY <1>1, <1>8, <1>9 DEF Memory!MWrite

\* Every cycle of the RAM is a step of the plain memory.
LEMMA StepMaps == IInv /\ IInv' /\ [Next]_vars => [Memory!MNext]_(Memory!mvars)
<1> SUFFICES ASSUME IInv, IInv', [Next]_vars PROVE [Memory!MNext]_(Memory!mvars)
  OBVIOUS
<1>t. TypeOK /\ TypeOK'
  BY DEF IInv
<1>1. ASSUME NEW e \in BOOLEAN, NEW k \in KeyMoves, NEW a \in Addr, Read(a, e, k)
      PROVE  Memory!MNext
  <2>1. CASE e = TRUE
    BY <1>t, <1>1, <2>1, ErrorMaps DEF Read, Memory!MNext
  <2>2. CASE e = FALSE /\ k # "keep"
    BY <1>t, <1>1, <2>2, KeyChangeMaps DEF Read, Memory!MNext
  <2>3. CASE e = FALSE /\ k = "keep"
    BY <1>1, <2>3, ReadMaps DEF Memory!MNext
  <2>4. QED
    BY <2>1, <2>2, <2>3
<1>2. ASSUME NEW e \in BOOLEAN, NEW k \in KeyMoves, NEW a \in Addr,
             NEW data \in Data, NEW mask \in Masks, Write(a, data, mask, e, k)
      PROVE  Memory!MNext
  <2>1. CASE e = TRUE
    BY <1>t, <1>2, <2>1, ErrorMaps DEF Write, Memory!MNext
  <2>2. CASE e = FALSE /\ k # "keep"
    BY <1>t, <1>2, <2>2, KeyChangeMaps DEF Write, Memory!MNext
  <2>3. CASE e = FALSE /\ k = "keep"
    BY <1>2, <2>3, WriteMaps DEF Memory!MNext
  <2>4. QED
    BY <2>1, <2>2, <2>3
<1>3. ASSUME NEW e \in BOOLEAN, NEW k \in KeyMoves, Idle(e, k)
      PROVE  Memory!MNext
  <2>1. CASE e = TRUE
    BY <1>t, <1>3, <2>1, ErrorMaps DEF Idle, Memory!MNext
  <2>2. CASE e = FALSE /\ k # "keep"
    BY <1>t, <1>3, <2>2, KeyChangeMaps DEF Idle, Memory!MNext
  <2>3. CASE e = FALSE /\ k = "keep"
    BY <1>3, <2>3, IdleMaps DEF Memory!MNext
  <2>4. QED
    BY <2>1, <2>2, <2>3
<1>4. CASE UNCHANGED vars
  <2>1. UNCHANGED <<Undelivered, Landed, RvalidO, RdataO>>
    BY <1>4 DEF vars, Undelivered, Landed, ScrData, Scrambled, RvalidO, RdataO
  <2>2. UNCHANGED <<Store, Rsp, locking>>
    BY <1>4, <2>1 DEF vars, Store, Rsp
  <2>3. QED
    BY <2>2 DEF Memory!mvars
<1>5. QED
  BY <1>1, <1>2, <1>3, <1>4 DEF Next

\* The RAM behaves as a plain memory that forgets on a new key: whatever is
\* under way in prim_ram_1p_scr, a read returns what the last granted writes
\* left at its address.
THEOREM MemoryImplemented == Spec => ImplementsMemory
BY Invariant, InitMaps, StepMaps, PTL DEF Spec, ImplementsMemory, Memory!MSpec
=============================================================================
