---------------------------- MODULE RomCtrlProofs ----------------------------
(***************************************************************************)
(* Proofs about the boot ROM checker, for every ROM, every size and every  *)
(* behaviour of KMAC and of the bus.  All of them rest on the inductive    *)
(* invariant IInv of RomCtrl.                                              *)
(***************************************************************************)
EXTENDS RomCtrl, TLAPS

\* The sizes as the provers use them: the top of the ROM is above its low part.
LEMMA Sizes ==
  /\ RomDepth \in Nat /\ TopCount \in Nat \ {0} /\ NonTop \in Nat /\ Top \in Nat
  /\ NonTop >= 2 /\ NonTop + TopCount = RomDepth /\ Top = RomDepth - 1
  /\ NonTop <= Top
BY SizesAssumption DEF NonTop, Top

\* Every step is a clock cycle whose inputs are in range; KMAC answers out of
\* turn only if it misbehaves.
LEMMA StepIsCycle ==
  ASSUME TypeOK, Next
  PROVE  \E rdy \in BOOLEAN, breq \in Addr \cup {None}, kdone \in BOOLEAN,
            err \in BOOLEAN, dig \in Digests :
           /\ kdone => kmac = "digesting" \/ KmacMisbehaves
           /\ Cycle(rdy, breq, kdone, err, dig)
<1>1. CASE \E rdy \in BOOLEAN : Quiet(rdy)
  <2>1. PICK rdy \in BOOLEAN, breq \in Addr \cup {None} :
          Cycle(rdy, breq, FALSE, FALSE, digest)
    BY <1>1 DEF Quiet
  <2>2. digest \in Digests
    BY DEF TypeOK
  <2>3. QED
    BY <2>1, <2>2
<1>2. CASE \E err \in BOOLEAN : Answer(err)
  <2>1. PICK err \in BOOLEAN, rdy \in BOOLEAN, breq \in Addr \cup {None},
             dig \in Digests : /\ kmac = "digesting" \/ KmacMisbehaves
                               /\ Cycle(rdy, breq, TRUE, err, dig)
    BY <1>2 DEF Answer
  <2>2. QED
    BY <2>1
<1>3. QED
  BY <1>1, <1>2 DEF Next

\* The invariant holds after reset.
LEMMA InitIInv == Init => IInv
<1> SUFFICES ASSUME Init PROVE IInv
  OBVIOUS
<1> USE DEF Init, CounterInit, FsmInit, CompareInit, MuxInit, RegsInit, KmacInit
<1>1. TypeOK
  <2>1. [i \in TopIdx |-> <<0, 0>>] \in Digests
    BY ContentAssumption DEF Digests, Word
  <2>2. 0 \in Addr /\ 0 \in TopIdx
    BY Sizes DEF Addr, TopIdx
  <2>3. hashed \in Seq(Addr)
    OBVIOUS
  <2>4. QED
    BY <2>1, <2>2, <2>3 DEF TypeOK, FsmStates
<1>2. CounterInv
  BY Sizes DEF CounterInv
<1>3. MuxInv
  BY DEF MuxInv
<1>4. PhaseInv
  BY Sizes DEF PhaseInv
<1>5. HashInv
  BY Sizes DEF HashInv
<1>6. DigestInv
  BY DEF DigestInv
<1>7. CompareInv
  BY DEF CompareInv, Reading
<1>8. QED
  BY <1>1, <1>2, <1>3, <1>4, <1>5, <1>6, <1>7 DEF IInv

-----------------------------------------------------------------------------
(* One lemma for each part of the invariant: a cycle preserves it. *)

\* No cycle takes a register out of its range.
LEMMA TypeStep ==
  ASSUME IInv, NEW rdy \in BOOLEAN, NEW breq \in Addr \cup {None},
         NEW kdone \in BOOLEAN, NEW err \in BOOLEAN, NEW dig \in Digests,
         Cycle(rdy, breq, kdone, err, dig)
  PROVE  TypeOK'
<1> USE DEF IInv, TypeOK
<1>1. ReadAddr(rdy) \in Addr /\ Go(rdy) \in BOOLEAN
  BY Sizes DEF ReadAddr, Go, Addr, Top
<1>2. req' \in BOOLEAN /\ vld' \in BOOLEAN /\ done' \in BOOLEAN
      /\ lnt' \in BOOLEAN /\ addr' \in Addr
  BY <1>1 DEF Cycle, CounterStep
<1>3. state' \in FsmStates /\ start' \in BOOLEAN /\ kmacVld' \in BOOLEAN
  <2>1. Scheduled(rdy, kdone, err) \in FsmStates
    BY DEF Scheduled, FsmStates
  <2>2. QED
    BY <2>1 DEF Cycle, FsmStep, FsmStates
<1>4. cstate' \in {"Waiting", "Checking", "Done"} /\ caddr' \in TopIdx
      /\ matches' \in BOOLEAN
  <2>1. cstate' \in {"Waiting", "Checking", "Done"}
    BY DEF Cycle, CompareStep, compareVars
  <2>2. caddr' \in TopIdx
    BY Sizes DEF Cycle, CompareStep, compareVars, TopIdx
  <2>3. matches' \in BOOLEAN
    BY DEF Cycle, CompareStep, compareVars
  <2>4. QED
    BY <2>1, <2>2, <2>3
<1>5. selQ' \in BOOLEAN /\ selQQ' \in BOOLEAN /\ muxAlert' \in BOOLEAN
      /\ romVld' \in BOOLEAN
  BY DEF Cycle, MuxStep, SelBus
<1>6. romQ' \in Addr /\ bus' \in Addr \cup {None}
  BY <1>1 DEF Cycle, MuxStep, SelBus
<1>7. digest' \in Digests
  BY DEF Cycle, RegsStep
<1>8. expDigest' \in Digests
  BY ContentAssumption DEF Cycle, RegsStep, Digests
<1>9. cause' \in BOOLEAN
  BY DEF Cycle, RegsStep, InternalAlert, CheckerAlert, CompareAlert,
         UnexpectedCounterChange
<1>10. hashed' \in Seq(Addr) /\ kmac' \in {"absorbing", "digesting", "answered"}
  BY DEF Cycle, KmacStep
<1>11. QED
  BY <1>2, <1>3, <1>4, <1>5, <1>6, <1>7, <1>8, <1>9, <1>10

\* Outside Invalid no block raises an alert: the consistency checks between
\* the FSM, the counter and the comparator never fire.
LEMMA NoAlert ==
  ASSUME IInv, state # "Invalid"
  PROVE  ~CheckerAlert
BY DEF IInv, CheckerAlert, CompareAlert, UnexpectedCounterChange, PhaseInv,
       CompareInv, Reading, TypeOK, FsmStates

\* Where the FSM goes: as scheduled, or to Invalid when KMAC answers out of
\* turn.
LEMMA FsmMoves ==
  ASSUME IInv, NEW rdy \in BOOLEAN, NEW kdone \in BOOLEAN, NEW err \in BOOLEAN,
         FsmStep(rdy, kdone, err)
  PROVE  /\ state = "Invalid" => state' = "Invalid"
         /\ state' = "Invalid" =>
              \/ state = "Invalid"
              \/ kdone /\ (err \/ state \notin {"ReadingHigh", "RomAhead"})
         /\ state' # "Invalid" =>
              /\ state' = Scheduled(rdy, kdone, err)
              /\ kdone => state \in {"ReadingHigh", "RomAhead"} /\ ~err
<1> USE DEF FsmStep, Inconsistent
<1>1. CASE state = "Invalid"
  BY <1>1 DEF CheckerAlert
<1>2. CASE state # "Invalid"
  <2>1. ~CheckerAlert
    BY <1>2, NoAlert
  <2>2. ~(cstate = "Done" /\ state \notin {"Checking", "Done"})
    BY <1>2 DEF IInv, CompareInv, Reading, TypeOK, FsmStates
  <2>3. ~(done /\ state = "ReadingLow")
    BY Sizes DEF IInv, PhaseInv, CounterInv
  <2>4. QED
    BY <1>2, <2>1, <2>2, <2>3 DEF Scheduled, IInv, TypeOK, FsmStates
<1>3. QED
  BY <1>1, <1>2

\* The counter's flags keep up with its address and, as long as the checker
\* owns the ROM, so does the output register of the ROM.
LEMMA CounterStepInv ==
  ASSUME IInv, NEW rdy \in BOOLEAN, NEW breq \in Addr \cup {None},
         NEW kdone \in BOOLEAN, NEW err \in BOOLEAN, NEW dig \in Digests,
         kdone => kmac = "digesting" \/ KmacMisbehaves,
         Cycle(rdy, breq, kdone, err, dig)
  PROVE  CounterInv'
<1> USE DEF IInv, CounterInv, TypeOK, Cycle, CounterStep, ReadAddr, Go
<1>1. (vld => req)' /\ (~vld => addr = 0)'
  OBVIOUS
<1>2. (done => addr = Top)'
  OBVIOUS
<1>3. (lnt <=> addr = NonTop - 1)'
  BY Sizes DEF Addr, Top
<1>4. (vld /\ ~selQ => romQ = addr)'
  BY DEF MuxStep, SelBus
<1>5. QED
  BY <1>1, <1>2, <1>3, <1>4

\* The mux turns to the bus in Done and to an alert only with the FSM.
LEMMA MuxStepInv ==
  ASSUME IInv, NEW rdy \in BOOLEAN, NEW breq \in Addr \cup {None},
         NEW kdone \in BOOLEAN, NEW err \in BOOLEAN, NEW dig \in Digests,
         kdone => kmac = "digesting" \/ KmacMisbehaves,
         Cycle(rdy, breq, kdone, err, dig)
  PROVE  MuxInv'
<1> USE DEF IInv, MuxInv, TypeOK, Cycle, MuxStep, SelBus
<1>1. FsmStep(rdy, kdone, err)
  OBVIOUS
<1>2. state = "Done" => state' \in {"Done", "Invalid"}
  BY <1>1, FsmMoves DEF Scheduled, FsmStates
<1>3. state = "Invalid" => state' = "Invalid"
  BY <1>1, FsmMoves
<1>4. QED
  BY <1>2, <1>3

\* A word KMAC takes is the word the counter shows, and the counter moves on
\* exactly when it is taken.
LEMMA TakenWord ==
  ASSUME IInv, NEW rdy \in BOOLEAN, NEW breq \in Addr \cup {None},
         NEW kdone \in BOOLEAN, NEW err \in BOOLEAN, NEW dig \in Digests,
         kdone => kmac = "digesting" \/ KmacMisbehaves,
         Cycle(rdy, breq, kdone, err, dig)
  PROVE  /\ kmacVld => romQ = addr /\ addr = Len(hashed) /\ addr < NonTop
         /\ kmacVld /\ rdy => addr' = addr + 1 /\ Len(hashed') = Len(hashed) + 1
         /\ ~(kmacVld /\ rdy) => hashed' = hashed
<1> USE DEF IInv, TypeOK, PhaseInv, CounterInv
<1>1. kmacVld => romQ = addr /\ addr = Len(hashed) /\ addr < NonTop
  OBVIOUS
<1>2. kmacVld /\ rdy => addr' = addr + 1
  BY <1>1, Sizes DEF Cycle, CounterStep, ReadAddr, Go
<1>3. QED
  BY <1>1, <1>2 DEF Cycle, KmacStep

\* KMAC absorbs the words in order.
LEMMA HashStepInv ==
  ASSUME IInv, NEW rdy \in BOOLEAN, NEW breq \in Addr \cup {None},
         NEW kdone \in BOOLEAN, NEW err \in BOOLEAN, NEW dig \in Digests,
         kdone => kmac = "digesting" \/ KmacMisbehaves,
         Cycle(rdy, breq, kdone, err, dig)
  PROVE  HashInv'
<1>1. CASE kmacVld /\ rdy
  <2>1. hashed' = Append(hashed, romQ) /\ romQ = Len(hashed)
        /\ Len(hashed) < NonTop
    BY <1>1, TakenWord DEF Cycle, KmacStep
  <2>2. hashed \in Seq(Addr)
    BY DEF IInv, TypeOK
  <2>3. QED
    BY <2>1, <2>2, Sizes DEF IInv, HashInv
<1>2. CASE ~(kmacVld /\ rdy)
  BY <1>2, TakenWord DEF IInv, HashInv
<1>3. QED
  BY <1>1, <1>2

\* The FSM, the counter and KMAC stay in phase.
LEMMA PhaseStepInv ==
  ASSUME IInv, NEW rdy \in BOOLEAN, NEW breq \in Addr \cup {None},
         NEW kdone \in BOOLEAN, NEW err \in BOOLEAN, NEW dig \in Digests,
         kdone => kmac = "digesting" \/ KmacMisbehaves,
         Cycle(rdy, breq, kdone, err, dig)
  PROVE  PhaseInv'
<1>0. FsmStep(rdy, kdone, err) /\ CounterStep(rdy) /\ KmacStep(rdy, kdone)
      /\ MuxStep(rdy, breq)
  BY DEF Cycle
<1>1. TypeOK /\ CounterInv /\ MuxInv /\ PhaseInv
  BY DEF IInv
<1>2. (state = "ReadingLow" => /\ addr < NonTop /\ Len(hashed) = addr
                               /\ kmacVld <=> vld)'
  <2>1. SUFFICES ASSUME state' = "ReadingLow"
                 PROVE  /\ addr' < NonTop /\ Len(hashed') = addr'
                        /\ kmacVld' <=> vld'
    OBVIOUS
  <2>2. state = "ReadingLow" /\ ~(lnt /\ rdy /\ kmacVld)
    BY <1>0, <1>1, <2>1, FsmMoves DEF Scheduled, TypeOK, FsmStates
  <2>3. addr < NonTop /\ Len(hashed) = addr /\ (kmacVld <=> vld)
    BY <1>1, <2>2 DEF PhaseInv
  <2>4. kmacVld' <=> vld'
    BY <1>0, <1>1, <2>2, <2>3, Sizes
    DEF FsmStep, CounterStep, CounterInv, TypeOK
  <2>5. CASE kmacVld /\ rdy
    <3>1. addr' = addr + 1 /\ Len(hashed') = Len(hashed) + 1
      BY <2>5, TakenWord
    <3>2. addr # NonTop - 1
      BY <2>2, <2>5, <1>1 DEF CounterInv
    <3>3. QED
      BY <2>3, <2>4, <3>1, <3>2, <1>1, Sizes DEF TypeOK, Addr
  <2>6. CASE ~(kmacVld /\ rdy)
    <3>1. addr' = addr /\ hashed' = hashed
      BY <1>0, <2>2, <2>3, <2>6, TakenWord DEF CounterStep, ReadAddr, Go
    <3>2. QED
      BY <2>3, <2>4, <3>1
  <2>7. QED
    BY <2>5, <2>6
<1>3. (state \notin {"ReadingLow", "Invalid"} =>
         vld /\ addr >= NonTop /\ Len(hashed) = NonTop /\ ~kmacVld)'
  <2>1. SUFFICES ASSUME state' \notin {"ReadingLow", "Invalid"}
                 PROVE  vld' /\ addr' >= NonTop /\ Len(hashed') = NonTop
                        /\ ~kmacVld'
    OBVIOUS
  <2>2. state # "Invalid"
    BY <1>0, <2>1, FsmMoves
  <2>3. CASE state = "ReadingLow"
    <3>1. lnt /\ rdy /\ kmacVld
      BY <1>0, <2>1, <2>3, FsmMoves DEF Scheduled
    <3>2. addr' = addr + 1 /\ Len(hashed') = Len(hashed) + 1
          /\ addr = Len(hashed) /\ addr = NonTop - 1
      BY <3>1, <1>1, TakenWord DEF CounterInv
    <3>3. vld' /\ ~kmacVld'
      BY <1>0, <1>1, <3>1 DEF FsmStep, CounterStep, PhaseInv, CounterInv
    <3>4. QED
      BY <3>2, <3>3, Sizes
  <2>4. CASE state # "ReadingLow"
    <3>1. vld /\ addr >= NonTop /\ Len(hashed) = NonTop /\ ~kmacVld
      BY <1>1, <2>2, <2>4 DEF PhaseInv
    <3>2. addr' \in {addr, addr + 1}
      BY <1>0 DEF CounterStep, ReadAddr
    <3>3. vld' /\ ~kmacVld' /\ hashed' = hashed
      BY <1>0, <1>1, <2>4, <3>1, TakenWord DEF FsmStep, CounterStep, CounterInv
    <3>4. QED
      BY <3>1, <3>2, <3>3, <1>1, Sizes DEF TypeOK, Addr
  <2>5. QED
    BY <2>3, <2>4
<1>4. (state \in {"RomAhead", "Checking", "Done"} => done)'
  <2>1. SUFFICES ASSUME state' \in {"RomAhead", "Checking", "Done"}
                 PROVE  done'
    OBVIOUS
  <2>2. done
    BY <1>0, <1>1, <2>1, FsmMoves DEF Scheduled, TypeOK, FsmStates, PhaseInv
  <2>3. QED
    BY <1>0, <1>1, <2>2 DEF CounterStep, CounterInv
<1>5. (state \in {"KmacAhead", "Checking", "Done", "Invalid"} => kmac = "answered")'
  <2>1. kmac = "answered" \/ kdone => kmac' = "answered"
    BY <1>0 DEF KmacStep
  <2>2. CASE state' = "Invalid"
    BY <1>0, <1>1, <2>1, <2>2, FsmMoves DEF PhaseInv
  <2>3. CASE state' \in {"KmacAhead", "Checking", "Done"}
    <3>1. kdone \/ state \in {"KmacAhead", "Checking", "Done"}
      BY <1>0, <1>1, <2>3, FsmMoves DEF Scheduled, TypeOK, FsmStates
    <3>2. QED
      BY <1>1, <2>1, <3>1 DEF PhaseInv
  <2>4. QED
    BY <2>2, <2>3
<1>6. (kmacVld => vld /\ ~selQ /\ addr = Len(hashed) /\ addr < NonTop)'
  <2>1. SUFFICES ASSUME kmacVld'
                 PROVE  vld' /\ ~selQ' /\ addr' = Len(hashed') /\ addr' < NonTop
    OBVIOUS
  <2>2. CASE state' = "ReadingLow"
    <3>1. vld' /\ addr' = Len(hashed') /\ addr' < NonTop
      BY <1>2, <2>1, <2>2
    <3>2. ~selQ'
      BY <2>2, MuxStepInv DEF MuxInv
    <3>3. QED
      BY <3>1, <3>2
  <2>3. CASE state' = "Invalid"
    <3>1. CASE state = "ReadingLow"
      <4>1. vld' /\ ~selQ'
        BY <1>0, <1>1, <2>1, <3>1
        DEF FsmStep, CounterStep, MuxStep, SelBus, MuxInv, PhaseInv, CounterInv
      <4>2. addr < NonTop /\ Len(hashed) = addr /\ (kmacVld <=> vld)
        BY <1>1, <3>1 DEF PhaseInv
      <4>3. CASE kmacVld /\ rdy
        <5>1. addr' = addr + 1 /\ Len(hashed') = Len(hashed) + 1
          BY <4>3, TakenWord
        <5>2. ~lnt
          BY <1>0, <2>1, <4>3 DEF FsmStep
        <5>3. QED
          BY <1>1, <4>1, <4>2, <5>1, <5>2, Sizes DEF CounterInv, TypeOK, Addr
      <4>4. CASE ~(kmacVld /\ rdy)
        <5>1. addr' = addr /\ hashed' = hashed
          BY <1>0, <3>1, <4>2, <4>4, TakenWord DEF CounterStep, ReadAddr, Go
        <5>2. QED
          BY <4>1, <4>2, <5>1
      <4>5. QED
        BY <4>3, <4>4
    <3>2. CASE state # "ReadingLow"
      <4>1. kmacVld /\ ~rdy
        BY <1>0, <2>1, <3>2 DEF FsmStep
      <4>2. vld /\ ~selQ /\ addr = Len(hashed) /\ addr < NonTop /\ hashed' = hashed
        BY <1>1, <4>1, TakenWord DEF PhaseInv
      <4>3. state = "Invalid"
        BY <1>1, <3>2, <4>1 DEF PhaseInv
      <4>4. addr' = addr /\ vld' /\ ~selQ'
        BY <1>0, <1>1, <4>1, <4>2, <4>3
        DEF CounterStep, ReadAddr, Go, MuxStep, SelBus, CounterInv
      <4>5. QED
        BY <4>2, <4>4
    <3>3. QED
      BY <3>1, <3>2
  <2>4. CASE state' \notin {"ReadingLow", "Invalid"}
    BY <1>3, <2>1, <2>4
  <2>5. QED
    BY <2>2, <2>3, <2>4
<1>7. QED
  BY <1>2, <1>3, <1>4, <1>5, <1>6 DEF PhaseInv

\* EXP_DIGEST fills up behind the counter, also while KMAC is ahead.
LEMMA DigestStepInv ==
  ASSUME IInv, NEW rdy \in BOOLEAN, NEW breq \in Addr \cup {None},
         NEW kdone \in BOOLEAN, NEW err \in BOOLEAN, NEW dig \in Digests,
         kdone => kmac = "digesting" \/ KmacMisbehaves,
         Cycle(rdy, breq, kdone, err, dig)
  PROVE  DigestInv'
<1>0. FsmStep(rdy, kdone, err) /\ CounterStep(rdy) /\ RegsStep(kdone, dig)
  BY DEF Cycle
<1>1. TypeOK /\ CounterInv /\ MuxInv /\ PhaseInv /\ DigestInv
  BY DEF IInv
<1>2. SUFFICES ASSUME state' \notin {"ReadingLow", "Invalid"},
                      NEW i \in TopIdx, NonTop + i < addr' \/ done'
               PROVE  expDigest'[i] = Rom[NonTop + i]
  BY DEF DigestInv
<1>3. addr \in Nat /\ addr < RomDepth /\ i \in Nat /\ i < TopCount
  BY <1>1, Sizes DEF TypeOK, Addr, TopIdx
<1>4. CASE state = "ReadingLow"
  <2>1. addr < NonTop
    BY <1>1, <1>4 DEF PhaseInv
  <2>2. addr' \in {addr, addr + 1}
    BY <1>0 DEF CounterStep, ReadAddr
  <2>3. ~done'
    <3>1. addr # Top
      BY <1>3, <2>1, Sizes
    <3>2. QED
      BY <1>0, <3>1 DEF CounterStep
  <2>4. QED
    BY <1>2, <1>3, <2>1, <2>2, <2>3, Sizes
<1>5. CASE state # "ReadingLow"
  <2>1. state \notin {"ReadingLow", "Invalid"}
    BY <1>0, <1>2, <1>5, FsmMoves
  <2>2. CASE done
    <3>1. ~ReadingTop /\ expDigest' = expDigest
      BY <1>0, <2>2 DEF RegsStep, ReadingTop
    <3>2. QED
      BY <1>1, <2>1, <2>2, <3>1 DEF DigestInv
  <2>3. CASE ~done
    <3>1. state \in {"ReadingHigh", "KmacAhead"}
      BY <1>1, <2>1, <2>3 DEF PhaseInv, TypeOK, FsmStates
    <3>2. romQ = addr /\ addr >= NonTop
      BY <1>1, <2>1, <3>1 DEF CounterInv, MuxInv, PhaseInv
    <3>3. expDigest' = [expDigest EXCEPT ![addr - NonTop] = Rom[romQ]]
      BY <1>0, <2>3, <3>1 DEF RegsStep, ReadingTop
    <3>4. expDigest \in [TopIdx -> Word]
      BY <1>1 DEF TypeOK, Digests
    <3>5. NonTop + i <= addr
      <4>1. addr' \in {addr, addr + 1} /\ (done' => addr = Top)
        BY <1>0 DEF CounterStep, ReadAddr
      <4>2. QED
        BY <1>2, <1>3, <4>1, Sizes
    <3>6. CASE NonTop + i = addr
      <4>1. i = addr - NonTop /\ romQ = NonTop + i
        BY <1>3, <3>2, <3>6, Sizes
      <4>2. QED
        BY <3>3, <3>4, <4>1
    <3>7. CASE NonTop + i < addr
      <4>1. i # addr - NonTop
        BY <1>3, <3>7, Sizes
      <4>2. expDigest'[i] = expDigest[i]
        BY <3>3, <3>4, <4>1
      <4>3. QED
        BY <1>1, <2>1, <3>7, <4>2 DEF DigestInv
    <3>8. QED
      BY <1>3, <3>5, <3>6, <3>7, Sizes
  <2>4. QED
    BY <2>2, <2>3
<1>6. QED
  BY <1>4, <1>5

\* From the moment the check begins, both digests stand still unless the FSM
\* gives up.
LEMMA DigestsFrozen ==
  ASSUME IInv, NEW rdy \in BOOLEAN, NEW breq \in Addr \cup {None},
         NEW kdone \in BOOLEAN, NEW err \in BOOLEAN, NEW dig \in Digests,
         kdone => kmac = "digesting" \/ KmacMisbehaves,
         Cycle(rdy, breq, kdone, err, dig)
  PROVE  state \in {"Checking", "Done"} /\ state' # "Invalid" =>
           digest' = digest /\ expDigest' = expDigest
<1> SUFFICES ASSUME state \in {"Checking", "Done"}, state' # "Invalid"
             PROVE  digest' = digest /\ expDigest' = expDigest
  OBVIOUS
<1>1. ~kdone
  BY FsmMoves DEF Cycle
<1>2. QED
  BY <1>1 DEF Cycle, RegsStep, ReadingTop

\* The comparator keeps its place and its verdict.
LEMMA CompareStepInv ==
  ASSUME IInv, NEW rdy \in BOOLEAN, NEW breq \in Addr \cup {None},
         NEW kdone \in BOOLEAN, NEW err \in BOOLEAN, NEW dig \in Digests,
         kdone => kmac = "digesting" \/ KmacMisbehaves,
         Cycle(rdy, breq, kdone, err, dig)
  PROVE  CompareInv'
<1>0. FsmStep(rdy, kdone, err) /\ CompareStep
  BY DEF Cycle
<1>1. TypeOK /\ CompareInv
  BY DEF IInv
<1>2. (start => state = "Checking")'
  BY <1>0 DEF FsmStep
<1>3. CASE state' = "Invalid"
  BY <1>2, <1>3 DEF CompareInv, Reading
<1>4. CASE state' # "Invalid" /\ state \in Reading
  <2>1. cstate = "Waiting" /\ caddr = 0 /\ matches /\ ~start
    BY <1>1, <1>4 DEF CompareInv, Reading
  <2>2. cstate' = "Waiting" /\ caddr' = 0 /\ matches'
    BY <1>0, <2>1 DEF CompareStep
  <2>3. state' \in Reading \/ (state' = "Checking" /\ start')
    BY <1>0, <1>4, FsmMoves DEF Scheduled, Reading, FsmStep
  <2>4. QED
    BY <1>2, <2>2, <2>3 DEF CompareInv, Reading
<1>5. CASE state' # "Invalid" /\ state = "Checking" /\ cstate = "Waiting"
  <2>1. start /\ caddr = 0 /\ matches
    BY <1>1, <1>5 DEF CompareInv
  <2>2. cstate' = "Checking" /\ caddr' = 0 /\ matches'
    BY <1>0, <1>5, <2>1 DEF CompareStep
  <2>3. state' = "Checking" /\ ~start'
    BY <1>0, <1>5, FsmMoves DEF Scheduled, FsmStep
  <2>4. matches' <=> \A i \in 0 .. caddr' - 1 : Eq(i)'
    BY <2>2
  <2>5. QED
    BY <2>2, <2>3, <2>4 DEF CompareInv, Reading
<1>6. CASE state' # "Invalid" /\ state = "Checking" /\ cstate = "Checking"
  <2>1. \A i : Eq(i)' <=> Eq(i)
    <3>1. digest' = digest /\ expDigest' = expDigest
      BY <1>6, DigestsFrozen
    <3>2. QED
      BY <3>1 DEF Eq, HalfOf
  <2>2. matches <=> \A i \in 0 .. caddr - 1 : Eq(i)
    BY <1>1, <1>6 DEF CompareInv
  <2>3. matches' <=> matches /\ Eq(caddr)
    BY <1>0, <1>6 DEF CompareStep, Eq
  <2>4. matches' <=> \A i \in 0 .. caddr : Eq(i)'
    <3>1. caddr \in Nat
      BY <1>1, Sizes DEF TypeOK, TopIdx
    <3>2. \A i : i \in 0 .. caddr <=> i \in 0 .. caddr - 1 \/ i = caddr
      BY <3>1
    <3>3. QED
      BY <2>1, <2>2, <2>3, <3>2
  <2>5. state' = "Checking" /\ ~start'
    BY <1>0, <1>6, FsmMoves DEF Scheduled, FsmStep
  <2>6. CASE caddr = TopCount - 1
    <3>1. cstate' = "Done" /\ caddr' = TopCount - 1
      BY <1>0, <1>6, <2>6 DEF CompareStep
    <3>2. 0 .. caddr = TopIdx
      BY <2>6 DEF TopIdx
    <3>3. QED
      BY <2>4, <2>5, <3>1, <3>2 DEF CompareInv, Reading, TopIdx
  <2>7. CASE caddr # TopCount - 1
    <3>1. cstate' = "Checking" /\ caddr' = caddr + 1
      BY <1>0, <1>6, <2>7 DEF CompareStep
    <3>2. 0 .. caddr' - 1 = 0 .. caddr
      BY <1>1, <3>1, Sizes DEF TypeOK, TopIdx
    <3>3. QED
      BY <2>4, <2>5, <3>1, <3>2 DEF CompareInv, Reading
  <2>8. QED
    BY <2>6, <2>7
<1>7. CASE state' # "Invalid" /\ state \in {"Checking", "Done"} /\ cstate = "Done"
  <2>1. digest' = digest /\ expDigest' = expDigest
    BY <1>7, DigestsFrozen
  <2>2. cstate' = "Done" /\ caddr' = caddr /\ matches' = matches
    BY <1>0, <1>7 DEF CompareStep, compareVars
  <2>3. caddr = TopCount - 1 /\ (matches <=> \A i \in TopIdx : Eq(i))
    BY <1>1, <1>7 DEF CompareInv
  <2>4. (matches <=> \A i \in TopIdx : Eq(i))'
    BY <2>1, <2>2, <2>3 DEF Eq, HalfOf, TopIdx
  <2>5. state' = "Done" /\ ~start'
    BY <1>0, <1>7, FsmMoves DEF Scheduled, FsmStep
  <2>6. QED
    BY <2>2, <2>3, <2>4, <2>5 DEF CompareInv, Reading
<1>8. state = "Invalid" => state' = "Invalid"
  BY <1>0, FsmMoves
<1>9. QED
  BY <1>1, <1>3, <1>4, <1>5, <1>6, <1>7, <1>8
  DEF TypeOK, FsmStates, Reading, CompareInv

-----------------------------------------------------------------------------
(* Theorems. *)

\* The invariant is inductive.
LEMMA StepIInv == IInv /\ [Next]_vars => IInv'
<1> SUFFICES ASSUME IInv, [Next]_vars PROVE IInv'
  OBVIOUS
<1>1. CASE Next
  <2>1. PICK rdy \in BOOLEAN, breq \in Addr \cup {None}, kdone \in BOOLEAN,
             err \in BOOLEAN, dig \in Digests :
          /\ kdone => kmac = "digesting" \/ KmacMisbehaves
          /\ Cycle(rdy, breq, kdone, err, dig)
    BY <1>1, StepIsCycle DEF IInv
  <2>2. TypeOK'
    BY <2>1, TypeStep
  <2>3. CounterInv' /\ MuxInv' /\ HashInv'
    BY <2>1, CounterStepInv, MuxStepInv, HashStepInv
  <2>4. PhaseInv' /\ DigestInv' /\ CompareInv'
    BY <2>1, PhaseStepInv, DigestStepInv, CompareStepInv
  <2>5. QED
    BY <2>2, <2>3, <2>4 DEF IInv
<1>2. CASE UNCHANGED vars
  BY <1>2 DEF vars, IInv, TypeOK, CounterInv, MuxInv, PhaseInv, HashInv,
              DigestInv, CompareInv, Eq, HalfOf
<1>3. QED
  BY <1>1, <1>2

\* Every reachable state satisfies the invariant; in particular every register
\* stays in its range.
THEOREM InvariantHolds == Spec => []IInv
BY InitIInv, StepIInv, PTL DEF Spec

\* Every register of the checker stays in its range, for every ROM.
THEOREM TypeCorrect == Spec => []TypeOK
<1>1. IInv => TypeOK
  BY DEF IInv
<1>2. QED
  BY <1>1, InvariantHolds, PTL

\* For every back-pressure KMAC absorbs exactly the words below the digest, in
\* order, before the FSM goes on.
THEOREM HashOrderCorrect == Spec => []HashedInOrder
<1>1. IInv => HashedInOrder
  BY DEF IInv, HashInv, PhaseInv, HashedInOrder
<1>2. QED
  BY <1>1, InvariantHolds, PTL

\* The last flag goes with the valid flag and with the last word below the
\* digest.
THEOREM LastFlagCorrect == Spec => []LastImpliesValid
<1>1. IInv => LastImpliesValid
  <2> SUFFICES ASSUME IInv, state # "Invalid", lnt
               PROVE  kmacVld /\ romQ = NonTop - 1
    BY DEF LastImpliesValid
  <2>1. addr = NonTop - 1 /\ vld
    BY Sizes DEF IInv, CounterInv
  <2>2. state = "ReadingLow"
    BY <2>1, Sizes DEF IInv, PhaseInv
  <2>3. kmacVld /\ ~selQ
    BY <2>1, <2>2 DEF IInv, PhaseInv, MuxInv
  <2>4. QED
    BY <2>1, <2>3 DEF IInv, CounterInv
<1>2. QED
  BY <1>1, InvariantHolds, PTL

\* Whichever of the ROM and KMAC is ahead, the expected digest is the one
\* stored in the top of the ROM when it is compared and released.
THEOREM ExpDigestCorrect == Spec => []ExpDigestComplete
<1>1. IInv => ExpDigestComplete
  BY DEF IInv, DigestInv, PhaseInv, ExpDigestComplete
<1>2. QED
  BY <1>1, InvariantHolds, PTL

\* The verdict given to the power manager is the outcome of the comparison of
\* the first TopCount halves of the digests it is released with.
THEOREM VerdictCorrect == Spec => []GoodMeansCompared
<1>1. IInv => GoodMeansCompared
  BY DEF IInv, CompareInv, GoodMeansCompared, Eq
<1>2. QED
  BY <1>1, InvariantHolds, PTL

\* The checker becomes invalid only in a cycle in which KMAC answers, and then the answer
\* is an error or comes in a state in which the FSM does not wait for one.
InvalidOnlyByBadAnswer ==
  [][state # "Invalid" /\ state' = "Invalid" =>
       \/ Answer(TRUE)
       \/ Answer(FALSE) /\ state \notin {"ReadingHigh", "RomAhead"}]_vars

\* The checker raises no alert of its own: every alert is the Invalid state, and what leads
\* there is an answer of KMAC that is an error or out of place.  None of the FSM's checks of
\* the counter, the comparator and the mux ever fires before.
THEOREM AlertsCorrect == Spec => []NoSpontaneousAlert /\ InvalidOnlyByBadAnswer
<1> DEFINE Caused == state # "Invalid" /\ state' = "Invalid" =>
              \/ Answer(TRUE)
              \/ Answer(FALSE) /\ state \notin {"ReadingHigh", "RomAhead"}
<1>1. IInv => NoSpontaneousAlert
  BY NoAlert DEF IInv, MuxInv, PhaseInv, NoSpontaneousAlert
<1>2. IInv /\ [Next]_vars => [Caused]_vars
  <2> SUFFICES ASSUME IInv, Next, state # "Invalid", state' = "Invalid"
               PROVE  \/ Answer(TRUE)
                      \/ Answer(FALSE) /\ state \notin {"ReadingHigh", "RomAhead"}
    OBVIOUS
  <2>1. CASE \E rdy \in BOOLEAN : Quiet(rdy)
    <3>1. PICK rdy \in BOOLEAN : FsmStep(rdy, FALSE, FALSE)
      BY <2>1 DEF Quiet, Cycle
    <3>2. QED
      BY <3>1, FsmMoves
  <2>2. CASE \E err \in BOOLEAN : Answer(err)
    <3>1. PICK err \in BOOLEAN : Answer(err)
      BY <2>2
    <3>2. PICK rdy \in BOOLEAN : FsmStep(rdy, TRUE, err)
      BY <3>1 DEF Answer, Cycle
    <3>3. err \/ state \notin {"ReadingHigh", "RomAhead"}
      BY <3>2, FsmMoves
    <3>4. QED
      BY <3>1, <3>3
  <2>3. QED
    BY <2>1, <2>2 DEF Next
<1>3. QED
  BY <1>1, <1>2, InvariantHolds, PTL DEF Spec, InvalidOnlyByBadAnswer

\* A cycle cannot change what has been released except by giving it up, and
\* only a KMAC that answers out of turn makes it do so.
THEOREM ReleaseCorrect == Spec => ReleaseIsStable
<1> DEFINE Kept == state = "Done" =>
              \/ state' = "Done" /\ digest' = digest /\ matches' = matches
                                 /\ expDigest' = expDigest
              \/ state' = "Invalid" /\ KmacMisbehaves
<1>1. IInv /\ [Next]_vars => [Kept]_vars
  <2> SUFFICES ASSUME IInv, Next, state = "Done"
               PROVE  \/ state' = "Done" /\ digest' = digest
                         /\ matches' = matches /\ expDigest' = expDigest
                      \/ state' = "Invalid" /\ KmacMisbehaves
    OBVIOUS
  <2>1. PICK rdy \in BOOLEAN, breq \in Addr \cup {None}, kdone \in BOOLEAN,
             err \in BOOLEAN, dig \in Digests :
          /\ kdone => kmac = "digesting" \/ KmacMisbehaves
          /\ Cycle(rdy, breq, kdone, err, dig)
    BY StepIsCycle DEF IInv
  <2>2. FsmStep(rdy, kdone, err) /\ CompareStep
    BY <2>1 DEF Cycle
  <2>3. CASE state' = "Invalid"
    <3>1. kdone
      BY <2>2, <2>3, FsmMoves
    <3>2. kmac = "answered"
      BY DEF IInv, PhaseInv
    <3>3. QED
      BY <2>1, <2>3, <3>1, <3>2
  <2>4. CASE state' # "Invalid"
    <3>1. state' = "Done"
      BY <2>2, <2>4, FsmMoves DEF Scheduled
    <3>2. digest' = digest /\ expDigest' = expDigest
      BY <2>1, <2>4, DigestsFrozen
    <3>3. matches' = matches
      BY <2>2 DEF IInv, CompareInv, CompareStep, compareVars
    <3>4. QED
      BY <3>1, <3>2, <3>3
  <2>5. QED
    BY <2>3, <2>4
<1>2. QED
  BY <1>1, InvariantHolds, PTL DEF Spec, ReleaseIsStable

-----------------------------------------------------------------------------
(* The ROM window implements the gate. *)

\* The state of the gate as the refinement mapping has it.
GateOf == CASE state = "Done" -> "open"
            [] state = "Invalid" -> "dead"
            [] OTHER -> "shut"

RspOf == IF BusRvalid THEN Rom[romQ] ELSE None

\* Nothing is on the bus before Done or after a fault.
LEMMA SilentUnlessOpen ==
  ASSUME IInv, state # "Done"
  PROVE  RspOf = None
BY DEF IInv, MuxInv, BusRvalid, InternalAlert, CheckerAlert, RspOf

\* In Done the response belongs to the read granted in the cycle before.
LEMMA AnswerWhenOpen ==
  ASSUME IInv, state = "Done", NEW rdy \in BOOLEAN,
         NEW breq \in Addr \cup {None}, NEW kdone \in BOOLEAN,
         NEW err \in BOOLEAN, NEW dig \in Digests,
         Cycle(rdy, breq, kdone, err, dig), IInv', state' = "Done"
  PROVE  bus' = breq /\ RspOf' = IF breq = None THEN None ELSE Rom[breq]
<1>1. selQ' /\ romVld' = (breq # None) /\ bus' = breq
      /\ (breq # None => romQ' = breq)
  BY DEF Cycle, MuxStep, SelBus, IInv, TypeOK
<1>2. ~CheckerAlert'
  <2>1. cstate' = "Done" /\ caddr' = TopCount - 1 /\ ~start' /\ done'
    BY DEF IInv, CompareInv, PhaseInv
  <2>2. QED
    BY <2>1 DEF CheckerAlert, CompareAlert, UnexpectedCounterChange
<1>3. ~muxAlert'
  BY DEF IInv, MuxInv
<1>4. QED
  BY <1>1, <1>2, <1>3 DEF RspOf, BusRvalid, InternalAlert

\* A step of the checker is a step of the gate or a stutter.
LEMMA GateStep ==
  ASSUME IInv, Next, IInv'
  PROVE  Gate!GateNext \/ UNCHANGED Gate!gvars
<1> USE DEF Gate!GateNext, Gate!gvars, Gate!Open, Gate!Read, Gate!Rest,
            Gate!Kill, Gate!Silence
<1>1. PICK rdy \in BOOLEAN, breq \in Addr \cup {None}, kdone \in BOOLEAN,
           err \in BOOLEAN, dig \in Digests :
        /\ kdone => kmac = "digesting" \/ KmacMisbehaves
        /\ Cycle(rdy, breq, kdone, err, dig)
  BY StepIsCycle DEF IInv
<1>2. FsmStep(rdy, kdone, err)
  BY <1>1 DEF Cycle
<1>3. bus' = IF state = "Done" THEN breq ELSE None
  BY <1>1 DEF Cycle, MuxStep, SelBus
<1>4. state # "Done" => RspOf = None
  BY SilentUnlessOpen
<1>5. state' # "Done" => RspOf' = None
  <2>1. SUFFICES ASSUME state' # "Done" PROVE RspOf' = None
    OBVIOUS
  <2>2. ~BusRvalid'
    BY <2>1 DEF IInv, MuxInv, BusRvalid, InternalAlert, CheckerAlert
  <2>3. QED
    BY <2>2 DEF RspOf
<1>6. CASE state \notin {"Done", "Invalid"}
  <2>1. bus = None /\ bus' = None
    BY <1>3, <1>6 DEF IInv, MuxInv
  <2>2. CASE state' = "Done"
    <3>1. RspOf' = None
      <4>1. ~selQ'
        BY <1>1, <1>6 DEF Cycle, MuxStep, SelBus, IInv, MuxInv
      <4>2. QED
        BY <4>1 DEF RspOf, BusRvalid
    <3>2. QED
      BY <1>4, <1>6, <2>1, <2>2, <3>1 DEF RspOf
  <2>3. CASE state' = "Invalid"
    BY <1>5, <1>6, <2>1, <2>3 DEF RspOf
  <2>4. CASE state' \notin {"Done", "Invalid"}
    BY <1>4, <1>5, <1>6, <2>1, <2>4 DEF RspOf
  <2>5. QED
    BY <2>2, <2>3, <2>4
<1>7. CASE state = "Done"
  <2>1. state' \in {"Done", "Invalid"}
    BY <1>2, <1>7, FsmMoves DEF Scheduled
  <2>2. CASE state' = "Invalid"
    BY <1>3, <1>5, <1>7, <2>2 DEF RspOf, Addr
  <2>3. CASE state' = "Done"
    <3>1. bus' = breq /\ RspOf' = IF breq = None THEN None ELSE Rom[breq]
      BY <1>1, <1>7, <2>3, AnswerWhenOpen
    <3>2. QED
      BY <1>7, <2>3, <3>1 DEF RspOf, Addr
  <2>4. QED
    BY <2>1, <2>2, <2>3
<1>8. CASE state = "Invalid"
  <2>1. state' = "Invalid"
    BY <1>2, <1>8, FsmMoves
  <2>2. QED
    BY <1>3, <1>4, <1>5, <1>8, <2>1 DEF RspOf
<1>9. QED
  BY <1>6, <1>7, <1>8

\* The ROM window refines RomGate: no word leaves the ROM before the check is
\* over or after a fault, and every word that leaves it was asked for in the
\* cycle before.
THEOREM GateRefinement == Spec => ImplementsGate
<1>1. Init => Gate!GateInit
  BY DEF Init, FsmInit, MuxInit, Gate!GateInit, BusRvalid
<1>2. IInv /\ IInv' /\ [Next]_vars => [Gate!GateNext]_(Gate!gvars)
  <2> SUFFICES ASSUME IInv, IInv', [Next]_vars
               PROVE  Gate!GateNext \/ UNCHANGED Gate!gvars
    OBVIOUS
  <2>1. CASE Next
    BY <2>1, GateStep
  <2>2. CASE UNCHANGED vars
    BY <2>2 DEF vars, Gate!gvars, BusRvalid, InternalAlert, CheckerAlert,
                CompareAlert, UnexpectedCounterChange
  <2>3. QED
    BY <2>1, <2>2
<1>3. QED
  BY <1>1, <1>2, InvariantHolds, PTL DEF Spec, ImplementsGate, Gate!GateSpec
=============================================================================
