------------------------------- MODULE RomCtrl -------------------------------
(***************************************************************************)
(* The boot ROM checker: rom_ctrl_fsm, rom_ctrl_counter, rom_ctrl_compare, *)
(* rom_ctrl_mux and the digest registers and response gating of rom_ctrl,  *)
(* together with the two environments they race against: the KMAC          *)
(* application interface, which absorbs the low words at its own pace and  *)
(* answers with a digest when it likes, and the TL-UL adapter of the ROM   *)
(* window, which may ask for a word in any cycle.                          *)
(*                                                                         *)
(* One step is one clock cycle: every flip-flop takes its new value from   *)
(* the old values and the inputs of the cycle.  A 64-bit word is a pair of *)
(* 32-bit halves, because that is the unit in which rom_ctrl_compare       *)
(* steps; the halves are members of a small set.  The scrambling and the   *)
(* SHA-3 computation are abstracted: any digest may come back.             *)
(***************************************************************************)
EXTENDS Integers, Sequences

CONSTANTS
  RomDepth,       \* words in the ROM
  TopCount,       \* words of the expected digest, at the top of the ROM
  Half,           \* values of a 32-bit half word
  Rom,            \* the stored image, [0 .. RomDepth-1 -> Half \X Half]
  None,           \* no bus request
  KmacMisbehaves  \* may kmac_done_i be seen in any cycle at all?

Addr == 0 .. RomDepth - 1
TopIdx == 0 .. TopCount - 1
NonTop == RomDepth - TopCount   \* RomNonTopCount, also TopStartAddr
Top == RomDepth - 1             \* TopAddr
Word == Half \X Half
Digests == [TopIdx -> Word]

ASSUME SizesAssumption ==
  /\ TopCount \in Nat \ {0} /\ RomDepth \in Nat
  /\ RomDepth - TopCount >= 2
ASSUME ContentAssumption == Rom \in [Addr -> Word] /\ 0 \in Half
ASSUME NoneAssumption == None \notin Addr
ASSUME KmacAssumption == KmacMisbehaves \in BOOLEAN

FsmStates == {"ReadingLow", "ReadingHigh", "RomAhead", "KmacAhead",
              "Checking", "Done", "Invalid"}

VARIABLES
  req, vld, addr, done, lnt,        \* rom_ctrl_counter
  state, start, kmacVld,            \* rom_ctrl_fsm
  cstate, caddr, matches,           \* rom_ctrl_compare
  selQ, selQQ, muxAlert,            \* rom_ctrl_mux
  romQ, romVld,                     \* output register of the ROM (its address)
  digest, expDigest, cause,         \* registers of rom_ctrl
  hashed,                           \* addresses KMAC has absorbed, in order
  kmac,                             \* what KMAC is doing
  bus                               \* read granted in the previous cycle

counterVars == <<req, vld, addr, done, lnt>>
fsmVars == <<state, start, kmacVld>>
compareVars == <<cstate, caddr, matches>>
muxVars == <<selQ, selQQ, muxAlert, romQ, romVld, bus>>
regVars == <<digest, expDigest, cause>>
kmacVars == <<hashed, kmac>>
vars == <<req, vld, addr, done, lnt, state, start, kmacVld, cstate, caddr,
          matches, selQ, selQQ, muxAlert, romQ, romVld, bus, digest,
          expDigest, cause, hashed, kmac>>

-----------------------------------------------------------------------------
(* Signals: functions of the registers, read by several blocks in a cycle. *)

\* Half i of a digest register: bits 32*i+31 downto 32*i.
HalfOf(d, i) == d[i \div 2][1 + (i % 2)]

CompareAlert ==
  \/ start /\ cstate # "Waiting"
  \/ cstate = "Waiting" /\ caddr # 0
  \/ cstate = "Done" /\ caddr # TopCount - 1

UnexpectedCounterChange == state = "Done" /\ ~done

\* alert_o of the FSM.
CheckerAlert == state = "Invalid" \/ CompareAlert \/ UnexpectedCounterChange

InternalAlert == CheckerAlert \/ muxAlert

SelBus == state = "Done"

\* Mutant: the mux does not hold back what the checker has read.
BusRvalidUnselected == romVld /\ ~InternalAlert

\* The response the ROM adapter sees in this cycle.
BusRvalid == selQ /\ romVld /\ ~InternalAlert

\* Mutant: the counter runs on while KMAC is not ready.
GoUnready(rdy) == vld /\ addr # Top

\* The counter moves on: the word it shows has been taken.
Go(rdy) == /\ rdy \/ state \in {"ReadingHigh", "KmacAhead"}
           /\ vld /\ addr # Top

ReadAddr(rdy) == IF Go(rdy) THEN addr + 1 ELSE addr

\* Mutant: the words read after KMAC has answered are not kept.
ReadingTopBeforeAnswer == state = "ReadingHigh" /\ ~done

ReadingTop == state \in {"ReadingHigh", "KmacAhead"} /\ ~done

-----------------------------------------------------------------------------
(* Reset. *)

CounterInit == /\ req = FALSE /\ vld = FALSE /\ addr = 0
               /\ done = FALSE /\ lnt = FALSE

FsmInit == state = "ReadingLow" /\ start = FALSE /\ kmacVld = FALSE

CompareInit == cstate = "Waiting" /\ caddr = 0 /\ matches = TRUE

\* The data register of the ROM has no reset value.
MuxInit == /\ selQ = FALSE /\ selQQ = FALSE /\ muxAlert = FALSE
           /\ romQ \in Addr /\ romVld = FALSE /\ bus = None

RegsInit == /\ digest = [i \in TopIdx |-> <<0, 0>>]
            /\ expDigest = [i \in TopIdx |-> <<0, 0>>]
            /\ cause = FALSE

KmacInit == hashed = <<>> /\ kmac = "absorbing"

Init == /\ CounterInit /\ FsmInit /\ CompareInit
        /\ MuxInit /\ RegsInit /\ KmacInit

-----------------------------------------------------------------------------
(* One clock cycle, block by block. *)

CounterStep(rdy) ==
  /\ req' = TRUE
  /\ vld' = req
  /\ done' = (addr = Top)
  /\ addr' = ReadAddr(rdy)
  /\ lnt' = IF Go(rdy) THEN addr = NonTop - 2 ELSE lnt

\* Mutant: an answer of KMAC may be seen in any state.
InconsistentAnyAnswer(kdone) ==
  \/ cstate = "Done" /\ state \notin {"Checking", "Done"}
  \/ done /\ state = "ReadingLow"

\* checker_done, counter_done and kmac_done_i each have the states in which
\* they may be seen.
Inconsistent(kdone) ==
  \/ cstate = "Done" /\ state \notin {"Checking", "Done"}
  \/ done /\ state = "ReadingLow"
  \/ kdone /\ state \notin {"ReadingHigh", "RomAhead"}

\* Mutant: the counter is looked at before KMAC, whose answer is a pulse.
ScheduledCounterFirst(rdy, kdone, err) ==
  CASE state = "ReadingLow" ->
         IF lnt /\ rdy /\ kmacVld THEN "ReadingHigh" ELSE state
    [] state = "ReadingHigh" ->
         IF done THEN "RomAhead"
         ELSE IF kdone THEN IF err THEN "Invalid" ELSE "KmacAhead" ELSE state
    [] state = "RomAhead" ->
         IF kdone THEN IF err THEN "Invalid" ELSE "Checking" ELSE state
    [] state = "KmacAhead" -> IF done THEN "Checking" ELSE state
    [] state = "Checking" -> IF cstate = "Done" THEN "Done" ELSE state
    [] state = "Done" -> state
    [] state = "Invalid" -> state

\* The case statement of the FSM, before the consistency checks.
Scheduled(rdy, kdone, err) ==
  CASE state = "ReadingLow" ->
         IF lnt /\ rdy /\ kmacVld THEN "ReadingHigh" ELSE state
    [] state = "ReadingHigh" ->
         IF kdone THEN IF err THEN "Invalid"
                              ELSE IF done THEN "Checking" ELSE "KmacAhead"
                  ELSE IF done THEN "RomAhead" ELSE state
    [] state = "RomAhead" ->
         IF kdone THEN IF err THEN "Invalid" ELSE "Checking" ELSE state
    [] state = "KmacAhead" -> IF done THEN "Checking" ELSE state
    [] state = "Checking" -> IF cstate = "Done" THEN "Done" ELSE state
    [] state = "Done" -> state
    [] state = "Invalid" -> state

\* Mutant: start_checker is a level instead of a pulse.
FsmStepLevel(rdy, kdone, err) ==
  /\ state' = IF Inconsistent(kdone) \/ CheckerAlert
              THEN "Invalid" ELSE Scheduled(rdy, kdone, err)
  /\ start' = (state' = "Checking")
  /\ kmacVld' = ((req /\ state = "ReadingLow" /\ ~lnt) \/ (kmacVld /\ ~rdy))

FsmStep(rdy, kdone, err) ==
  /\ state' = IF Inconsistent(kdone) \/ CheckerAlert
              THEN "Invalid" ELSE Scheduled(rdy, kdone, err)
  /\ start' = (state # "Checking" /\ state' = "Checking")
  /\ kmacVld' = ((req /\ state = "ReadingLow" /\ ~lnt) \/ (kmacVld /\ ~rdy))

\* Mutant: the index moves on from the last half as well.
CompareStepRunsOn ==
  \/ /\ cstate = "Waiting"
     /\ cstate' = IF start THEN "Checking" ELSE cstate
     /\ UNCHANGED <<caddr, matches>>
  \/ /\ cstate = "Checking"
     /\ cstate' = IF caddr = TopCount - 1 THEN "Done" ELSE cstate
     /\ caddr' = caddr + 1
     /\ matches' = (matches /\ HalfOf(digest, caddr) = HalfOf(expDigest, caddr))
  \/ /\ cstate = "Done"
     /\ UNCHANGED compareVars

\* Mutant: each comparison replaces the verdict of the earlier ones.
CompareStepForgets ==
  LET last == caddr = TopCount - 1 IN
  \/ /\ cstate = "Waiting"
     /\ cstate' = IF start THEN "Checking" ELSE cstate
     /\ UNCHANGED <<caddr, matches>>
  \/ /\ cstate = "Checking"
     /\ cstate' = IF last THEN "Done" ELSE cstate
     /\ caddr' = IF last THEN caddr ELSE caddr + 1
     /\ matches' = (HalfOf(digest, caddr) = HalfOf(expDigest, caddr))
  \/ /\ cstate = "Done"
     /\ UNCHANGED compareVars

CompareStep ==
  LET last == caddr = TopCount - 1 IN
  \/ /\ cstate = "Waiting"
     /\ cstate' = IF start THEN "Checking" ELSE cstate
     /\ UNCHANGED <<caddr, matches>>
  \/ /\ cstate = "Checking"
     /\ cstate' = IF last THEN "Done" ELSE cstate
     /\ caddr' = IF last THEN caddr ELSE caddr + 1
     /\ matches' = (matches /\ HalfOf(digest, caddr) = HalfOf(expDigest, caddr))
  \/ /\ cstate = "Done"
     /\ UNCHANGED compareVars

\* The mux hands the ROM to the checker or to the bus; what was addressed in
\* this cycle is in the output register in the next one.
MuxStep(rdy, breq) ==
  LET romReq == IF SelBus THEN breq # None ELSE req IN
  /\ selQ' = (selQ \/ SelBus)
  /\ selQQ' = selQ
  /\ muxAlert' = (muxAlert \/ (selQ /\ ~SelBus) \/ (selQQ /\ ~selQ))
  /\ romVld' = romReq
  /\ romQ' = IF ~romReq THEN romQ ELSE IF SelBus THEN breq ELSE ReadAddr(rdy)
  /\ bus' = IF SelBus THEN breq ELSE None

\* DIGEST takes every digest that comes back, in whatever state; EXP_DIGEST
\* snoops on the words read from the top of the ROM.
RegsStep(kdone, dig) ==
  /\ digest' = IF kdone THEN dig ELSE digest
  /\ expDigest' = IF ReadingTop
                  THEN [expDigest EXCEPT ![addr - NonTop] = Rom[romQ]]
                  ELSE expDigest
  /\ cause' = (cause \/ InternalAlert)

\* The application interface of KMAC: it takes the word on offer when it is
\* ready, and answers some time after the word marked as the last.
KmacStep(rdy, kdone) ==
  /\ hashed' = IF kmacVld /\ rdy THEN Append(hashed, romQ) ELSE hashed
  /\ kmac' = IF kdone THEN "answered"
             ELSE IF kmac = "absorbing" /\ kmacVld /\ rdy /\ lnt
                  THEN "digesting" ELSE kmac

Cycle(rdy, breq, kdone, err, dig) ==
  /\ CounterStep(rdy)
  /\ FsmStep(rdy, kdone, err)
  /\ CompareStep
  /\ MuxStep(rdy, breq)
  /\ RegsStep(kdone, dig)
  /\ KmacStep(rdy, kdone)

\* A cycle in which KMAC does not answer.
Quiet(rdy) == \E breq \in Addr \cup {None} : Cycle(rdy, breq, FALSE, FALSE, digest)

\* A cycle in which it does, with an error or with a digest.
Answer(err) ==
  /\ kmac = "digesting" \/ KmacMisbehaves
  /\ \E rdy \in BOOLEAN, breq \in Addr \cup {None}, dig \in Digests :
       Cycle(rdy, breq, TRUE, err, dig)

Next == \/ \E rdy \in BOOLEAN : Quiet(rdy)
        \/ \E err \in BOOLEAN : Answer(err)

Spec == Init /\ [][Next]_vars

\* The clock runs, KMAC is ready again and again, and it answers a message
\* whose last word it has taken.
Fairness == /\ WF_vars(Quiet(TRUE))
            /\ WF_vars(kmac = "digesting" /\ \E err \in BOOLEAN : Answer(err))

FairSpec == Spec /\ Fairness

-----------------------------------------------------------------------------
(* Properties. *)

\* Every register holds a value of its range.
TypeOK ==
  /\ req \in BOOLEAN /\ vld \in BOOLEAN /\ done \in BOOLEAN /\ lnt \in BOOLEAN
  /\ addr \in Addr /\ romQ \in Addr /\ romVld \in BOOLEAN
  /\ state \in FsmStates /\ start \in BOOLEAN /\ kmacVld \in BOOLEAN
  /\ cstate \in {"Waiting", "Checking", "Done"} /\ caddr \in TopIdx
  /\ matches \in BOOLEAN
  /\ selQ \in BOOLEAN /\ selQQ \in BOOLEAN /\ muxAlert \in BOOLEAN
  /\ bus \in Addr \cup {None}
  /\ digest \in Digests /\ expDigest \in Digests /\ cause \in BOOLEAN
  /\ hashed \in Seq(Addr) /\ kmac \in {"absorbing", "digesting", "answered"}

\* Under every pattern of back-pressure KMAC absorbs the words 0, 1, 2, ...
\* in order, none twice and none left out, and never a word of the digest
\* itself; once the FSM has left ReadingLow it has absorbed all of them.
HashedInOrder ==
  /\ Len(hashed) <= NonTop
  /\ \A i \in 1 .. Len(hashed) : hashed[i] = i - 1
  /\ state \notin {"ReadingLow", "Invalid"} => Len(hashed) = NonTop

\* The last flag is up only together with valid (LastImpliesValid_A), and
\* only on the last word below the digest.
LastImpliesValid ==
  state # "Invalid" /\ lnt => kmacVld /\ romQ = NonTop - 1

\* However the end of the ROM and the answer of KMAC race, the expected
\* digest is complete before anything is compared with it or released.
ExpDigestComplete ==
  state \in {"Checking", "Done"} =>
    \A i \in TopIdx : expDigest[i] = Rom[NonTop + i]

\* The verdict: when the checker is done, "good" says exactly that the
\* TopCount halves it has stepped over agree in the digests it releases.
GoodMeansCompared ==
  state = "Done" =>
    (matches <=> \A i \in TopIdx : HalfOf(digest, i) = HalfOf(expDigest, i))

\* A good verdict means that the digest computed over the ROM is the
\* expected one, as the header of rom_ctrl_compare has it.
GoodMeansEqual == state = "Done" /\ matches => digest = expDigest

\* The checker never raises an alert by itself: every alert is the Invalid
\* state, and a checker without faults enters it only by an answer of KMAC.
NoSpontaneousAlert ==
  /\ CheckerAlert \/ muxAlert => state = "Invalid"
  /\ state = "Invalid" => kmac = "answered"

\* What the key manager and the power manager are given does not change
\* while it is flagged valid, and only an answer at the wrong time can
\* withdraw it.
ReleaseIsStable ==
  [][state = "Done" =>
       \/ state' = "Done" /\ digest' = digest /\ matches' = matches
                          /\ expDigest' = expDigest
       \/ state' = "Invalid" /\ KmacMisbehaves]_vars

\* The bus sees a word only as the answer to its own read of the previous
\* cycle, never a word the checker has read and never after a fault: the ROM
\* window implements the gate of RomGate.
Gate == INSTANCE RomGate WITH
  Depth <- RomDepth, Content <- Rom, None <- None,
  gate <- CASE state = "Done" -> "open"
            [] state = "Invalid" -> "dead"
            [] OTHER -> "shut",
  asked <- bus,
  rsp <- IF BusRvalid THEN Rom[romQ] ELSE None

ImplementsGate == Gate!GateSpec

\* The boot never hangs: the check ends in Done or in Invalid whichever way
\* the two halves of the work overtake one another.
CheckEnds == <>(state \in {"Done", "Invalid"})

-----------------------------------------------------------------------------
(* The inductive invariant behind the safety properties: how the blocks    *)
(* stay in step with one another.                                          *)

Eq(i) == HalfOf(digest, i) = HalfOf(expDigest, i)

Reading == {"ReadingLow", "ReadingHigh", "RomAhead", "KmacAhead"}

\* The counter: its flags follow its address, and while the checker owns the
\* ROM the output register shows the word at that address.
CounterInv ==
  /\ vld => req
  /\ ~vld => addr = 0
  /\ done => addr = Top
  /\ lnt <=> addr = NonTop - 1
  /\ vld /\ ~selQ => romQ = addr

\* The mux turns to the bus only in Done and reports only a fault.
MuxInv ==
  /\ selQ => state \in {"Done", "Invalid"}
  /\ selQQ => selQ
  /\ muxAlert => state = "Invalid"
  /\ state \notin {"Done", "Invalid"} => bus = None

\* Where the counter and KMAC are in each state of the FSM.
PhaseInv ==
  /\ state = "ReadingLow" => /\ addr < NonTop /\ Len(hashed) = addr
                             /\ kmacVld <=> vld
  /\ state \notin {"ReadingLow", "Invalid"} =>
       vld /\ addr >= NonTop /\ Len(hashed) = NonTop /\ ~kmacVld
  /\ state \in {"RomAhead", "Checking", "Done"} => done
  /\ state \in {"KmacAhead", "Checking", "Done", "Invalid"} => kmac = "answered"
  /\ kmacVld => vld /\ ~selQ /\ addr = Len(hashed) /\ addr < NonTop

\* What KMAC has absorbed is a prefix of the ROM below the digest.
HashInv == /\ Len(hashed) <= NonTop
           /\ \A i \in 1 .. Len(hashed) : hashed[i] = i - 1

\* Every word of the top the counter has passed is in EXP_DIGEST.
DigestInv ==
  state \notin {"ReadingLow", "Invalid"} =>
    \A i \in TopIdx : NonTop + i < addr \/ done => expDigest[i] = Rom[NonTop + i]

\* The comparator starts once, when the digests are complete, and its verdict
\* is about the halves it has passed.
CompareInv ==
  /\ start => state = "Checking"
  /\ state \in Reading => cstate = "Waiting"
  /\ state = "Checking" => (start <=> cstate = "Waiting")
  /\ state = "Done" => cstate = "Done"
  /\ state # "Invalid" =>
       /\ cstate = "Waiting" => caddr = 0 /\ matches
       /\ cstate = "Checking" => (matches <=> \A i \in 0 .. caddr - 1 : Eq(i))
       /\ cstate = "Done" => /\ caddr = TopCount - 1
                             /\ matches <=> \A i \in TopIdx : Eq(i)

IInv == /\ TypeOK /\ CounterInv /\ MuxInv /\ PhaseInv
        /\ HashInv /\ DigestInv /\ CompareInv
=============================================================================
