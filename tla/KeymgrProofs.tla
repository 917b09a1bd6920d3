------------------------------ MODULE KeymgrProofs ------------------------------
(***************************************************************************)
(* Proofs about the key manager, for every set of sideload slots and every *)
(* amount of entropy, whatever software orders, KMAC answers and a fault   *)
(* interrupts.  All of them rest on the inductive invariant IInv of        *)
(* Keymgr.                                                                 *)
(***************************************************************************)
EXTENDS Keymgr, TLAPS

-----------------------------------------------------------------------------
(* Keys. *)

\* What is derived from a key of the root is one, too.
LEMMA Derived ==
  ASSUME NEW W, NEW k \in Seq(W), k # <<>>, k[1] = "root", NEW x \in W, NEW y \in W
  PROVE  k \o <<x, y>> \in Seq(W) /\ k \o <<x, y>> # <<>> /\ (k \o <<x, y>>)[1] = "root"
OBVIOUS

\* The keys of the ladder are neither random nor, unless the root key is, constant.
LEMMA KeysDiffer ==
  ASSUME NEW f \in Live, NEW c \in CDIs
  PROVE  /\ Identity(f, c) # Random
         /\ Identity(f, c) = Bad <=> f = "Init" /\ ~rootValid
         /\ Random # Bad
<1> DEFINE W == {"root", c, "Creator", "OwnerInt", "Owner"}
           Rooted(k) == k \in Seq(W) /\ k # <<>> /\ k[1] = "root"
<1>1. \A k : Rooted(k) => k # Random /\ k # Bad
  BY DEF Random, Bad
<1>2. Random # Bad
  BY DEF Random, Bad
<1>4. Rooted(Root)
  BY DEF Root
<1>5. Rooted(CreatorKey(c))
  <2>1. c \in W /\ "Creator" \in W
    OBVIOUS
  <2> HIDE DEF W
  <2>2. QED
    BY <1>4, <2>1, Derived DEF CreatorKey
<1>6. Rooted(OwnerIntKey(c))
  <2>1. c \in W /\ "OwnerInt" \in W
    OBVIOUS
  <2> HIDE DEF W
  <2>2. QED
    BY <1>5, <2>1, Derived DEF OwnerIntKey
<1>7. Rooted(OwnerIntKey(c) \o <<c, "Owner">>)
  <2>1. c \in W /\ "Owner" \in W
    OBVIOUS
  <2> HIDE DEF W
  <2>2. QED
    BY <1>6, <2>1, Derived
<1> HIDE DEF Rooted
<1>8. QED
  BY <1>1, <1>2, <1>4, <1>5, <1>6, <1>7 DEF Identity, Live, Stages

\* One step up the ladder is one derivation.
LEMMA OneStepUp ==
  ASSUME NEW f \in Live \ {"Owner"}, NEW c \in CDIs, Identity(f, c) # Bad
  PROVE  Derive(Identity(f, c), <<c, NextStage[f]>>) = Identity(NextStage[f], c)
<1>1. Derive(Identity(f, c), <<c, NextStage[f]>>) = Identity(f, c) \o <<c, NextStage[f]>>
  BY KeysDiffer DEF Derive
<1>2. CASE f = "Init"
  BY <1>1, <1>2 DEF Identity, NextStage, CreatorKey
<1>3. CASE f = "Creator"
  BY <1>1, <1>3 DEF Identity, NextStage, OwnerIntKey
<1>4. CASE f = "OwnerInt"
  BY <1>1, <1>4 DEF Identity, NextStage
<1>5. QED
  BY <1>2, <1>3, <1>4 DEF Live, Stages

LEMMA LadderTyped ==
  ASSUME NEW f \in Live, NEW c \in CDIs
  PROVE  Identity(f, c) \in Values /\ Above(f, c) \in Values /\ Random \in Values /\ Bad \in Values
BY DEF Values, Above, NextStage, Live, Stages

-----------------------------------------------------------------------------
(* The signals of a cycle. *)

\* What is under way and what the blocks ask of each other.
LEMMA Orders ==
  ASSUME IInv
  PROVE  /\ op \in {"Idle", "Adv", "AdvAck", "Wait"}
         /\ op # "Idle" => OpReq /\ start
         /\ op = "Adv" => Enabled = {"adv"}
         /\ op = "Wait" => Enabled = {control.op}
         /\ op \in {"Idle", "AdvAck"} => Enabled = {}
         /\ control.op \in Generations => control.op \notin {"Advance", "Disable", "adv"}
<1>1. op \in {"Idle", "Adv", "AdvAck", "Wait"}
  BY DEF IInv, TypeOK
<1>2. op # "Idle" => OpReq /\ start
  BY DEF IInv, OrderInv, OpReq
<1>3. QED
  BY <1>1, <1>2 DEF Enabled, IInv, OrderInv, Generations

\* When KMAC's answer ends a derivation, and when it ends the order.
LEMMA Completion ==
  ASSUME IInv, NEW i
  PROVE  /\ Done(i) <=> kmac.state = "OpWait" /\ i.kmac # "busy"
         /\ OpAck(i) <=> Done(i) /\ (op = "Wait" \/ (op = "Adv" /\ cnt = 1))
         /\ OpUpdate(i) <=> Done(i) /\ op = "Adv" /\ cnt = 0
         /\ Done(i) => op \in {"Adv", "Wait"}
         /\ OpDone(i) => start
         /\ op # "Idle" => (OpDone(i) <=> OpAck(i))
<1>1. Done(i) <=> kmac.state = "OpWait" /\ i.kmac # "busy"
  BY Orders DEF Done, IInv, KmacInv
<1>2. /\ OpAck(i) <=> Done(i) /\ (op = "Wait" \/ (op = "Adv" /\ cnt = 1))
      /\ OpUpdate(i) <=> Done(i) /\ op = "Adv" /\ cnt = 0
  BY Orders DEF OpAck, OpUpdate, IInv, CounterInv
<1>3. Done(i) => op \in {"Adv", "Wait"}
  BY <1>1 DEF IInv, KmacInv
<1>4. OpDone(i) => start
  BY <1>2, <1>3, Orders DEF OpDone, InvalidOp, IInv, OrderInv
<1>5. op # "Idle" => (OpDone(i) <=> OpAck(i))
  BY Orders DEF OpDone
<1>6. QED
  BY <1>1, <1>2, <1>3, <1>4, <1>5

\* Software changes nothing while its order stands, and the order stands until it is done.
LEMMA Software ==
  ASSUME IInv, NEW i, Clock(i)
  PROVE  /\ start => control' = control /\ (start' <=> ~OpDone(i))
         /\ control' \in Controls /\ start' \in BOOLEAN /\ clear' \in Clears
         /\ start' /\ ~start => control' = control
<1>1. CASE start
  <2>1. start' = (start /\ ~OpDone(i)) /\ UNCHANGED <<control, clear>>
    BY <1>1 DEF Clock, Registers
  <2>2. QED
    BY <1>1, <2>1 DEF IInv, TypeOK
<1>2. CASE ~start
  <2>1. start' \in BOOLEAN /\ control' \in Controls /\ clear' \in Clears
    BY <1>2 DEF Clock, Registers, IInv, TypeOK
  <2>2. start' => control' = control
    BY <1>2 DEF Clock, Registers
  <2>3. QED
    BY <1>2, <2>1, <2>2
<1>3. QED
  BY <1>1, <1>2

\* The checks of the key manager on itself.
LEMMA NoFault ==
  ASSUME IInv
  PROVE  /\ ~StateChangeErr /\ ~OpStateErr /\ ~CommandChanged /\ ~SelErr
         /\ start \/ cnt = 0
<1>1. ~StateChangeErr /\ ~OpStateErr
  BY DEF StateChangeErr, OpStateErr, AdvanceSel, DisableSel, IInv, OrderInv
<1>2. ~CommandChanged /\ ~SelErr
  BY DEF CommandChanged, SelErr, IInv, KmacInv, DataInv
<1>3. start \/ cnt = 0
  BY Orders DEF IInv, OrderInv, CounterInv
<1>4. QED
  BY <1>1, <1>2, <1>3

\* The moves of the main FSM.
LEMMA FsmMoves ==
  ASSUME IInv, NEW i, Clock(i)
  PROVE  /\ fsm = "Reset" => fsm' \in {"Reset", "Wipe"} \/ (fsm' = "EntropyReseed" /\ AdvanceSel)
         /\ fsm = "EntropyReseed" => fsm' \in {"EntropyReseed", "Random"}
         /\ fsm = "Random" => fsm' = IF cnt = EntropyRounds - 1 THEN "RootKey" ELSE "Random"
         /\ fsm = "RootKey" => fsm' = "Init"
         /\ fsm \in Live => \/ fsm' = fsm /\ ~Fault(i)
                               /\ (OpAck(i) => ~DisableSel /\ (AdvanceSel => SyncErr(i)))
                            \/ fsm' = "Wipe" /\ Fault(i)
                            \/ fsm' = "Disabled" /\ OpAck(i)
                            \/ fsm' = NextStage[fsm] /\ fsm # "Owner" /\ OpAck(i) /\ AdvanceSel
                               /\ ~SyncErr(i) /\ ~Fault(i)
         /\ fsm = "Disabled" => fsm' \in {"Disabled", "Wipe"}
         /\ fsm = "Wipe" => fsm' = IF start THEN "Wipe" ELSE "Invalid"
         /\ fsm = "Invalid" => fsm' = "Invalid"
         /\ changed' <=> fsm' # fsm /\ fsm' \in {"RootKey"} \cup Stages
BY DEF Clock, Fsm, FromLive, FromWipe, Live, Stages

\* The moves of the operation FSM and its counter.
LEMMA OpMoves ==
  ASSUME IInv, NEW i, Clock(i)
  PROVE  /\ op = "Idle" => op' = IF OpReq /\ control.op \in {"Advance", "Disable"} THEN "Adv"
                                 ELSE IF OpReq THEN "Wait" ELSE "Idle"
         /\ op = "Adv" => op' = IF OpAck(i) THEN "Idle" ELSE IF OpUpdate(i) THEN "AdvAck" ELSE "Adv"
         /\ op = "AdvAck" => op' = "Adv"
         /\ op = "Wait" => op' = IF OpAck(i) THEN "Idle" ELSE "Wait"
         /\ cnt' = IF OpAck(i) \/ (fsm = "Random" /\ cnt = EntropyRounds - 1) THEN 0
                   ELSE IF OpUpdate(i) \/ fsm = "Random" THEN cnt + 1 ELSE cnt
BY DEF Clock, OpState, Counter

\* The fields of the registers.
LEMMA Fields ==
  ASSUME IInv
  PROVE  /\ control.op \in {"Advance", "Disable"} \cup Generations /\ control.cdi \in CDIs
         /\ control.refused \in BOOLEAN
         /\ control.op = "Disable" => ~control.refused
         /\ errs.sync \in BOOLEAN /\ errs.fault \in BOOLEAN /\ errs.async \in BOOLEAN
         /\ kmac.state \in {"Idle", "Tx", "OpWait", "Clean"} /\ kmac.invalid \in BOOLEAN
         /\ keys \in [CDIs -> Values]
         /\ fsm \in Live \cup {"Reset", "EntropyReseed", "Random", "RootKey", "Disabled", "Wipe",
                               "Invalid"}
         /\ cnt \in Nat
<1>1. control \in Controls
  BY DEF IInv, TypeOK
<1>2. /\ control.op \in {"Advance", "Disable"} \cup Generations /\ control.cdi \in CDIs
      /\ control.refused \in BOOLEAN
      /\ control.op = "Disable" => ~control.refused
  BY <1>1 DEF Controls, Order, Generations, CDIs
<1>3. QED
  BY <1>2 DEF IInv, TypeOK

-----------------------------------------------------------------------------
(* Every part of the invariant is preserved. *)

LEMMA OrderStep == ASSUME IInv, NEW i, Clock(i) PROVE OrderInv'
<1> USE Orders, Completion, Software, FsmMoves, OpMoves
<1>1. (op # "Idle" => start /\ fsm \in Live \cup {"Disabled", "Invalid", "Wipe"})'
  <2>1. op' # "Idle" => OpReq /\ start /\ ~OpDone(i)
    <3>1. op' # "Idle" => OpReq /\ ~OpAck(i)
      OBVIOUS
    <3>2. OpReq => start
      BY DEF OpReq
    <3>3. QED
      BY <3>1, <3>2 DEF OpDone
  <2>2. OpReq => fsm \in Live \cup {"Disabled", "Invalid", "Wipe"}
    BY DEF OpReq
  <2>3. fsm \in Live \cup {"Disabled", "Invalid", "Wipe"} => fsm' \in Live \cup {"Disabled", "Invalid", "Wipe"}
    BY DEF Live, Stages, NextStage
  <2>4. QED
    BY <2>1, <2>2, <2>3
<1>2. op' # "Idle" => start /\ control' = control
  BY DEF OpReq
<1>3. (op \in {"Adv", "AdvAck"} => control.op \in {"Advance", "Disable"})'
  BY <1>2 DEF IInv, OrderInv
<1>4. (op = "Wait" => control.op \in Generations)'
  BY <1>2, Fields DEF IInv, OrderInv
<1>5. (op # "Idle" => (hwSel <=> control.op = "GenHw"))'
  BY <1>2 DEF Clock, Select
<1>6. (fsm \in {"EntropyReseed", "Random", "RootKey"} => start /\ control.op = "Advance")'
  <2>1. fsm' \in {"EntropyReseed", "Random", "RootKey"} =>
          fsm \in {"Reset", "EntropyReseed", "Random"} /\ AdvanceSel
    BY Fields DEF IInv, OrderInv, AdvanceSel, Live, Stages, NextStage
  <2>2. fsm \in {"Reset", "EntropyReseed", "Random"} /\ AdvanceSel => ~OpDone(i)
    BY DEF OpDone, OpReq, InvalidOp, Live, Stages, IInv, OrderInv
  <2>3. QED
    BY <2>1, <2>2 DEF AdvanceSel
<1>7. (changed => control.op = "Advance")'
  <2>1. changed' => AdvanceSel
    BY Fields DEF IInv, OrderInv, AdvanceSel, Live, Stages, NextStage
  <2>2. QED
    BY <2>1 DEF AdvanceSel
<1>8. QED
  BY <1>1, <1>3, <1>4, <1>5, <1>6, <1>7 DEF OrderInv

LEMMA CounterStep == ASSUME IInv, NEW i, Clock(i) PROVE CounterInv'
<1> USE Orders, Completion, OpMoves, Fields
<1>1. op # "Idle" => fsm # "Random"
  BY DEF IInv, OrderInv, Live, Stages
<1>2. CASE op = "Idle"
  <2>1. ~OpAck(i) /\ ~OpUpdate(i) /\ op' \in {"Idle", "Adv", "Wait"}
    BY <1>2
  <2>2. fsm # "Random" => cnt = 0 /\ cnt' = 0
    BY <1>2, <2>1 DEF IInv, CounterInv
  <2>3. CASE fsm = "Random"
    <3>1. op' = "Idle"
      BY <1>2, <2>3 DEF OpReq, Live, Stages
    <3>2. EntropyRounds \in Nat \ {0} /\ cnt < EntropyRounds
      BY <2>3, KeymgrAssumption DEF IInv, CounterInv
    <3>3. cnt = EntropyRounds - 1 => fsm' = "RootKey" /\ cnt' = 0
      BY <2>3, FsmMoves
    <3>4. cnt # EntropyRounds - 1 => fsm' = "Random" /\ cnt' = cnt + 1
      BY <2>1, <2>3, FsmMoves
    <3>5. QED
      BY <3>1, <3>2, <3>3, <3>4 DEF CounterInv
  <2>4. CASE fsm # "Random"
    BY <2>1, <2>2, <2>4, KeymgrAssumption DEF CounterInv
  <2>5. QED
    BY <2>3, <2>4
<1>3. CASE op # "Idle"
  <2>1. fsm' # "Random"
    BY <1>1, <1>3, FsmMoves DEF IInv, OrderInv, Live, Stages, NextStage
  <2>2. op \in {"Idle", "Wait"} => cnt = 0
    BY <1>1, <1>3 DEF IInv, CounterInv
  <2>3. (op = "AdvAck" => cnt = 1) /\ (op = "Adv" => cnt \in {0, 1})
    BY DEF IInv, CounterInv
  <2>4. QED
    BY <1>1, <1>3, <2>1, <2>2, <2>3 DEF CounterInv
<1>4. QED
  BY <1>2, <1>3

\* What the KMAC interface is given changes only with an operation, or when the keys are wiped.
LEMMA GivenStep ==
  ASSUME IInv, NEW i, Clock(i), op \in {"Adv", "Wait"}, ~Done(i), fsm' # "Wipe"
  PROVE  /\ op' = op /\ cnt' = cnt /\ keys' = keys /\ fsm' = fsm
         /\ (Refused' <=> Refused) /\ Given' = Given
<1>1. ~OpAck(i) /\ ~OpUpdate(i) /\ ~OpDone(i) /\ start
  BY Orders, Completion
<1>2. start' /\ control' = control
  BY <1>1, Software
<1>3. fsm \in Live \cup {"Disabled", "Invalid"} /\ fsm' = fsm
  BY <1>1, FsmMoves DEF IInv, OrderInv
<1>4. op' = op /\ cnt' = cnt
  BY <1>1, <1>3, OpMoves DEF Live, Stages
<1>5. Update(i) = "Idle"
  BY <1>1, <1>3 DEF Update, Live, Stages
<1>6. keys' = keys
  BY <1>5 DEF Clock, KeyState
<1>7. StageSel' = StageSel /\ CdiSel' = CdiSel
  BY <1>1, <1>2, <1>3, <1>4 DEF StageSel, CdiSel, AdvanceSel, DisableSel, OpReq
<1>h. hwSel' <=> hwSel
  BY <1>2, <1>4, OrderStep DEF OrderInv, IInv
<1>p. Purpose' = Purpose
  BY <1>2, <1>h DEF Purpose
<1>8. (Refused' <=> Refused) /\ Message' = Message
  BY <1>2, <1>4, <1>6, <1>7, <1>p DEF Refused, Message
<1>9. QED
  BY <1>3, <1>4, <1>6, <1>8 DEF Given

\* The operation stays enabled until KMAC has answered.
LEMMA EnabledStep ==
  ASSUME IInv, NEW i, Clock(i), op \in {"Adv", "Wait"}, ~Done(i)
  PROVE  op' = op /\ Enabled' = Enabled
<1>1. op' = op /\ start /\ control' = control
  BY Orders, Completion, OpMoves, Software
<1>2. OpReq'
  BY <1>1, OrderStep DEF OrderInv, OpReq
<1>3. QED
  BY <1>1, <1>2, Orders DEF Enabled

LEMMA KmacStep == ASSUME IInv, NEW i, Clock(i) PROVE KmacInv'
<1> USE Orders, Fields
<1>1. kmac = [state |-> kmac.state, sent |-> kmac.sent, invalid |-> kmac.invalid,
              command |-> kmac.command]
  BY DEF IInv, KmacInv
<1>2. CASE kmac.state = "Idle" /\ Enabled = {}
  <2>1. kmac' = kmac
    BY <1>2 DEF Clock, KmacIf
  <2>2. op = "Idle" /\ op' # "AdvAck"
    BY <1>2, OpMoves DEF IInv, KmacInv, OrderInv
  <2>3. QED
    BY <1>1, <1>2, <2>1, <2>2 DEF KmacInv, IInv
<1>3. CASE kmac.state = "Idle" /\ Enabled # {}
  <2>1. kmac' = [state |-> "Tx", sent |-> <<>>, invalid |-> FALSE, command |-> Enabled]
    BY <1>1, <1>3 DEF Clock, KmacIf, IInv, KmacInv
  <2>2. op \in {"Adv", "Wait"} /\ ~Done(i)
    BY <1>3, Completion
  <2>3. QED
    BY <2>1, <2>2, EnabledStep DEF KmacInv
<1>4. CASE kmac.state = "Tx"
  <2>1. kmac' = [state |-> IF i.kmac = "busy" THEN "Tx" ELSE "OpWait",
                 sent |-> IF kmac.sent \in {<<>>, Sent} THEN Sent ELSE Random,
                 invalid |-> kmac.invalid \/ Refused, command |-> kmac.command]
    BY <1>1, <1>4 DEF Clock, KmacIf
  <2>2. op \in {"Adv", "Wait"} /\ ~Done(i) /\ kmac.command = Enabled
    BY <1>4, Completion DEF IInv, KmacInv
  <2>3. CASE fsm' = "Wipe"
    BY <2>1, <2>2, <2>3, EnabledStep DEF KmacInv
  <2>4. CASE fsm' # "Wipe"
    <3>1. fsm # "Wipe"
      BY <2>2, <2>4, FsmMoves
    <3>2. kmac.sent \in {<<>>, Given} /\ (kmac.invalid => Refused) /\ Sent = Given
      BY <1>4, <3>1 DEF IInv, KmacInv, Sent, Given
    <3>3. /\ kmac'.sent = Given /\ (kmac'.invalid <=> Refused)
          /\ kmac'.state \in {"Tx", "OpWait"} /\ kmac'.command = Enabled
      BY <2>1, <2>2, <3>2
    <3>4. Given' = Given /\ (Refused' <=> Refused)
      BY <2>2, <2>4, GivenStep
    <3>5. QED
      BY <2>1, <2>2, <3>3, <3>4, EnabledStep DEF KmacInv
  <2>5. QED
    BY <2>3, <2>4
<1>5. CASE kmac.state = "OpWait" /\ i.kmac = "busy"
  <2>1. kmac' = kmac
    BY <1>1, <1>5 DEF Clock, KmacIf
  <2>2. op \in {"Adv", "Wait"} /\ ~Done(i) /\ kmac.command = Enabled
    BY <1>5, Completion DEF IInv, KmacInv
  <2>3. CASE fsm' = "Wipe"
    BY <1>1, <1>5, <2>1, <2>2, <2>3, EnabledStep DEF KmacInv
  <2>4. CASE fsm' # "Wipe"
    <3>1. fsm # "Wipe"
      BY <2>2, <2>4, FsmMoves
    <3>2. kmac.sent = Given /\ (kmac.invalid <=> Refused)
      BY <1>5, <3>1 DEF IInv, KmacInv
    <3>3. Given' = Given /\ (Refused' <=> Refused)
      BY <2>2, <2>4, GivenStep
    <3>4. QED
      BY <1>1, <1>5, <2>1, <2>2, <3>2, <3>3, EnabledStep DEF KmacInv
  <2>5. QED
    BY <2>3, <2>4
<1>6. CASE kmac.state = "OpWait" /\ i.kmac # "busy"
  <2>1. kmac' = [kmac EXCEPT !.state = "Clean"]
    BY <1>6 DEF Clock, KmacIf
  <2>2. kmac' = [state |-> "Clean", sent |-> kmac.sent, invalid |-> kmac.invalid,
                 command |-> kmac.command]
    BY <1>1, <2>1
  <2>3. op' = "AdvAck" \/ (op' = "Idle" /\ ~start')
    BY <1>6, Completion, OpMoves, Software DEF IInv, CounterInv
  <2>4. QED
    BY <2>2, <2>3 DEF KmacInv
<1>7. CASE kmac.state = "Clean"
  <2>1. Enabled = {} /\ (op = "AdvAck" \/ (op = "Idle" /\ ~start))
    BY <1>7 DEF IInv, KmacInv
  <2>2. kmac' = [state |-> "Idle", sent |-> <<>>, invalid |-> FALSE, command |-> {}]
    BY <1>1, <1>7, <2>1 DEF Clock, KmacIf
  <2>3. op' # "AdvAck"
    BY <2>1, OpMoves
  <2>4. QED
    BY <2>2, <2>3 DEF KmacInv
<1>8. QED
  BY <1>2, <1>3, <1>4, <1>5, <1>6, <1>7

LEMMA DataStep == ASSUME IInv, NEW i, Clock(i) PROVE DataInv'
<1> USE Orders, Completion, OpMoves
<1>1. op = "Idle" /\ ~start => op' = "Idle"
  BY DEF OpReq
<1>2. op # "Idle" /\ ~OpDone(i) => op' # "Idle"
  OBVIOUS
<1>3. dataEn \in {"Idle", "HwEn", "SwEn", "Dis", "Wait"}
  BY DEF IInv, TypeOK
<1>4. (\A d \in Dests : slots[d].valid => slots[d].tracked)'
  BY DEF Clock, Sideload, IInv, DataInv
<1>5. CASE dataEn = "Idle"
  <2>1. CASE op = "Idle"
    <3>1. dataEn' = "Idle"
      BY <1>5, <2>1 DEF Clock, DataEnable
    <3>2. op' # "Idle" => kmac'.state = "Idle"
      <4>1. op' # "Idle" => start
        BY <1>1, <2>1
      <4>2. op' # "Idle" => kmac.state = "Idle"
        BY <2>1, <4>1, Fields DEF IInv, KmacInv
      <4>3. QED
        BY <2>1, <4>2 DEF Clock, KmacIf
    <3>3. QED
      BY <1>4, <3>1, <3>2 DEF DataInv
  <2>2. CASE op # "Idle"
    <3>1. kmac.state = "Idle" /\ op # "AdvAck" /\ ~Done(i)
      BY <1>5, <2>2 DEF IInv, DataInv, KmacInv
    <3>2. op' = op /\ op \in {"Adv", "Wait"}
      BY <2>2, <3>1
    <3>3. dataEn' = IF op = "Adv" THEN "Dis" ELSE IF hwSel THEN "HwEn" ELSE "SwEn"
      BY <1>5, <3>2 DEF Clock, DataEnable, IInv, OrderInv
    <3>4. QED
      BY <1>4, <3>2, <3>3 DEF DataInv
  <2>3. QED
    BY <2>1, <2>2
<1>6. CASE dataEn \in {"HwEn", "SwEn"}
  <2>1. op = "Wait"
    BY <1>6 DEF IInv, DataInv
  <2>2. OpDone(i) => dataEn' = "Wait" /\ ~start'
    BY <1>6, Software DEF Clock, DataEnable
  <2>3. ~OpDone(i) => op' = "Wait" /\ dataEn' \in {"HwEn", "SwEn", "Dis"}
    BY <1>6, <2>1 DEF Clock, DataEnable
  <2>4. QED
    BY <1>4, <2>2, <2>3 DEF DataInv
<1>7. CASE dataEn = "Dis"
  <2>1. op # "Idle"
    BY <1>7 DEF IInv, DataInv
  <2>2. dataEn' = IF OpDone(i) THEN "Wait" ELSE "Dis"
    BY <1>7 DEF Clock, DataEnable
  <2>3. OpDone(i) => ~start'
    BY Software
  <2>4. QED
    BY <1>2, <1>4, <2>1, <2>2, <2>3 DEF DataInv
<1>8. CASE dataEn = "Wait"
  <2>1. ~start /\ op = "Idle"
    BY <1>8 DEF IInv, DataInv
  <2>2. dataEn' = "Idle" /\ op' = "Idle"
    BY <1>1, <1>8, <2>1 DEF Clock, DataEnable
  <2>3. QED
    BY <1>4, <2>2 DEF DataInv
<1>9. QED
  BY <1>3, <1>5, <1>6, <1>7, <1>8

LEMMA ErrStep == ASSUME IInv, NEW i, Clock(i) PROVE ErrInv'
<1>1. errs'.sync \/ errs'.fault => ~OpDone(i) /\ (errs.sync \/ errs.fault \/ OpUpdate(i))
  BY DEF Clock, Errors, SyncErr, SyncFault, ErrVld
<1>2. CASE OpUpdate(i)
  <2>1. op = "Adv" /\ cnt = 0 /\ ~OpAck(i)
    BY <1>2, Completion
  <2>2. fsm # "Random"
    BY <2>1 DEF IInv, OrderInv, Live, Stages
  <2>3. QED
    BY <1>2, <2>1, <2>2, OpMoves DEF ErrInv
<1>3. CASE ~OpUpdate(i) /\ (errs.sync \/ errs.fault) /\ ~OpDone(i)
  <2>1. op \in {"Adv", "AdvAck"} /\ cnt = 1 /\ ~OpAck(i)
    BY <1>3, Completion DEF IInv, ErrInv
  <2>2. fsm # "Random"
    BY <2>1 DEF IInv, OrderInv, Live, Stages
  <2>3. QED
    BY <1>3, <2>1, <2>2, OpMoves DEF ErrInv
<1>4. QED
  BY <1>1, <1>2, <1>3 DEF ErrInv

\* The input of an advance in a live state.
LEMMA Input ==
  ASSUME IInv, fsm \in Live, op = "Adv", control.op = "Advance"
  PROVE  LET c == IF cnt = 0 THEN "Sealing" ELSE "Attestation" IN
         /\ AdvanceSel /\ ~DisableSel /\ CdiSel = c
         /\ Refused <=> fsm # "Owner" /\ (keys[c] = Bad \/ control.refused)
         /\ Message = IF fsm = "Owner" THEN Random ELSE Derive(keys[c], <<c, NextStage[fsm]>>)
<1> DEFINE c == IF cnt = 0 THEN "Sealing" ELSE "Attestation"
<1>1. AdvanceSel /\ ~DisableSel /\ OpReq
  BY Orders DEF AdvanceSel, DisableSel
<1>2. CdiSel = c
  BY <1>1 DEF CdiSel, IInv, CounterInv
<1>3. StageSel = NextStage[fsm] /\ (StageSel = "Disable" <=> fsm = "Owner")
  BY <1>1 DEF StageSel, NextStage, Live, Stages
<1>4. Refused <=> fsm # "Owner" /\ (keys[c] = Bad \/ control.refused)
  BY <1>2, <1>3 DEF Refused
<1>5. Message = IF fsm = "Owner" THEN Random ELSE Derive(keys[c], <<c, NextStage[fsm]>>)
  BY <1>2, <1>3 DEF Message
<1>6. QED
  BY <1>1, <1>2, <1>4, <1>5

\* The outcome of a derivation in a live state that no fault has interrupted.
LEMMA Outcome ==
  ASSUME IInv, NEW i, fsm \in Live, Done(i), ~AsyncFault(i)
  PROVE  /\ kmac.sent = Given /\ (kmac.invalid <=> Refused)
         /\ Update(i) = IF SyncFault(i) THEN "Wipe" ELSE IF SyncErr(i) THEN "Idle" ELSE "Kmac"
         /\ control.op = "Advance" /\ ~Fault(i) => (SyncErr(i) <=> errs.sync \/ Refused)
         /\ OpAck(i) \/ OpUpdate(i)
         /\ errs.fault => SyncFault(i)
<1>1. kmac.state = "OpWait" /\ fsm \notin {"Wipe", "Random", "RootKey", "Invalid", "Disabled"}
  BY Completion DEF Live, Stages
<1>2. kmac.sent = Given /\ (kmac.invalid <=> Refused)
  BY <1>1 DEF IInv, KmacInv
<1>3. OpAck(i) \/ OpUpdate(i)
  BY Completion DEF IInv, CounterInv
<1>4. Update(i) = IF SyncFault(i) THEN "Wipe" ELSE IF SyncErr(i) THEN "Idle" ELSE "Kmac"
  BY <1>1, <1>3 DEF Update
<1>5. control.op = "Advance" => ~InvalidOp
  BY <1>1 DEF InvalidOp, AdvanceSel, Live, Stages
<1>6. OpUpdate(i) \/ OpDone(i)
  BY <1>3, Completion
<1>7. control.op = "Advance" /\ ~Fault(i) => (SyncErr(i) <=> errs.sync \/ Refused)
  BY <1>1, <1>2, <1>5, <1>6 DEF SyncErr, ErrVld
<1>8. errs.fault => SyncFault(i)
  BY DEF SyncFault
<1>9. QED
  BY <1>2, <1>3, <1>4, <1>7, <1>8

\* What a cycle does to the keys.
LEMMA KeysMove ==
  ASSUME IInv, NEW i, Clock(i)
  PROVE  /\ Update(i) \in {"Wipe", "Random"} => keys' = [c \in CDIs |-> Random]
         /\ Update(i) = "Root" => keys' = [c \in CDIs |-> IF rootValid THEN Root ELSE Bad]
         /\ Update(i) = "Kmac" => keys' = IF control.op \in Generations THEN keys
                                          ELSE [keys EXCEPT ![CdiSel] = kmac.sent]
         /\ Update(i) = "Idle" => keys' = keys
         /\ Update(i) \in {"Wipe", "Random", "Root", "Kmac", "Idle"}
<1>1. Update(i) \in {"Wipe", "Random", "Root", "Kmac", "Idle"}
  BY DEF Update
<1>2. QED
  BY <1>1 DEF Clock, KeyState

LEMMA LadderStep == ASSUME IInv, NEW i, Clock(i) PROVE LadderInv'
<1> USE Orders, Fields
<1>0. \A f \in Live, c \in CDIs : Identity(f, c)' = Identity(f, c) /\ Above(f, c)' = Above(f, c)
  BY DEF Clock, Identity, Above
<1>1. CASE fsm \notin Live /\ fsm' \in Live
  <2>1. fsm = "RootKey" /\ fsm' = "Init" /\ op = "Idle" /\ start
    BY <1>1, FsmMoves DEF IInv, OrderInv, Live, Stages
  <2>2. cnt' = 0
    BY <2>1, OpMoves, Completion DEF IInv, CounterInv
  <2>3. keys' = [c \in CDIs |-> IF rootValid THEN Root ELSE Bad]
    BY <2>1, KeysMove DEF Update
  <2>4. \A c \in CDIs : keys'[c] = Identity("Init", c)
    BY <2>3 DEF Identity
  <2>5. QED
    BY <1>0, <2>1, <2>2, <2>4 DEF LadderInv, Live
<1>2. CASE fsm \in Live /\ fsm' = fsm /\ ~Done(i)
  <2>1. ~OpAck(i) /\ ~OpUpdate(i) /\ fsm \notin {"Random", "RootKey", "Wipe"}
    BY <1>2, Completion DEF Live, Stages
  <2>2. keys' = keys /\ cnt' = cnt
    BY <2>1, OpMoves, KeysMove DEF Update
  <2>3. cnt = 1 => op # "Idle" /\ ~OpDone(i) /\ control' = control
    BY <2>1, Completion, Software DEF IInv, CounterInv
  <2>4. cnt = 1 => (errs'.sync <=> errs.sync) /\ (errs'.fault <=> errs.fault)
    BY <2>1, <2>3 DEF Clock, Errors, SyncErr, SyncFault, ErrVld
  <2>5. QED
    BY <1>0, <1>2, <2>2, <2>3, <2>4 DEF IInv, LadderInv, CDIs
<1>3. CASE fsm \in Live /\ fsm' = fsm /\ OpUpdate(i)
  <2>1. ~Fault(i) /\ ~AsyncFault(i)
    BY <1>3, FsmMoves DEF Fault, Live, Stages, NextStage
  <2>2. Done(i) /\ op = "Adv" /\ cnt = 0 /\ start /\ ~OpDone(i) /\ ~OpAck(i)
    BY <1>3, Completion
  <2>3. cnt' = 1 /\ control' = control
    BY <1>3, <2>2, OpMoves, Software DEF Live, Stages
  <2> SUFFICES ASSUME control.op = "Advance", ~errs'.fault
               PROVE  /\ keys'["Attestation"] = Identity(fsm, "Attestation")
                      /\ keys'["Sealing"] = IF errs'.sync THEN Identity(fsm, "Sealing")
                                            ELSE Above(fsm, "Sealing")
                      /\ errs'.sync <=> fsm # "Owner" /\ (keys'["Attestation"] = Bad \/ control.refused)
    BY <1>0, <1>3, <2>3 DEF LadderInv, CDIs
  <2>4. ~SyncFault(i) /\ (errs'.sync <=> SyncErr(i))
    BY <2>2 DEF Clock, Errors
  <2>5. ~errs.sync
    BY <2>2 DEF IInv, ErrInv
  <2>6. (errs'.sync <=> Refused) /\ kmac.sent = Given
    BY <1>3, <2>1, <2>2, <2>4, <2>5, Outcome
  <2>7. keys["Sealing"] = Identity(fsm, "Sealing") /\ keys["Attestation"] = Identity(fsm, "Attestation")
    BY <1>3, <2>2 DEF IInv, LadderInv, CDIs
  <2>8. /\ CdiSel = "Sealing" /\ (Refused <=> fsm # "Owner" /\ (keys["Sealing"] = Bad \/ control.refused))
        /\ Message = IF fsm = "Owner" THEN Random
                     ELSE Derive(keys["Sealing"], <<"Sealing", NextStage[fsm]>>)
    BY <1>3, <2>2, Input
  <2>9. keys["Sealing"] = Bad <=> keys["Attestation"] = Bad
    BY <1>3, <2>7, KeysDiffer DEF CDIs
  <2>10. keys' = IF SyncErr(i) THEN keys ELSE [keys EXCEPT !["Sealing"] = Given]
    BY <1>3, <2>1, <2>2, <2>4, <2>6, <2>8, Outcome, KeysMove DEF Generations
  <2>11. ~Refused => Given = Above(fsm, "Sealing")
    BY <1>3, <2>7, <2>8, OneStepUp DEF Given, Above, CDIs
  <2>12. keys \in [CDIs -> Values] /\ "Sealing" \in CDIs /\ "Attestation" \in CDIs
    BY DEF CDIs
  <2>13. QED
    BY <2>4, <2>6, <2>7, <2>8, <2>9, <2>10, <2>11, <2>12
<1>4. CASE fsm \in Live /\ fsm' \in Live /\ OpAck(i)
  <2>1. ~Fault(i) /\ ~AsyncFault(i) /\ ~SyncFault(i)
    BY <1>4, FsmMoves, Completion DEF Fault, Live, Stages, NextStage
  <2>2. Done(i) /\ cnt' = 0 /\ start /\ ~errs.fault
    BY <1>4, <2>1, Completion, OpMoves DEF SyncFault
  <2>3. SUFFICES \A c \in CDIs : keys'[c] = Identity(fsm', c)
    BY <1>0, <1>4, <2>2 DEF LadderInv
  <2>4. ~DisableSel
    BY <1>4, <2>1, FsmMoves DEF AdvanceSel, DisableSel, Live, Stages
  <2>5. CASE op = "Wait"
    <3>1. control.op \in Generations /\ cnt = 0 /\ ~AdvanceSel
      BY <1>4, <2>5 DEF IInv, OrderInv, CounterInv, AdvanceSel, Live, Stages
    <3>2. fsm' = fsm
      BY <1>4, <2>1, <2>4, <3>1, FsmMoves DEF Live, Stages
    <3>3. keys' = keys
      BY <1>4, <2>1, <2>2, <3>1, Outcome, KeysMove
    <3>4. QED
      BY <1>4, <3>1, <3>2, <3>3 DEF IInv, LadderInv
  <2>6. CASE op = "Adv"
    <3>1. control.op = "Advance" /\ cnt = 1
      BY <1>4, <2>2, <2>4, <2>6, Completion DEF IInv, OrderInv, DisableSel
    <3>2. /\ AdvanceSel /\ CdiSel = "Attestation"
          /\ Refused <=> fsm # "Owner" /\ (keys["Attestation"] = Bad \/ control.refused)
          /\ Message = IF fsm = "Owner" THEN Random
                       ELSE Derive(keys["Attestation"], <<"Attestation", NextStage[fsm]>>)
      BY <1>4, <2>6, <3>1, Input
    <3>3. /\ keys["Attestation"] = Identity(fsm, "Attestation")
          /\ keys["Sealing"] = IF errs.sync THEN Identity(fsm, "Sealing") ELSE Above(fsm, "Sealing")
          /\ errs.sync <=> Refused
      BY <1>4, <2>2, <3>1, <3>2 DEF IInv, LadderInv
    <3>4. (SyncErr(i) <=> Refused) /\ kmac.sent = Given
      BY <1>4, <2>1, <2>2, <3>1, <3>3, Outcome
    <3>5. CASE SyncErr(i)
      <4>1. fsm' = fsm
        BY <1>4, <2>1, <2>4, <3>5, FsmMoves DEF Live, Stages
      <4>2. keys' = keys
        BY <1>4, <2>1, <2>2, <3>5, Outcome, KeysMove
      <4>3. QED
        BY <3>3, <3>4, <3>5, <4>1, <4>2 DEF CDIs
    <3>6. CASE ~SyncErr(i)
      <4>1. fsm' = NextStage[fsm] /\ fsm # "Owner"
        BY <1>4, <2>1, <2>4, <3>2, <3>6, FsmMoves DEF Live, Stages
      <4>2. keys' = [keys EXCEPT !["Attestation"] = Given]
        BY <1>4, <2>1, <2>2, <3>1, <3>2, <3>4, <3>6, Outcome, KeysMove DEF Generations
      <4>3. Given = Identity(fsm', "Attestation")
        BY <1>4, <3>2, <3>3, <3>4, <3>6, <4>1, OneStepUp DEF Given, CDIs
      <4>4. keys["Sealing"] = Identity(fsm', "Sealing")
        BY <3>3, <3>4, <3>6, <4>1 DEF Above
      <4>5. QED
        BY <4>2, <4>3, <4>4 DEF CDIs
    <3>7. QED
      BY <3>5, <3>6
  <2>7. QED
    BY <1>4, <2>2, <2>5, <2>6, Completion
<1>5. fsm \in Live /\ fsm' \in Live => fsm' = fsm \/ OpAck(i)
  BY FsmMoves DEF Live, Stages
<1>6. Done(i) => OpAck(i) \/ OpUpdate(i)
  BY Completion DEF IInv, CounterInv
<1>7. QED
  BY <1>1, <1>2, <1>3, <1>4, <1>5, <1>6 DEF LadderInv

\* A derivation in a state without keys is one of random bits.
LEMMA RandomInput ==
  ASSUME IInv, NEW i, fsm \in {"Disabled", "Invalid"}, Done(i)
  PROVE  kmac.sent = Random
<1>1. kmac.state = "OpWait" /\ fsm # "Wipe"
  BY Completion
<1>2. kmac.sent = Given
  BY <1>1 DEF IInv, KmacInv
<1>3. StageSel = "Disable"
  BY DEF StageSel, Live, Stages
<1>4. QED
  BY <1>2, <1>3 DEF Given, Message

\* The key taken from KMAC is random or the next one up the ladder.
LEMMA KeyTaken ==
  ASSUME IInv, NEW i, Update(i) = "Kmac", control.op \notin Generations
  PROVE  kmac.sent \in Values
<1> USE Orders, Fields
<1>1. Done(i) /\ op = "Adv" /\ fsm \in Live \cup {"Disabled", "Invalid"}
  BY Completion DEF Update, IInv, OrderInv
<1>2. Random \in Values
  BY DEF Values
<1>3. CASE fsm \in {"Disabled", "Invalid"}
  BY <1>1, <1>2, <1>3, RandomInput
<1>4. CASE fsm \in Live
  <2>1. ~SyncFault(i) /\ ~SyncErr(i) /\ ~AsyncFault(i)
    BY <1>4 DEF Update, Live, Stages
  <2>2. kmac.sent = Given /\ ~errs.fault /\ ~errs.sync
    BY <1>1, <1>4, <2>1, Outcome DEF SyncErr
  <2>3. CASE control.op = "Disable"
    <3>1. StageSel = "Disable"
      BY <1>1, <2>3 DEF StageSel, DisableSel
    <3>2. QED
      BY <1>2, <2>2, <3>1 DEF Given, Message
  <2>4. CASE control.op = "Advance"
    <3> DEFINE c == IF cnt = 0 THEN "Sealing" ELSE "Attestation"
    <3>1. keys[c] = Identity(fsm, c) /\ c \in CDIs
      BY <1>1, <1>4, <2>2, <2>4 DEF IInv, LadderInv, CounterInv, CDIs
    <3>2. /\ Refused <=> fsm # "Owner" /\ (keys[c] = Bad \/ control.refused)
          /\ Message = IF fsm = "Owner" THEN Random ELSE Derive(keys[c], <<c, NextStage[fsm]>>)
      BY <1>1, <1>4, <2>4, Input
    <3> HIDE DEF c
    <3>3. Given = Random \/ Given = Above(fsm, c)
      BY <1>4, <3>1, <3>2, OneStepUp DEF Given, Above
    <3>4. QED
      BY <1>2, <1>4, <2>2, <3>1, <3>3, LadderTyped
  <2>5. QED
    BY <2>3, <2>4
<1>5. QED
  BY <1>1, <1>3, <1>4

LEMMA TypeStep == ASSUME IInv, NEW i, Clock(i) PROVE TypeOK'
<1> USE Orders, Fields
<1>1. (fsm \in Live \cup {"Reset", "EntropyReseed", "Random", "RootKey", "Disabled", "Wipe",
                          "Invalid"})'
  BY FsmMoves DEF Live, Stages, NextStage
<1>2. (op \in {"Idle", "Adv", "AdvAck", "Wait"})'
  BY OpMoves
<1>3. (cnt \in Nat /\ (cnt < EntropyRounds \/ cnt < 2))'
  <2>1. cnt' \in Nat
    BY OpMoves
  <2>2. fsm' = "Random" => cnt' < EntropyRounds
    BY CounterStep DEF CounterInv
  <2>3. fsm' # "Random" => cnt' \in {0, 1}
    BY <1>2, CounterStep DEF CounterInv
  <2>4. QED
    BY <2>1, <2>2, <2>3
<1>4. (keys \in [CDIs -> Values])'
  <2>1. Values' = Values
    BY DEF Clock, Values, Identity
  <2>2. Random \in Values /\ Root \in Values \cup {Root} /\ Bad \in Values
    BY DEF Values
  <2>3. (IF rootValid THEN Root ELSE Bad) \in Values
    <3>1. Identity("Init", "Sealing") \in Values
      BY DEF Values, Live, CDIs
    <3>2. QED
      BY <3>1 DEF Identity
  <2>4. keys' \in [CDIs -> Values]
    BY <2>2, <2>3, KeysMove, KeyTaken
  <2>5. QED
    BY <2>1, <2>4
<1>5. (changed \in BOOLEAN /\ start \in BOOLEAN /\ control \in Controls /\ clear \in Clears)'
  <2>1. changed' \in BOOLEAN
    BY DEF Clock, Fsm
  <2>2. QED
    BY <2>1, Software
<1>6. (hwSel \in BOOLEAN /\ dataEn \in {"Idle", "HwEn", "SwEn", "Dis", "Wait"})'
  <2>1. hwSel' \in BOOLEAN
    BY DEF Clock, Select
  <2>2. dataEn' \in {"Idle", "HwEn", "SwEn", "Dis", "Wait"}
    BY DEF Clock, DataEnable, IInv, TypeOK
  <2>3. QED
    BY <2>1, <2>2
<1>7. (/\ kmac.state \in {"Idle", "Tx", "OpWait", "Clean"} /\ kmac.invalid \in BOOLEAN
       /\ kmac.command \subseteq Generations \cup {"adv"})'
  <2>1. Enabled \subseteq Generations \cup {"adv"}
    BY DEF IInv, OrderInv
  <2>2. kmac = [state |-> kmac.state, sent |-> kmac.sent, invalid |-> kmac.invalid,
                command |-> kmac.command]
    BY DEF IInv, KmacInv
  <2>3. kmac.command \subseteq Generations \cup {"adv"}
    BY DEF IInv, TypeOK
  <2>4. (kmac.invalid \/ Refused) \in BOOLEAN
    OBVIOUS
  <2>5. CASE kmac.state = "Idle"
    BY <2>1, <2>2, <2>3, <2>5 DEF Clock, KmacIf
  <2>6. CASE kmac.state = "Tx"
    BY <2>2, <2>3, <2>4, <2>6 DEF Clock, KmacIf
  <2>7. CASE kmac.state = "OpWait"
    BY <2>2, <2>3, <2>7 DEF Clock, KmacIf
  <2>8. CASE kmac.state = "Clean"
    BY <2>2, <2>3, <2>8 DEF Clock, KmacIf
  <2>9. QED
    BY <2>5, <2>6, <2>7, <2>8
<1>8. (errs \in [sync : BOOLEAN, fault : BOOLEAN, async : BOOLEAN])'
  <2>1. /\ (~OpDone(i) /\ SyncErr(i)) \in BOOLEAN /\ (~OpDone(i) /\ SyncFault(i)) \in BOOLEAN
        /\ (AsyncFault(i) \/ CommandChanged) \in BOOLEAN
    OBVIOUS
  <2>2. QED
    BY <2>1 DEF Clock, Errors
<1>9. (sideload \in {"Reset", "Idle", "Wipe", "Stop"})'
  BY DEF Clock, Sideload, IInv, TypeOK
<1>10. (\A d \in Dests : slots[d].valid \in BOOLEAN /\ slots[d].tracked \in BOOLEAN)'
  BY DEF Clock, Sideload
<1>11. QED
  BY <1>1, <1>2, <1>3, <1>4, <1>5, <1>6, <1>7, <1>8, <1>9, <1>10 DEF TypeOK

\* Wiping takes a single cycle, and nothing is brought back afterwards.
LEMMA ForgottenStep == ASSUME IInv, NEW i, Clock(i) PROVE Forgotten'
<1> SUFFICES ASSUME fsm' = "Invalid"
             PROVE  /\ \A c \in CDIs : keys'[c] = Random
                    /\ swOut' \in {Random, Bad} /\ sideload' # "Idle"
                    /\ \A d \in Dests : slots'[d].key \in {Random, Bad}
  BY DEF Forgotten
<1>1. fsm = "Wipe" \/ fsm = "Invalid"
  BY FsmMoves, Fields DEF Live, Stages, NextStage
<1>2. CASE fsm = "Wipe"
  <2>1. WipeKey(i) /\ Update(i) = "Wipe"
    BY <1>2 DEF WipeKey, Update
  <2>2. keys' = [c \in CDIs |-> Random] /\ swOut' \in {Random, Bad}
    BY <2>1, KeysMove DEF Clock, Registers, SwOutput
  <2>3. sideload' # "Idle" /\ \A d \in Dests : slots'[d].key = Random
    BY <1>2, <2>1 DEF Clock, Sideload, IInv, TypeOK
  <2>4. QED
    BY <2>2, <2>3
<1>3. CASE fsm = "Invalid"
  <2>1. Update(i) = IF OpAck(i) \/ OpUpdate(i) THEN "Kmac" ELSE "Idle"
    BY <1>3 DEF Update
  <2>2. Update(i) = "Kmac" => kmac.sent = Random
    BY <1>3, <2>1, RandomInput, Completion
  <2>3. \A c \in CDIs : keys'[c] = Random
    BY <1>3, <2>1, <2>2, KeysMove, Fields DEF IInv, Forgotten
  <2>4. swOut' \in {Random, Bad}
    BY <1>3, <2>1, <2>2 DEF Clock, Registers, SwOutput, DataValid, WipeKey, IInv, Forgotten
  <2>5. sideload' # "Idle"
    BY <1>3 DEF Clock, Sideload, IInv, TypeOK, Forgotten
  <2>6. \A d \in Dests : slots'[d].key \in {Random, Bad}
    BY <1>3, <2>1, <2>2 DEF Clock, Sideload, DataValid, IInv, Forgotten
  <2>7. QED
    BY <2>3, <2>4, <2>5, <2>6
<1>4. QED
  BY <1>1, <1>2, <1>3

LEMMA InitIInv == Init => IInv
<1> SUFFICES ASSUME Init PROVE IInv
  OBVIOUS
<1> USE DEF Init
<1>1. TypeOK
  <2>1. control \in Order({"Disable", "GenId"}, CDIs, {"none"}, {FALSE})
    BY DEF Order, CDIs
  <2>2. control \in Controls
    BY <2>1 DEF Controls
  <2>3. keys \in [CDIs -> Values]
    BY DEF Values
  <2>4. clear \in Clears
    BY KeymgrAssumption
  <2>5. errs \in [sync : BOOLEAN, fault : BOOLEAN, async : BOOLEAN]
    OBVIOUS
  <2>6. \A d \in Dests : slots[d].valid \in BOOLEAN /\ slots[d].tracked \in BOOLEAN
    OBVIOUS
  <2>7. cnt < EntropyRounds
    BY KeymgrAssumption
  <2>8. QED
    BY <2>2, <2>3, <2>4, <2>5, <2>6, <2>7 DEF TypeOK
<1>2. OrderInv /\ CounterInv /\ KmacInv
  BY DEF OrderInv, CounterInv, KmacInv
<1>3. DataInv /\ ErrInv /\ LadderInv /\ Forgotten
  BY DEF DataInv, ErrInv, LadderInv, Forgotten, Live, Stages
<1>4. QED
  BY <1>1, <1>2, <1>3 DEF IInv

\* A cycle, or a cycle that is not taken, preserves the invariant.
LEMMA StepIInv == IInv /\ [Next]_vars => IInv'
<1> SUFFICES ASSUME IInv, [Next]_vars PROVE IInv'
  OBVIOUS
<1>1. CASE Next
  <2>1. PICK i \in Inputs : Clock(i)
    BY <1>1 DEF Next
  <2>2. QED
    BY <2>1, TypeStep, OrderStep, CounterStep, KmacStep, DataStep, ErrStep, LadderStep,
       ForgottenStep DEF IInv
<1>2. CASE UNCHANGED vars
  <2> USE <1>2 DEF vars
  <2>1. TypeOK' /\ Forgotten'
    <3>1. Values' = Values
      BY DEF Values, Identity
    <3>2. TypeOK'
      BY <3>1 DEF IInv, TypeOK
    <3>3. QED
      BY <3>2 DEF IInv, Forgotten
  <2>2. OrderInv' /\ CounterInv' /\ DataInv' /\ ErrInv'
    BY DEF IInv, OrderInv, CounterInv, DataInv, ErrInv
  <2>3. KmacInv'
    <3>1. Enabled' = Enabled /\ StageSel' = StageSel /\ CdiSel' = CdiSel
      BY DEF Enabled, StageSel, CdiSel, OpReq, AdvanceSel, DisableSel
    <3>2. (Refused' <=> Refused) /\ Given' = Given
      BY <3>1 DEF Refused, Given, Message, Purpose
    <3>3. QED
      BY <3>1, <3>2 DEF IInv, KmacInv
  <2>4. LadderInv'
    BY DEF IInv, LadderInv, Above, Identity
  <2>5. QED
    BY <2>1, <2>2, <2>3, <2>4 DEF IInv
<1>3. QED
  BY <1>1, <1>2


-----------------------------------------------------------------------------
(* The safety properties. *)

\* Whatever the slots and the amount of entropy, software, KMAC and faults: the blocks of the
\* key manager stay in step (IInv), which the properties below follow from.
THEOREM KeymgrInvariant == Spec => []IInv
BY InitIInv, StepIInv, PTL DEF Spec

\* Every register and state of the key manager keeps to its values.
THEOREM KeymgrTyped == Spec => []TypeOK
<1>1. IInv => TypeOK
  BY DEF IInv
<1>2. QED
  BY <1>1, KeymgrInvariant, PTL

\* Between operations both keys (key_state_q) are those of the state of the FSM, also after an
\* advance of which one derivation failed.
THEOREM KeysMatch == Spec => []KeysMatchState
<1>1. IInv => KeysMatchState
  BY DEF IInv, LadderInv, CounterInv, KeysMatchState, Live, Stages
<1>2. QED
  BY <1>1, KeymgrInvariant, PTL

\* A fault leaves no key behind: what the invalid state finds is random, and no operation
\* from before brings a key back.
THEOREM NothingLeft == Spec => []Forgotten
<1>1. IInv => Forgotten
  BY DEF IInv
<1>2. QED
  BY <1>1, KeymgrInvariant, PTL

\* The self-checks of keymgr_err never fire without a glitch, the counter is zero and the data
\* enable off outside of an operation.
THEOREM ChecksAreQuiet == Spec => []NoFalseFault
<1>1. ASSUME IInv PROVE NoFalseFault
  <2>1. dataEn \in {"HwEn", "SwEn"} => Enabled # {} /\ Enabled \subseteq Generations
    BY <1>1, Orders DEF IInv, DataInv, OrderInv
  <2>2. QED
    BY <1>1, <2>1, NoFault DEF NoFalseFault
<1>2. QED
  BY <1>1, KeymgrInvariant, PTL

\* What KMAC returns for a generation is random, or derived from the ordered key of the stage.
LEMMA GeneratedKey ==
  ASSUME IInv, NEW i, DataValid(i), op = "Wait", kmac.sent # Random
  PROVE  fsm \in Stages /\ kmac.sent = Identity(fsm, control.cdi) \o <<control.op, control.dest>>
<1> USE Orders, Fields
<1>1. Done(i) /\ control.op \in Generations /\ Update(i) = "Kmac"
  BY Completion DEF DataValid, Update
<1>2. fsm \in Live
  BY <1>1, RandomInput DEF IInv, OrderInv, Update
<1>3. ~AsyncFault(i)
  BY <1>1, <1>2 DEF Update, Live, Stages
<1>4. ~Refused /\ kmac.sent = Message
  BY <1>1, <1>2, <1>3, Outcome DEF Given
<1>5. ~AdvanceSel /\ ~DisableSel
  BY <1>1 DEF AdvanceSel, DisableSel
<1>6. CdiSel = control.cdi /\ StageSel = IF fsm = "Init" THEN "Disable" ELSE fsm
  BY <1>2, <1>5 DEF CdiSel, StageSel
<1>7. fsm \in Stages /\ StageSel # "Disable"
  BY <1>2, <1>4, <1>6 DEF Message, Live, Stages
<1>8. keys[control.cdi] = Identity(fsm, control.cdi)
  BY <1>2, <1>7 DEF IInv, LadderInv, CounterInv, Stages
<1>p. Purpose = control.op
  BY <1>1, <1>5 DEF Purpose, IInv, OrderInv, Generations
<1>9. Message = Derive(Identity(fsm, control.cdi), <<control.op, control.dest>>)
  BY <1>6, <1>7, <1>8, <1>p DEF Message
<1>10. QED
  BY <1>2, <1>4, <1>7, <1>9, KeysDiffer DEF Derive

\* A key comes into the output registers or into a slot only as the answer to the order that
\* stands: from the stage's key of the ordered CDI, for the ordered destination.
THEOREM OutputIsOrdered == Spec => OutputMatchesRequest
<1> DEFINE
      Out == swOut' \notin {swOut, Random, Bad} =>
               /\ fsm \in Stages /\ control.op \in {"GenId", "GenSw"}
               /\ swOut' = Identity(fsm, control.cdi) \o <<control.op, control.dest>>
      Slot(d) == slots'[d].key \notin {slots[d].key, Random} =>
               /\ fsm \in Stages /\ control.op = "GenHw" /\ control.dest = d
               /\ slots'[d].key = Identity(fsm, control.cdi) \o <<"GenHw", d>>
<1>1. ASSUME IInv, NEW i, Clock(i) PROVE Out
  <2> SUFFICES ASSUME swOut' \notin {swOut, Random, Bad}
               PROVE  /\ fsm \in Stages /\ control.op \in {"GenId", "GenSw"}
                      /\ swOut' = Identity(fsm, control.cdi) \o <<control.op, control.dest>>
    OBVIOUS
  <2>1. DataValid(i) /\ ~hwSel /\ dataEn = "SwEn" /\ swOut' = kmac.sent
    BY <1>1 DEF Clock, Registers, SwOutput
  <2>2. op = "Wait" /\ control.op \in {"GenId", "GenSw"}
    BY <1>1, <2>1 DEF IInv, DataInv, OrderInv, Generations
  <2>3. QED
    BY <1>1, <2>1, <2>2, GeneratedKey
<1>2. ASSUME IInv, NEW i, Clock(i), NEW d \in Dests PROVE Slot(d)
  <2> SUFFICES ASSUME slots'[d].key \notin {slots[d].key, Random}
               PROVE  /\ fsm \in Stages /\ control.op = "GenHw" /\ control.dest = d
                      /\ slots'[d].key = Identity(fsm, control.cdi) \o <<"GenHw", d>>
    OBVIOUS
  <2>1. /\ DataValid(i) /\ hwSel /\ control.dest = d /\ dataEn = "HwEn"
        /\ slots'[d].key = kmac.sent
    BY <1>2 DEF Clock, Sideload
  <2>2. op = "Wait" /\ control.op = "GenHw"
    BY <1>2, <2>1 DEF IInv, DataInv, OrderInv
  <2>3. QED
    BY <1>2, <2>1, <2>2, GeneratedKey
<1>3. IInv /\ [Next]_vars => [Out /\ \A d \in Dests : Slot(d)]_vars
  BY <1>1, <1>2 DEF Next
<1>4. QED
  BY <1>3, KeymgrInvariant, PTL DEF Spec, OutputMatchesRequest

=============================================================================
