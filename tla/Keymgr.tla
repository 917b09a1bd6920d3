-------------------------------- MODULE Keymgr --------------------------------
(***************************************************************************)
(* The key manager: keymgr_ctrl with keymgr_op_state_ctrl,                 *)
(* keymgr_data_en_state and keymgr_err, the requester's side of the KMAC   *)
(* interface (keymgr_kmac_if), the sideload slots and the registers that   *)
(* software drives them with.  One step is one clock cycle.                *)
(*                                                                         *)
(* A key is the history of its derivation: <<"root", "Sealing",            *)
(* "Creator">> is what the root key becomes for sealing in the first       *)
(* stage.  KMAC is external: it takes the input, answers once, and may     *)
(* fail (report an error, return a constant).  rot_top ties lc_keymgr_en   *)
(* on; glitched encodings and counters are left out, a fault found         *)
(* elsewhere (bus integrity, shadow registers) is an input of the cycle.   *)
(***************************************************************************)
EXTENDS Naturals, Sequences, FiniteSets

CONSTANTS
  Dests,         \* sideload destinations: the slots
  EntropyRounds, \* words of entropy in a share of the key
  MaxInUse,      \* bound: software orders no key while so many other outputs are in use
  Clears         \* bound: the sets of slots that software clears at once

ASSUME KeymgrAssumption ==
  EntropyRounds \in Nat \ {0} /\ MaxInUse \in Nat /\ {"none", "software"} \cap Dests = {}
  /\ {} \in Clears /\ Clears \subseteq SUBSET Dests

CDIs == {"Sealing", "Attestation"}
Generations == {"GenId", "GenSw", "GenHw"}
Stages == {"Creator", "OwnerInt", "Owner"}

Random == <<"random">>
Bad == <<"bad">>       \* all zeros or all ones
Root == <<"root">>

\* What software may order; a field that the operation does not read is left at one value:
\* an advance counts the CDIs itself, only generated keys have a destination, which may be
\* none, and only bindings and key versions are refused.
Order(ops, cdis, dests, refusals) == [op : ops, cdi : cdis, dest : dests, refused : refusals]
Controls == Order({"Advance"}, {"Sealing"}, {"none"}, BOOLEAN)
            \cup Order({"Disable", "GenId"}, CDIs, {"none"}, {FALSE})
            \cup Order({"GenSw", "GenHw"}, CDIs, Dests \cup {"none"}, BOOLEAN)

VARIABLES
  fsm, op, cnt,       \* state_q of keymgr_ctrl and of keymgr_op_state_ctrl, the counter
  keys,               \* key_state_q
  changed,            \* vld_state_change_q
  start, control,     \* START and CONTROL; refused: keymgr_input_checks refuses the rest
  clear,              \* SIDELOAD_CLEAR
  hwSel, dataEn,      \* hw_sel_o (a cycle late), state_q of keymgr_data_en_state
  kmac,               \* keymgr_kmac_if: state_q, what was sent, inputs_invalid_q, enables_q
  errs,               \* sync_err_q, sync_fault_q, async_fault_q (any of each)
  sideload, slots,    \* state_q of keymgr_sideload_key_ctrl; per slot valid_q, tracking, key_q
  swOut,              \* SW_SHARE*_OUTPUT
  rootValid           \* root_key_i.valid when the root key is loaded

vars == <<fsm, op, cnt, keys, changed, start, control, clear, hwSel, dataEn, kmac, errs,
          sideload, slots, swOut, rootValid>>

\* A cycle's inputs: a fault found elsewhere, what KMAC does (take the message, answer), a
\* seed from EDN.
Inputs == [fault : IF errs.async THEN {FALSE} ELSE BOOLEAN,
           kmac : CASE kmac.state = "Tx" -> {"busy", "done"}
                    [] kmac.state = "OpWait" -> {"busy", "done", "failed"}
                    [] OTHER -> {"busy"},
           seed : IF fsm = "EntropyReseed" THEN BOOLEAN ELSE {FALSE}]

-----------------------------------------------------------------------------
(* keymgr_ctrl: what is asked for. *)

AdvanceSel == start /\ control.op = "Advance"
DisableSel == start /\ control.op = "Disable"

Live == {"Init"} \cup Stages

\* Mutant: the request of an operation is dropped when the keys are wiped under it.
OpReqWhileUp == start /\ fsm \in Live \cup {"Disabled", "Invalid"}

OpReq == (start /\ fsm \in Live \cup {"Disabled", "Invalid"}) \/ (fsm = "Wipe" /\ op # "Idle")

NextStage == [Init |-> "Creator", Creator |-> "OwnerInt", OwnerInt |-> "Owner", Owner |-> "Disable"]

\* stage_sel_o: whose inputs go to KMAC; Disable selects random ones.
StageSel == IF fsm \notin Live \/ DisableSel THEN "Disable"
            ELSE IF AdvanceSel THEN NextStage[fsm]
            ELSE IF fsm = "Init" THEN "Disable" ELSE fsm

\* Mutant: the counter selects the CDI of generate operations, too.
CdiAlwaysCounted == IF OpReq /\ cnt > 0 THEN "Attestation" ELSE "Sealing"

\* cdi_sel_o
CdiSel == IF ~AdvanceSel THEN control.cdi
          ELSE IF OpReq /\ cnt > 0 THEN "Attestation" ELSE "Sealing"

InvalidOp ==
  start /\ \/ fsm = "Reset" /\ ~AdvanceSel
           \/ fsm = "Init" /\ ~(AdvanceSel \/ DisableSel)
           \/ fsm = "Wipe"

\* adv_en_o, id_en_o, gen_en_o
Enabled == IF op = "Adv" THEN {"adv"}
           ELSE IF op = "Wait" /\ OpReq /\ control.op \in Generations THEN {control.op} ELSE {}

-----------------------------------------------------------------------------
(* keymgr_kmac_if: what is sent and when it is done. *)

Derive(k, step) == IF k = Random THEN Random ELSE k \o step

\* Whose seed goes into a generated key: hw_sel_o chooses between hardware and software.
Purpose == IF control.op = "GenId" THEN "GenId" ELSE IF hwSel THEN "GenHw" ELSE "GenSw"

Message ==
  IF StageSel = "Disable" THEN Random
  ELSE Derive(keys[CdiSel], IF op = "Adv" THEN <<CdiSel, StageSel>> ELSE <<Purpose, control.dest>>)

\* inputs_invalid_i
Refused ==
  \/ StageSel # "Disable" /\ keys[CdiSel] = Bad
  \/ control.refused /\ control.op # "GenId" /\ (op = "Adv" => StageSel # "Disable")

Sent == IF kmac.invalid \/ Refused THEN Random ELSE Message

Done(i) == \/ kmac.state = "OpWait" /\ i.kmac # "busy"
           \/ kmac.state = "Clean" /\ Enabled # {}

\* What was sent and the command are kept up to the end of the exchange; the next one replaces
\* them.
KmacIf(i) ==
  kmac' = CASE kmac.state = "Idle" ->
               IF Enabled = {} THEN kmac
               ELSE [kmac EXCEPT !.state = "Tx", !.sent = <<>>, !.command = Enabled]
            [] kmac.state = "Tx" ->
               [kmac EXCEPT !.state = IF i.kmac = "busy" THEN "Tx" ELSE "OpWait",
                            !.sent = IF kmac.sent \in {<<>>, Sent} THEN Sent ELSE Random,
                            !.invalid = kmac.invalid \/ Refused]
            [] kmac.state = "OpWait" ->
               [kmac EXCEPT !.state = IF i.kmac = "busy" THEN "OpWait" ELSE "Clean"]
            [] kmac.state = "Clean" ->
               IF Enabled # {} THEN kmac
               ELSE [kmac EXCEPT !.state = "Idle", !.sent = <<>>, !.invalid = FALSE, !.command = {}]

\* cmd_consty_err_d: the command changed while it was sent or awaited.
CommandChanged == kmac.state \in {"Tx", "OpWait"} /\ kmac.command # Enabled

-----------------------------------------------------------------------------
(* keymgr_op_state_ctrl: an advance derives the key of every CDI. *)

OpAck(i) == Done(i) /\ ((op = "Adv" /\ OpReq /\ cnt > 0) \/ op = "Wait")
OpUpdate(i) == Done(i) /\ op = "Adv" /\ ~(OpReq /\ cnt > 0)

\* Mutant: a refused order is not answered.
OpDoneWhenServed(i) == IF OpReq THEN OpAck(i) ELSE fsm = "RootKey"

OpDone(i) == IF OpReq THEN OpAck(i) ELSE fsm = "RootKey" \/ InvalidOp

\* Mutant: the second derivation is ordered without letting the KMAC interface finish the
\* first.
OpStateInOne(i) ==
  op' = CASE op = "Idle" -> IF OpReq /\ control.op \in {"Advance", "Disable"} THEN "Adv"
                            ELSE IF OpReq THEN "Wait" ELSE "Idle"
          [] op = "Adv" -> IF OpAck(i) THEN "Idle" ELSE "Adv"
          [] op = "Wait" -> IF OpAck(i) THEN "Idle" ELSE "Wait"

OpState(i) ==
  op' = CASE op = "Idle" -> IF OpReq /\ control.op \in {"Advance", "Disable"} THEN "Adv"
                            ELSE IF OpReq THEN "Wait" ELSE "Idle"
          [] op = "Adv" -> IF OpAck(i) THEN "Idle" ELSE IF OpUpdate(i) THEN "AdvAck" ELSE "Adv"
          [] op = "AdvAck" -> "Adv"
          [] op = "Wait" -> IF OpAck(i) THEN "Idle" ELSE "Wait"

\* Mutant: the counter is not cleared when the entropy is loaded.
CounterKept(i) ==
  cnt' = IF OpAck(i) THEN 0
         ELSE IF OpUpdate(i) \/ fsm = "Random" THEN cnt + 1 ELSE cnt

Counter(i) ==
  cnt' = IF OpAck(i) \/ (fsm = "Random" /\ cnt = EntropyRounds - 1) THEN 0
         ELSE IF OpUpdate(i) \/ fsm = "Random" THEN cnt + 1 ELSE cnt

-----------------------------------------------------------------------------
(* keymgr_err. *)

SelErr == \E d \in Dests : sideload = "Idle" /\ slots[d].valid /\ ~slots[d].tracked

ErrVld(i) == OpUpdate(i) \/ OpDone(i)

SyncFault(i) ==
  \/ errs.fault
  \/ ErrVld(i) /\ (SelErr \/ (kmac.state = "OpWait" /\ i.kmac = "failed"))

StateChangeErr == changed /\ control.op # "Advance"
OpStateErr == op = "Adv" /\ ~(AdvanceSel \/ DisableSel)

AsyncFault(i) == errs.async \/ i.fault \/ StateChangeErr \/ OpStateErr

\* fault_o: a fault of an operation shows when the whole operation is done.
Fault(i) == AsyncFault(i) \/ (OpDone(i) /\ SyncFault(i))

SyncErr(i) ==
  \/ errs.sync
  \/ ErrVld(i) /\ (InvalidOp \/ fsm \in {"Disabled", "Invalid"} \/ Fault(i)
                   \/ (kmac.state = "OpWait" /\ kmac.invalid))

Errors(i) ==
  errs' = [sync |-> ~OpDone(i) /\ SyncErr(i),
           fault |-> ~OpDone(i) /\ SyncFault(i),
           async |-> AsyncFault(i) \/ CommandChanged]

-----------------------------------------------------------------------------
(* keymgr_ctrl: the key state and the main FSM. *)

\* update_sel; in the invalid state always, in the disabled one unless there is a fault.
Update(i) ==
  CASE fsm = "Wipe" -> "Wipe"
    [] fsm = "Random" -> "Random"
    [] fsm = "RootKey" -> "Root"
    [] fsm \notin {"Wipe", "Random", "RootKey"} ->
       IF ~(OpAck(i) \/ OpUpdate(i)) THEN "Idle"
       ELSE IF fsm = "Invalid" THEN "Kmac"
       ELSE IF SyncFault(i) \/ AsyncFault(i) THEN "Wipe"
       ELSE IF fsm # "Disabled" /\ SyncErr(i) THEN "Idle" ELSE "Kmac"

WipeKey(i) == Update(i) = "Wipe"
DataValid(i) == Update(i) = "Kmac" /\ control.op \in Generations

KeyState(i) ==
  keys' = CASE Update(i) \in {"Wipe", "Random"} -> [c \in CDIs |-> Random]
            [] Update(i) = "Root" -> [c \in CDIs |-> IF rootValid THEN Root ELSE Bad]
            [] Update(i) = "Kmac" /\ control.op \notin Generations -> [keys EXCEPT ![CdiSel] = kmac.sent]
            [] OTHER -> keys

\* Init and the three stages.
FromLive(i) ==
  IF Fault(i) THEN "Wipe"
  ELSE IF OpAck(i) /\ DisableSel THEN "Disabled"
  ELSE IF OpAck(i) /\ AdvanceSel /\ ~SyncErr(i)
       THEN IF fsm = "Owner" THEN "Disabled" ELSE NextStage[fsm]
       ELSE fsm

\* Mutant: the operation under way is not waited for.
FromWipeAtOnce == "Invalid"

FromWipe == IF start THEN "Wipe" ELSE "Invalid"

Fsm(i) ==
  /\ fsm' = CASE fsm = "Reset" -> IF Fault(i) THEN "Wipe"
                                  ELSE IF AdvanceSel THEN "EntropyReseed" ELSE "Reset"
              [] fsm = "EntropyReseed" -> IF i.seed THEN "Random" ELSE "EntropyReseed"
              [] fsm = "Random" -> IF cnt = EntropyRounds - 1 THEN "RootKey" ELSE "Random"
              [] fsm = "RootKey" -> "Init"
              [] fsm \in Live -> FromLive(i)
              [] fsm = "Disabled" -> IF Fault(i) THEN "Wipe" ELSE "Disabled"
              [] fsm = "Wipe" -> FromWipe
              [] fsm = "Invalid" -> "Invalid"
  /\ changed' = (fsm' # fsm /\ fsm' \in {"RootKey"} \cup Stages)

-----------------------------------------------------------------------------
(* Where generated keys go. *)

DataEnable(i) ==
  dataEn' = CASE dataEn = "Idle" -> IF "adv" \in Enabled THEN "Dis"
                                    ELSE IF Enabled = {} THEN "Idle"
                                    ELSE IF hwSel THEN "HwEn" ELSE "SwEn"
              [] dataEn = "HwEn" -> IF OpDone(i) THEN "Wait"
                                    ELSE IF "adv" \in Enabled \/ ~hwSel THEN "Dis" ELSE "HwEn"
              [] dataEn = "SwEn" -> IF OpDone(i) THEN "Wait"
                                    ELSE IF "adv" \in Enabled \/ hwSel THEN "Dis" ELSE "SwEn"
              [] dataEn = "Dis" -> IF OpDone(i) THEN "Wait" ELSE "Dis"
              [] dataEn = "Wait" -> IF start THEN "Wait" ELSE "Idle"

Select == start /\ control.op = "GenHw"                      \* gen_out_hw_sel

\* The next value of SW_SHARE*_OUTPUT, unless software reads (all of) them.
SwOutput(i) ==
  IF WipeKey(i) THEN Random
  ELSE IF DataValid(i) /\ ~hwSel THEN IF dataEn = "SwEn" THEN kmac.sent ELSE Random
  ELSE swOut

Sideload(i) ==
  LET en == sideload = "Idle"
      sel(d) == control.dest = d /\ hwSel
      clr(d) == WipeKey(i) \/ d \in clear
  IN /\ sideload' = CASE sideload = "Reset" -> IF fsm = "RootKey" THEN "Idle" ELSE "Reset"
                      [] sideload = "Idle" -> IF WipeKey(i) THEN "Wipe" ELSE "Idle"
                      [] sideload = "Wipe" -> IF WipeKey(i) THEN "Wipe" ELSE "Stop"
                      [] sideload = "Stop" -> "Stop"
     /\ slots' = [d \in Dests |->
          [valid |-> en /\ ~clr(d) /\ ((DataValid(i) /\ sel(d)) \/ slots[d].valid),
           tracked |-> ~clr(d) /\ (sel(d) \/ slots[d].tracked),
           key |-> IF clr(d) THEN Random
                   ELSE IF DataValid(i) /\ sel(d)
                        THEN IF dataEn = "HwEn" THEN kmac.sent ELSE Random
                        ELSE slots[d].key]]

-----------------------------------------------------------------------------
(* Software: the registers are locked while an operation runs (cfg_regwen). *)

\* What software may order within the bound: a key is ordered again into the same output, or
\* into another one while few enough are in use.
InUse == {d \in Dests : slots[d].tracked} \cup (IF swOut = Bad THEN {} ELSE {"software"})
Target(order) == IF order.op = "GenHw" THEN order.dest ELSE "software"
MayOrder(order) == order.op \in Generations => Cardinality(InUse \ {Target(order)}) < MaxInUse

\* One access in a cycle, or none. Reading the output clears it (swaccess rc), also when a key
\* arrives in that cycle.
Registers(i) ==
  \/ /\ start' = (start /\ ~OpDone(i))
     /\ swOut' \in {SwOutput(i), Bad}
     /\ UNCHANGED <<control, clear>>
  \/ /\ ~start /\ start' = TRUE /\ MayOrder(control)
     /\ swOut' = SwOutput(i)
     /\ UNCHANGED <<control, clear>>
  \/ /\ ~start /\ control' \in Controls /\ MayOrder(control')
     /\ swOut' = SwOutput(i)
     /\ UNCHANGED <<start, clear>>
  \/ /\ ~start /\ clear' \in Clears
     /\ swOut' = SwOutput(i)
     /\ UNCHANGED <<start, control>>

Clock(i) ==
  /\ KmacIf(i) /\ OpState(i) /\ Counter(i) /\ Errors(i) /\ KeyState(i) /\ Fsm(i)
  /\ hwSel' = Select /\ DataEnable(i) /\ Sideload(i)
  /\ Registers(i)
  /\ UNCHANGED rootValid

Init ==
  /\ fsm = "Reset" /\ op = "Idle" /\ cnt = 0 /\ changed = FALSE
  /\ keys = [c \in CDIs |-> Bad]
  /\ start = FALSE /\ clear = {}
  /\ control = [op |-> "GenId", cdi |-> "Sealing", dest |-> "none", refused |-> FALSE]
  /\ hwSel = FALSE /\ dataEn = "Idle"
  /\ kmac = [state |-> "Idle", sent |-> <<>>, invalid |-> FALSE, command |-> {}]
  /\ errs = [sync |-> FALSE, fault |-> FALSE, async |-> FALSE]
  /\ sideload = "Reset"
  /\ slots = [d \in Dests |-> [valid |-> FALSE, tracked |-> FALSE, key |-> Bad]]
  /\ swOut = Bad
  /\ rootValid \in BOOLEAN

Next == \E i \in Inputs : Clock(i)

\* The clock runs, KMAC answers and EDN delivers the seed that is asked for.
Prompt(i) == /\ kmac.state \in {"Tx", "OpWait"} => i.kmac # "busy"
             /\ fsm = "EntropyReseed" => i.seed
Fairness == WF_vars(\E i \in {j \in Inputs : Prompt(j)} : Clock(i))

Spec == Init /\ [][Next]_vars /\ Fairness

-----------------------------------------------------------------------------
\* The key of a CDI in a state of the ladder.
CreatorKey(c) == Root \o <<c, "Creator">>
OwnerIntKey(c) == CreatorKey(c) \o <<c, "OwnerInt">>
Identity(f, c) ==
  CASE f = "Init" -> IF rootValid THEN Root ELSE Bad
    [] f = "Creator" -> CreatorKey(c)
    [] f = "OwnerInt" -> OwnerIntKey(c)
    [] f = "Owner" -> OwnerIntKey(c) \o <<c, "Owner">>

Values == {Random, Bad} \cup {Identity(f, c) : f \in Live, c \in CDIs}

TypeOK ==
  /\ fsm \in Live \cup {"Reset", "EntropyReseed", "Random", "RootKey", "Disabled", "Wipe", "Invalid"}
  /\ op \in {"Idle", "Adv", "AdvAck", "Wait"} /\ cnt \in Nat /\ (cnt < EntropyRounds \/ cnt < 2)
  /\ keys \in [CDIs -> Values] /\ changed \in BOOLEAN
  /\ start \in BOOLEAN /\ control \in Controls /\ clear \in Clears
  /\ hwSel \in BOOLEAN /\ dataEn \in {"Idle", "HwEn", "SwEn", "Dis", "Wait"}
  /\ kmac.state \in {"Idle", "Tx", "OpWait", "Clean"} /\ kmac.invalid \in BOOLEAN
  /\ kmac.command \subseteq Generations \cup {"adv"}
  /\ errs \in [sync : BOOLEAN, fault : BOOLEAN, async : BOOLEAN]
  /\ sideload \in {"Reset", "Idle", "Wipe", "Stop"}
  /\ \A d \in Dests : slots[d].valid \in BOOLEAN /\ slots[d].tracked \in BOOLEAN

\* The FSM and the two keys climb the ladder together: between operations both keys are
\* those of the state, also after an advance of which a derivation failed.
KeysMatchState ==
  fsm \in Live /\ op = "Idle" => \A c \in CDIs : keys[c] = Identity(fsm, c)

\* The invalid state (after a fault) is reached with nothing left: neither key, nor an output
\* in the registers or in a slot, and no operation from before brings one back.
Forgotten ==
  fsm = "Invalid" => /\ \A c \in CDIs : keys[c] = Random
                     /\ swOut \in {Random, Bad} /\ sideload # "Idle"
                     /\ \A d \in Dests : slots[d].key \in {Random, Bad}

\* The checks of the key manager on itself find nothing as long as nothing is glitched, whatever
\* software orders and whenever a fault comes from elsewhere; the counter is zero and the
\* output is off (CntZero_A, DataEn_A) outside of an operation.
NoFalseFault ==
  /\ ~StateChangeErr /\ ~OpStateErr /\ ~CommandChanged /\ ~SelErr
  /\ start \/ cnt = 0
  /\ dataEn \in {"HwEn", "SwEn"} => Enabled # {} /\ Enabled \subseteq Generations

\* A key that reaches software or a slot is the one that was ordered: generated in a stage,
\* from that stage's key for the ordered CDI, for the ordered destination, and by an order
\* for software or for that slot.
OutputMatchesRequest ==
  [][/\ swOut' \notin {swOut, Random, Bad} =>
          /\ fsm \in Stages /\ control.op \in {"GenId", "GenSw"}
          /\ swOut' = Identity(fsm, control.cdi) \o <<control.op, control.dest>>
     /\ \A d \in Dests : slots'[d].key \notin {slots[d].key, Random} =>
          /\ fsm \in Stages /\ control.op = "GenHw" /\ control.dest = d
          /\ slots'[d].key = Identity(fsm, control.cdi) \o <<"GenHw", d>>]_vars

\* Every order of software ends, whatever state it meets and whatever fault comes in between.
OperationsEnd == start ~> ~start

-----------------------------------------------------------------------------
(* The inductive invariant behind the safety properties. *)

\* An operation is under way only while software's order stands, and it is the one ordered;
\* so is the start of the key manager.
OrderInv ==
  /\ op # "Idle" => start /\ fsm \in Live \cup {"Disabled", "Invalid", "Wipe"}
  /\ op \in {"Adv", "AdvAck"} => control.op \in {"Advance", "Disable"}
  /\ op = "Wait" => control.op \in Generations
  /\ op # "Idle" => (hwSel <=> control.op = "GenHw")
  /\ fsm \in {"EntropyReseed", "Random", "RootKey"} => start /\ control.op = "Advance"
  /\ changed => control.op = "Advance"

\* The counter counts words of entropy, or the keys an advance has derived.
CounterInv ==
  /\ op = "AdvAck" => cnt = 1
  /\ op = "Adv" => cnt \in {0, 1}
  /\ op \in {"Idle", "Wait"} /\ fsm # "Random" => cnt = 0
  /\ fsm = "Random" => cnt < EntropyRounds

\* What the KMAC interface is given for the derivation under way.
Given == IF Refused THEN Random ELSE Message

\* The KMAC interface works for one derivation, with one input until the keys are wiped.
KmacInv ==
  /\ kmac = [state |-> kmac.state, sent |-> kmac.sent, invalid |-> kmac.invalid,
             command |-> kmac.command]
  /\ kmac.state \in {"Tx", "OpWait"} => op \in {"Adv", "Wait"} /\ kmac.command = Enabled
  /\ kmac.state = "Clean" => op = "AdvAck" \/ (op = "Idle" /\ ~start)
  /\ op = "AdvAck" => kmac.state = "Clean"
  /\ kmac.state = "Idle" => ~kmac.invalid
  /\ fsm # "Wipe" =>
       /\ kmac.state = "Tx" => kmac.sent \in {<<>>, Given} /\ (kmac.invalid => Refused)
       /\ kmac.state = "OpWait" => kmac.sent = Given /\ (kmac.invalid <=> Refused)

\* Data are enabled only for a generation that has not yet been answered.
DataInv ==
  /\ dataEn = "Idle" /\ op # "Idle" => kmac.state = "Idle"
  /\ dataEn \in {"HwEn", "SwEn"} => op = "Wait"
  /\ dataEn = "Dis" => op # "Idle"
  /\ dataEn = "Wait" => ~start
  /\ \A d \in Dests : slots[d].valid => slots[d].tracked

\* An error is kept between the two derivations of an advance only.
ErrInv == errs.sync \/ errs.fault => op \in {"Adv", "AdvAck"} /\ cnt = 1

\* The key an advance derives.
Above(f, c) == IF f = "Owner" THEN Random ELSE Identity(NextStage[f], c)

\* Both keys are those of the state until the first derivation is done; then the first one is
\* ahead, unless the input was refused, as the input of the second one will be.
LadderInv ==
  /\ fsm \in Live /\ cnt = 0 => \A c \in CDIs : keys[c] = Identity(fsm, c)
  /\ fsm \in Live /\ cnt = 1 /\ control.op = "Advance" /\ ~errs.fault =>
       /\ keys["Attestation"] = Identity(fsm, "Attestation")
       /\ keys["Sealing"] = IF errs.sync THEN Identity(fsm, "Sealing") ELSE Above(fsm, "Sealing")
       /\ errs.sync <=> fsm # "Owner" /\ (keys["Attestation"] = Bad \/ control.refused)

IInv == /\ TypeOK /\ OrderInv /\ CounterInv /\ KmacInv /\ DataInv /\ ErrInv /\ LadderInv
        /\ Forgotten

=============================================================================
