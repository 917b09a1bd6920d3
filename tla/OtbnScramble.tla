----------------------------- MODULE OtbnScramble -----------------------------
(***************************************************************************)
(* The scrambling keys of OTBN's two memories: otbn_scramble_ctrl, the     *)
(* request/acknowledge synchroniser it asks through (prim_sync_reqack in   *)
(* its two-phase protocol, which carries the key unregistered) and         *)
(* otbn_otp_controller, which answers.  rot_top drives both sides of the   *)
(* synchroniser from one clock, so one step is one clock cycle of all      *)
(* three.  A key stands for the key and the nonce that comes with it.      *)
(***************************************************************************)
EXTENDS Naturals

CONSTANTS
  Dmem, Imem,  \* the memories; as a state of the controller: the request for their key
  Idle         \* ScrambleCtrlIdle

Mem == {Dmem, Imem}

ASSUME ScrambleAssumption == Dmem # Imem /\ Idle \notin Mem

VARIABLES
  state,    \* state_q of otbn_scramble_ctrl
  pending,  \* *_scramble_req_pending_q
  valid,    \* *_key_valid_q
  key,      \* *_key_q and *_nonce_q
  src,      \* REQ side: src_fsm_cs, src_req_q, the two flops of ack_sync
  dst,      \* ACK side: dst_fsm_cs, dst_ack_q, the two flops of req_sync
  otp,      \* otbn_otp_controller: ack_pulse, rsp.ack, rsp.key
  answered  \* history: the ACK side has answered a request the REQ side has not seen answered

scrambleVars == <<state, pending, valid, key, src, dst, otp, answered>>

Constant == <<"constant", 0>>  \* RndCnstOtbnKey
Random == <<"urnd", 0>>        \* a key made of URND bits
OtpKey(n) == <<"otp", n>>

ScrambleInit ==
  /\ state = Idle
  /\ pending = [m \in Mem |-> FALSE]
  /\ valid = [m \in Mem |-> TRUE]
  /\ key = [m \in Mem |-> Constant]
  /\ src = [even |-> TRUE, req |-> FALSE, ack1 |-> FALSE, ack2 |-> FALSE]
  /\ dst = [even |-> TRUE, ack |-> FALSE, req1 |-> FALSE, req2 |-> FALSE]
  /\ otp = [pulse |-> FALSE, ack |-> FALSE, key |-> 0]
  /\ answered = FALSE

-----------------------------------------------------------------------------
(* Signals of the cycle.  In its odd phase a side inverts what it sends    *)
(* and receives.                                                           *)

KeyReq == state # Idle \/ \E m \in Mem : pending[m]                   \* otp_key_req
KeyAck == IF src.even THEN src.ack2 ELSE ~src.ack2                      \* otp_key_ack
OtpReq == IF dst.even THEN dst.req2 ELSE ~dst.req2                      \* otbn_otp_key_o.req

SrcHandshake == KeyReq /\ KeyAck
DstHandshake == OtpReq /\ otp.ack

\* The wipes otbn_scramble_ctrl takes: not while that memory's key is fetched.
Accepted(wipe) == wipe \ {state}

Served == IF KeyAck THEN {state} \cap Mem ELSE {}

NextPending(wipe) ==
  [m \in Mem |-> (pending[m] /\ m \notin Served) \/ m \in Accepted(wipe)]

NextState == CASE state = Idle /\ pending[Dmem] -> Dmem
               [] state = Idle /\ ~pending[Dmem] /\ pending[Imem] -> Imem
               [] state # Idle /\ KeyAck -> Idle
               [] OTHER -> state

KeyReqBusy(m, wipe) == NextState = m \/ NextPending(wipe)[m]

-----------------------------------------------------------------------------
\* Mutant: a wipe leaves the key marked valid.
ControllerStaysValid(wipe) ==
  /\ state' = NextState
  /\ pending' = NextPending(wipe)
  /\ valid' = [m \in Mem |-> valid[m] \/ m \in Served]
  /\ key' = [m \in Mem |-> IF m \in Served THEN OtpKey(otp.key)
                           ELSE IF m \in Accepted(wipe) THEN Random ELSE key[m]]

\* otbn_scramble_ctrl: a wipe puts random bits in place of the key, makes it
\* invalid and asks for a new one; the answer makes it valid.
Controller(wipe) ==
  /\ state' = NextState
  /\ pending' = NextPending(wipe)
  /\ valid' = [m \in Mem |-> m \in Served \/ (valid[m] /\ m \notin Accepted(wipe))]
  /\ key' = [m \in Mem |-> IF m \in Served THEN OtpKey(otp.key)
                           ELSE IF m \in Accepted(wipe) THEN Random ELSE key[m]]

\* prim_sync_reqack (EnRzHs = 0) and the flops of its two prim_flop_2sync.
Synchroniser ==
  /\ src' = [even |-> IF SrcHandshake THEN ~src.even ELSE src.even,
             req |-> IF src.even THEN KeyReq ELSE ~KeyReq,
             ack1 |-> dst.ack, ack2 |-> src.ack1]
  /\ dst' = [even |-> IF DstHandshake THEN ~dst.even ELSE dst.even,
             ack |-> IF dst.even THEN otp.ack ELSE ~otp.ack,
             req1 |-> src.req, req2 |-> dst.req1]

\* otbn_otp_controller: the acknowledgement follows the pulse by a cycle, in
\* which the request is still there and may start another pulse.
OtpController ==
  otp' = [pulse |-> OtpReq /\ ~otp.pulse,
          ack |-> otp.pulse,
          key |-> IF otp.pulse THEN otp.key + 1 ELSE otp.key]

\* One cycle; wipe: the memories otbn.sv orders to be wiped in it.
ScrambleClock(wipe) ==
  /\ Controller(wipe)
  /\ Synchroniser
  /\ OtpController
  /\ answered' = (DstHandshake \/ (answered /\ ~SrcHandshake))

-----------------------------------------------------------------------------
ScrambleTypeOK ==
  /\ state \in Mem \cup {Idle}
  /\ pending \in [Mem -> BOOLEAN] /\ valid \in [Mem -> BOOLEAN]
  /\ key \in [Mem -> {"constant", "urnd", "otp"} \X Nat]
  /\ src \in [even : BOOLEAN, req : BOOLEAN, ack1 : BOOLEAN, ack2 : BOOLEAN]
  /\ dst \in [even : BOOLEAN, ack : BOOLEAN, req1 : BOOLEAN, req2 : BOOLEAN]
  /\ otp \in [pulse : BOOLEAN, ack : BOOLEAN, key : Nat]
  /\ answered \in BOOLEAN

\* "Both domains will see a handshake with the duration of one clock cycle"
\* (prim_sync_reqack.sv:8): an acknowledgement seen by otbn_scramble_ctrl is the
\* answer to its request, and not another look at the answer before.
AckAnswersRequest == SrcHandshake => answered
=============================================================================
