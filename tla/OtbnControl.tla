------------------------------ MODULE OtbnControl ------------------------------
(***************************************************************************)
(* When OTBN may run, must wipe itself and is locked: the command and      *)
(* status registers and the memory windows of otbn.sv, the FSMs of         *)
(* otbn_start_stop_control and otbn_controller, the URND request of        *)
(* otbn_rnd, and the scrambling keys of OtbnScramble.                      *)
(*                                                                         *)
(* One step is one clock cycle.  The variable "in" holds what the cycle    *)
(* brings: a bus access (u_socket lets one through at a time), the URND    *)
(* seed from EDN, and how the instruction of a running program ends.       *)
(* rot_top ties life-cycle escalation and the RMA request off; glitched    *)
(* encodings are left out.                                                 *)
(***************************************************************************)
EXTENDS OtbnScramble

CONSTANTS
  LastWdr,   \* addr_cnt_q in which wiping the wide registers ends (32)
  LastBase,  \* and the base registers (31)
  MaxKeys    \* bound: software orders no wipe after so many keys

\* The address counter has six bits.
ASSUME ControlAssumption ==
  /\ LastWdr \in 0 .. 63 /\ LastBase \in 0 .. 62 /\ MaxKeys \in Nat
  /\ {"other", "lost", "none"} \cap Mem = {}

VARIABLES
  ss,       \* otbn_start_stop_control: state_q, wipe_after_urnd_refresh_q, should_lock_q,
            \* init_sec_wipe_done_q, addr_cnt_q, secure_wipe_error_q, urnd_reseed_err_q
  ctl,      \* otbn_controller: state_q, secure_wipe_running_q, fatal bits of err_bits_q
  urndReq,  \* edn_urnd_req_q
  start, busy, status, locking,  \* start_q, busy_execute_q, status_q, locking_q
  illegal, missed,               \* illegal_bus_access_q, missed_gnt_error_q
  dummy,    \* *_dummy_response_q
  bus,      \* the access of the last cycle: a read of a memory, another, none; or an
            \* earlier read that is still not answered ("lost")
  in,       \* the inputs of this cycle
  exposed,  \* history: memories with the key under which the last program was started
  owed      \* history: rounds of wiping that the registers still need

vars == <<scrambleVars, ss, ctl, urndReq, start, busy, status, locking, illegal, missed,
          dummy, bus, in, exposed, owed>>

Reads == {"read"} \X Mem
Accesses == Reads \cup ({"write"} \X Mem)
Wipes == {"wipe"} \X Mem
Requests == Accesses \cup Wipes \cup {<<"execute">>, <<"other">>, <<"none">>}

\* How the instruction ends: it retires or stalls; ECALL; a recoverable error; a software
\* error made fatal by CTRL; a fatal error found in the core (fetch, integrity, predecoding).
Instructions == {"retire", "ecall", "error", "fatalSoftware", "fault"}

-----------------------------------------------------------------------------
(* The memory windows and commands. *)

\* dmem_access_core, imem_access_core
CoreOwns(m) == busy \/ (m = Imem /\ start)

Accessed == IF in.req \in Accesses THEN {in.req[2]} ELSE {}
IllegalAccess == {m \in Accessed : CoreOwns(m)}

\* A memory whose key is being exchanged does not grant the access.
MissedGrant == \E m \in Accessed \ IllegalAccess : ~valid[m]

\* Commands are taken when STATUS reads idle.
StartD == status = "Idle" /\ in.req = <<"execute">>
Ordered == IF status = "Idle" /\ in.req \in Wipes THEN {in.req[2]} ELSE {}

-----------------------------------------------------------------------------
(* Errors and stops: the signals between the blocks. *)

Spurious == in.urndAck /\ ss.state \notin {"Initial", "UrndRefresh"}
UrndErr == ss.urndErr \/ Spurious                            \* urnd_reseed_err_o

\* Mutant: an access that is not granted is not reported.
EscalateIllegalOnly == illegal

CoreEscalate == illegal \/ missed                            \* core_escalate_en

FatalErr == in.insn \in {"fatalSoftware", "fault"} \/ CoreEscalate \/ UrndErr \/ ss.err
Err == in.insn = "error" \/ FatalErr

StartWipe == ctl.state = "Run" /\ (in.insn = "ecall" \/ Err)
WipeReq == StartWipe \/ ctl.wiping                           \* secure_wipe_req_o

Escalated == CoreEscalate \/ in.insn = "fault" \/ ctl.fatal  \* start_stop_escalate_en
Stop == Escalated \/ WipeReq
ControllerStart == ss.state = "UrndRefresh" /\ in.urndAck /\ ~ss.again

\* The wipe after reset or a program, with the URND refresh in its middle.
InWipe == ss.state \in {"WipeWdr", "WipeBase", "WipeZero"} \/ (ss.state = "UrndRefresh" /\ ss.again)

\* Mutant: the request for a secure wipe is not expected when a program ends.
WipeAllowedLate == InWipe

WipeAllowed == InWipe \/ ss.state = "Running"
WipeRunning == InWipe \/ ss.state = "Initial"                \* secure_wipe_running_o
WipeDone == ss.state = "WipeZero" /\ ss.again                \* secure_wipe_ack_o

Done ==                                                      \* done_o
  \/ ss.state = "Complete" /\ ss.init
  \/ Stop /\ ss.state = "UrndRefresh" /\ ~ss.again
  \/ Spurious /\ ss.state \notin {"Halt", "Locked"} /\ ss.init

\* state_d of otbn_controller; Run stands for Run and Stall.
NextController ==
  CASE ctl.state = "Locked" \/ FatalErr -> "Locked"
    [] ctl.state = "Run" /\ ~FatalErr -> IF Err \/ in.insn = "ecall" THEN "Halt" ELSE "Run"
    [] ctl.state = "Halt" /\ ~FatalErr -> IF ControllerStart THEN "Run" ELSE "Halt"

\* locking_o: only once there is nothing left to wipe, or no seed to wipe with.
Locks == NextController = "Locked" /\ (UrndErr \/ ~(WipeRunning \/ WipeReq))

MemsSecWipe == NextController = "Locked" /\ ctl.state # "Locked"

\* Mutant: OTBN's own order is obeyed only while instructions execute.
WipesWhileRunning == IF status = "BusyExecute" /\ busy /\ MemsSecWipe THEN Mem ELSE Ordered

\* dmem_sec_wipe, imem_sec_wipe
SecWipe == IF status # "Idle" /\ busy /\ MemsSecWipe THEN Mem ELSE Ordered

BusyD == (busy \/ StartD) /\ ~Done                           \* busy_execute_d

-----------------------------------------------------------------------------
(* The clock edge. *)

\* Mutant: a stop locks at once in the middle of a wipe, too.
LocksAtOnce ==
  IF Stop THEN "Locked"
  ELSE IF ~in.urndAck THEN "UrndRefresh" ELSE IF ss.again THEN "WipeWdr" ELSE "Running"

\* Mutant: a stop in the middle of a wipe holds the wipe up.
StopHoldsWipe ==
  IF Stop THEN (IF ss.again THEN "UrndRefresh" ELSE "Locked")
  ELSE IF ~in.urndAck THEN "UrndRefresh" ELSE IF ss.again THEN "WipeWdr" ELSE "Running"

\* Before a program a stop locks at once; in the middle of a wipe the seed is awaited.
AfterRefresh ==
  IF Stop /\ ~ss.again THEN "Locked"
  ELSE IF ~in.urndAck THEN "UrndRefresh" ELSE IF ss.again THEN "WipeWdr" ELSE "Running"

NextStartStop ==
  CASE Spurious -> "Locked"
    [] ss.state = "Initial" -> IF in.urndAck THEN "WipeWdr" ELSE "Initial"
    [] ss.state = "UrndRefresh" -> AfterRefresh
    [] ~Spurious /\ ss.state = "Halt" -> IF Stop THEN "Locked" ELSE IF start THEN "UrndRefresh" ELSE "Halt"
    [] ~Spurious /\ ss.state = "Running" -> IF Stop THEN "WipeWdr" ELSE "Running"
    [] ~Spurious /\ ss.state = "WipeWdr" -> IF ss.cnt = LastWdr THEN "WipeBase" ELSE "WipeWdr"
    [] ~Spurious /\ ss.state = "WipeBase" -> IF ss.cnt = LastBase THEN "WipeZero" ELSE "WipeBase"
    [] ~Spurious /\ ss.state = "WipeZero" -> IF ss.again THEN "Complete" ELSE "UrndRefresh"
    [] ~Spurious /\ ss.state = "Complete" -> IF ss.lock \/ Escalated THEN "Locked" ELSE "Halt"
    [] ss.state = "Locked" -> "Locked"

\* Mutant: the address counter is not cleared between the register files.
CounterRunsOn ==
  ss' = [state |-> NextStartStop,
         again |-> ss.state = "WipeZero" \/ (ss.again /\ ss.state # "Complete"),
         lock |-> ss.lock \/ Escalated,
         init |-> ss.init \/ ss.state = "Complete",
         cnt |-> IF ss.state \in {"WipeWdr", "WipeBase"} THEN ss.cnt + 1 ELSE 0,
         err |-> (WipeReq /\ ~WipeAllowed) \/ (InWipe /\ ss.init /\ ~WipeReq),
         urndErr |-> UrndErr]

StartStop ==
  ss' = [state |-> NextStartStop,
         again |-> ss.state = "WipeZero" \/ (ss.again /\ ss.state # "Complete"),
         lock |-> ss.lock \/ Escalated,
         init |-> ss.init \/ ss.state = "Complete",
         cnt |-> IF (ss.state = "WipeWdr" /\ ss.cnt # LastWdr) \/ ss.state = "WipeBase"
                 THEN ss.cnt + 1 ELSE 0,
         err |-> (WipeReq /\ ~WipeAllowed) \/ (InWipe /\ ss.init /\ ~WipeReq),
         urndErr |-> UrndErr]

Controllers ==
  ctl' = [state |-> NextController,
          wiping |-> StartWipe \/ (ctl.wiping /\ ~WipeDone),
          fatal |-> in.insn = "fatalSoftware" \/ (ctl.fatal /\ ~(start /\ ~Locks))]

\* otbn_rnd keeps the request up until EDN answers.
UrndRequest ==
  LET asked == ss.state \in {"Initial", "UrndRefresh"} \/ (ss.state = "Halt" /\ start /\ ~Stop)
  IN urndReq' = ((urndReq \/ asked) /\ ~(urndReq /\ in.urndAck))

\* Mutant: the status forgets the keys that are being fetched.
StatusWithoutKeys ==
  CASE Locks -> "Locked"
    [] ~Locks /\ WipeRunning -> "BusySecWipeInt"
    [] ~Locks /\ ~WipeRunning /\ BusyD -> "BusyExecute"
    [] OTHER -> "Idle"

StatusD ==
  CASE Locks -> "Locked"
    [] ~Locks /\ WipeRunning -> "BusySecWipeInt"
    [] ~Locks /\ ~WipeRunning /\ BusyD -> "BusyExecute"
    [] ~Locks /\ ~WipeRunning /\ ~BusyD /\ KeyReqBusy(Dmem, SecWipe) -> "BusySecWipeDmem"
    [] ~Locks /\ ~WipeRunning /\ ~BusyD /\ ~KeyReqBusy(Dmem, SecWipe)
         /\ KeyReqBusy(Imem, SecWipe) -> "BusySecWipeImem"
    [] OTHER -> "Idle"

Top ==
  /\ start' = StartD /\ busy' = BusyD /\ status' = StatusD /\ locking' = Locks
  /\ illegal' = (IllegalAccess # {}) /\ missed' = MissedGrant
  /\ dummy' = [m \in Mem |-> m \in IllegalAccess]

\* rvalid_o of the memory that was read in the last cycle: it had its key, so that it granted
\* the read, and OTBN was not locking, which is the memory's intg_error_i.
Rvalid == ~missed /\ ~locking

\* rvalid to the bus, for a read of the last cycle; there is no other chance.
Answered == dummy[bus] \/ (~CoreOwns(bus) /\ Rvalid)

Bus == bus' = IF in.req \in Reads THEN in.req[2]
              ELSE IF in.req # <<"none">> THEN "other"
              ELSE IF bus = "lost" \/ (bus \in Mem /\ ~Answered) THEN "lost" ELSE "none"

\* What the next cycle may bring: see the module's head.
NextInputs ==
  [req : {r \in Requests : (bus' # "none" => r = <<"none">>)
                            /\ (r \in Wipes => otp'.key < MaxKeys)},
   insn : IF ctl'.state = "Run" THEN Instructions ELSE {"retire"},
   urndAck : IF urndReq' THEN BOOLEAN ELSE {FALSE}]

Init ==
  /\ ScrambleInit
  /\ ss = [state |-> "Initial", again |-> FALSE, lock |-> FALSE, init |-> FALSE,
           cnt |-> 0, err |-> FALSE, urndErr |-> FALSE]
  /\ ctl = [state |-> "Halt", wiping |-> FALSE, fatal |-> FALSE]
  /\ urndReq = FALSE /\ start = FALSE /\ busy = FALSE
  /\ status = "BusySecWipeInt" /\ locking = FALSE
  /\ illegal = FALSE /\ missed = FALSE
  /\ dummy = [m \in Mem |-> FALSE]
  /\ bus = "none" /\ in = [req |-> <<"none">>, insn |-> "retire", urndAck |-> FALSE]
  /\ exposed = {} /\ owed = 2

Clock ==
  /\ ScrambleClock(SecWipe)
  /\ StartStop /\ Controllers /\ UrndRequest /\ Top /\ Bus
  /\ exposed' = (IF start THEN Mem ELSE exposed) \ Accepted(SecWipe)
  /\ owed' = IF ctl.state = "Run" THEN 2
             ELSE IF ss.state = "WipeZero" /\ owed > 0 THEN owed - 1 ELSE owed
  /\ in' \in NextInputs

Next == Clock

\* The clock runs, and EDN delivers a seed that is asked for, sooner or later.
Fairness == WF_vars(Clock /\ (urndReq' => in'.urndAck))

Spec == Init /\ [][Next]_vars /\ Fairness
-----------------------------------------------------------------------------
TypeOK ==
  /\ ScrambleTypeOK
  /\ ss \in [state : {"Initial", "Halt", "UrndRefresh", "Running", "WipeWdr", "WipeBase",
                      "WipeZero", "Complete", "Locked"},
             again : BOOLEAN, lock : BOOLEAN, init : BOOLEAN, cnt : 0 .. 63,
             err : BOOLEAN, urndErr : BOOLEAN]
  /\ ctl \in [state : {"Halt", "Run", "Locked"}, wiping : BOOLEAN, fatal : BOOLEAN]
  /\ urndReq \in BOOLEAN /\ start \in BOOLEAN /\ busy \in BOOLEAN
  /\ status \in {"Idle", "BusyExecute", "BusySecWipeDmem", "BusySecWipeImem",
                 "BusySecWipeInt", "Locked"}
  /\ locking \in BOOLEAN /\ illegal \in BOOLEAN /\ missed \in BOOLEAN
  /\ dummy \in [Mem -> BOOLEAN] /\ bus \in Mem \cup {"other", "lost", "none"}
  /\ in \in [req : Requests, insn : Instructions, urndAck : BOOLEAN]
  /\ exposed \subseteq Mem /\ owed \in 0 .. 2

\* What STATUS says and the blocks behind it agree: when it reads idle, every block waits
\* for a command and both memories have their keys; the two FSMs run a program together,
\* and only with both keys; OTBN is never locked and busy (otbn.sv, NotBusyAndDone).
StatusTruthful ==
  /\ status = "Idle" \/ start =>
       /\ ss.state = "Halt" /\ ctl.state = "Halt" /\ state = Idle
       /\ \A m \in Mem : valid[m]
  /\ ctl.state = "Run" <=> ss.state = "Running"
  /\ ctl.state = "Run" => \A m \in Mem : valid[m]
  /\ ~(locking /\ busy)

\* The checks of otbn_start_stop_control on its neighbours never fire by themselves: no
\* wipe request is spurious or dropped, and a URND seed comes unexpected only when a stop
\* has locked the FSM while it was on its way.
NoFalseAlarm == ~ss.err /\ (Spurious => ss.state = "Locked")

\* A read that is never answered, and the bus with it, hangs only on an OTBN that a fatal error
\* has locked: with every key in place and OTBN not locked each read is answered, and one that
\* meets a memory without its key is noticed, although it comes when no program runs.
UnansweredIsFatal == bus = "lost" => ctl.state = "Locked"

\* A fatal error that stops a program takes the keys away under which the program's data
\* is stored: from the cycle in which the controller is locked, both are being replaced.
FatalRekeys == ctl.state = "Locked" /\ busy => exposed = {}

\* What a program left in the registers is overwritten twice, with a fresh URND seed in
\* between, before OTBN takes a command again or locks; it locks sooner only when the
\* handshake with EDN has failed.
RegistersWiped == ss.state \in {"Halt", "Locked"} /\ owed > 0 => ss.urndErr

\* The key port of both memories is one that the scrambled RAM (ScrRam) may be given.
DmemPort == INSTANCE KeyPort WITH valid <- valid[Dmem], key <- key[Dmem]
ImemPort == INSTANCE KeyPort WITH valid <- valid[Imem], key <- key[Imem]
FeedsKeyPort == DmemPort!Spec /\ ImemPort!Spec

\* As long as EDN delivers seeds, a wipe of the registers or of a memory ends with OTBN
\* idle or locked, and a memory that lost its key gets another one.
WipesEnd ==
  /\ WipeRunning \/ state # Idle ~> status \in {"Idle", "Locked"}
  /\ \A m \in Mem : ~valid[m] ~> valid[m]

-----------------------------------------------------------------------------
(* The inductive invariant behind the safety properties. *)

\* A memory is without its key exactly while a new one is awaited.
KeyInv == \A m \in Mem : ~valid[m] <=> (pending[m] \/ state = m)

\* A program is about to run, or runs.
Executing == ss.state \in {"Halt", "Running"} \/ (ss.state = "UrndRefresh" /\ ~ss.again)

\* The two FSMs agree on running and wiping, and nothing runs before the first wipe or
\* after an order to lock.
FsmInv ==
  /\ ctl.state = "Run" <=> ss.state = "Running"
  /\ ctl.wiping <=> InWipe /\ ss.init
  /\ ss.state \in {"Initial", "Halt", "Running"} => ~ss.again
  /\ ss.state = "Initial" => ~ss.init
  /\ Executing => ss.init /\ ~ss.lock

\* The controller locks at once, otbn_start_stop_control when the wipe is over; until then
\* one of them remembers it.
LockInv ==
  /\ ss.lock \/ ss.state = "Locked" => ctl.state = "Locked"
  /\ ctl.state = "Locked" => ss.lock \/ ctl.fatal
  /\ ctl.fatal => ctl.state = "Locked" /\ (ss.lock \/ ss.state \in {"WipeWdr", "Locked"})
  /\ ~ss.err
  /\ ss.urndErr => ss.state = "Locked"
  /\ locking => ctl.state = "Locked" /\ ~ctl.wiping /\ ~WipeRunning

\* A seed is on its way only while one is awaited, or after OTBN was locked meanwhile.
InputInv ==
  /\ urndReq => ss.state \in {"Initial", "UrndRefresh", "Locked"}
  /\ in.urndAck => urndReq
  /\ in.insn # "retire" => ctl.state = "Run"
  /\ illegal \/ missed => bus # "none"
  /\ bus # "none" => in.req = <<"none">>
  /\ bus \in Mem /\ CoreOwns(bus) => dummy[bus]

\* Who is busy, and with which keys.
BusyInv ==
  /\ status = "Idle" => ~busy
  /\ status = "BusyExecute" => busy
  /\ start => busy /\ ~illegal /\ ~missed
  /\ ss.state = "Halt" /\ busy => start
  /\ Executing /\ ss.state # "Halt" => busy
  /\ ~ss.init \/ ss.state = "Locked" \/ locking => ~busy
  /\ busy /\ ctl.state # "Locked" => \A m \in Mem : valid[m]

\* How much is left to wipe.
OwedInv ==
  /\ ss.state \in {"Complete", "Locked", "Halt"} \/ (ss.state = "UrndRefresh" /\ ~ss.again) => owed = 0
  /\ ss.again /\ InWipe => owed <= 1

CountInv ==
  /\ ss.state = "WipeWdr" => ss.cnt <= LastWdr
  /\ ss.state = "WipeBase" => ss.cnt <= LastBase

IInv == /\ TypeOK /\ KeyInv /\ FsmInv /\ LockInv /\ InputInv /\ BusyInv /\ OwedInv /\ CountInv
        /\ StatusTruthful /\ FatalRekeys /\ UnansweredIsFatal
=============================================================================
