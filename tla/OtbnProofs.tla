------------------------------ MODULE OtbnProofs ------------------------------
(***************************************************************************)
(* Proofs about OTBN's control, for register files of every size, every    *)
(* program, every behaviour of the bus and of EDN, and without a bound on  *)
(* the number of keys.  All of them rest on the inductive invariant IInv   *)
(* of OtbnControl.                                                         *)
(***************************************************************************)
EXTENDS OtbnControl, TLAPS

\* The invariant holds after reset.
LEMMA InitIInv == Init => IInv
<1> SUFFICES ASSUME Init PROVE IInv
  OBVIOUS
<1> USE DEF Init, ScrambleInit
<1>1. TypeOK
  <2>0. Constant \in {"constant", "urnd", "otp"} \X Nat
    BY DEF Constant
  <2>a. key \in [Mem -> {"constant", "urnd", "otp"} \X Nat]
    BY <2>0
  <2>b. src \in [even : BOOLEAN, req : BOOLEAN, ack1 : BOOLEAN, ack2 : BOOLEAN]
    OBVIOUS
  <2>c. dst \in [even : BOOLEAN, ack : BOOLEAN, req1 : BOOLEAN, req2 : BOOLEAN]
    OBVIOUS
  <2>d. otp \in [pulse : BOOLEAN, ack : BOOLEAN, key : Nat]
    OBVIOUS
  <2>e. pending \in [Mem -> BOOLEAN] /\ valid \in [Mem -> BOOLEAN]
    OBVIOUS
  <2>f. state \in Mem \cup {Idle} /\ answered \in BOOLEAN
    OBVIOUS
  <2>1. ScrambleTypeOK
    BY <2>a, <2>b, <2>c, <2>d, <2>e, <2>f, Zenon DEF ScrambleTypeOK
  <2>2. <<"none">> \in Requests
    BY DEF Requests
  <2>g. in \in [req : Requests, insn : Instructions, urndAck : BOOLEAN]
    BY <2>2 DEF Instructions
  <2>h. dummy \in [Mem -> BOOLEAN]
    OBVIOUS
  <2>i. ss \in [state : {"Initial", "Halt", "UrndRefresh", "Running", "WipeWdr", "WipeBase",
                        "WipeZero", "Complete", "Locked"},
               again : BOOLEAN, lock : BOOLEAN, init : BOOLEAN, cnt : 0 .. 63,
               err : BOOLEAN, urndErr : BOOLEAN]
    OBVIOUS
  <2>j. ctl \in [state : {"Halt", "Run", "Locked"}, wiping : BOOLEAN, fatal : BOOLEAN]
    OBVIOUS
  <2>k. owed \in 0 .. 2
    OBVIOUS
  <2>3. QED
    BY <2>1, <2>g, <2>h, <2>i, <2>j, <2>k DEF TypeOK
<1>2. KeyInv
  BY ScrambleAssumption DEF KeyInv, Mem
<1>3. FsmInv /\ LockInv /\ CountInv
  BY DEF FsmInv, LockInv, CountInv, Executing, InWipe, WipeRunning
<1>4. BusyInv /\ OwedInv /\ StatusTruthful /\ FatalRekeys
  BY DEF BusyInv, OwedInv, StatusTruthful, FatalRekeys, Executing, InWipe
<1>i. InputInv /\ UnansweredIsFatal
  BY ControlAssumption DEF InputInv, UnansweredIsFatal
<1>5. QED
  BY <1>1, <1>2, <1>3, <1>4, <1>i DEF IInv

\* What the registers of the two FSMs are, one by one.
LEMMA Fields ==
  ASSUME TypeOK
  PROVE  /\ ss.state \in {"Initial", "Halt", "UrndRefresh", "Running", "WipeWdr", "WipeBase",
                          "WipeZero", "Complete", "Locked"}
         /\ ss.again \in BOOLEAN /\ ss.lock \in BOOLEAN /\ ss.init \in BOOLEAN
         /\ ss.err \in BOOLEAN /\ ss.urndErr \in BOOLEAN /\ ss.cnt \in 0 .. 63
         /\ ctl.state \in {"Halt", "Run", "Locked"}
         /\ ctl.wiping \in BOOLEAN /\ ctl.fatal \in BOOLEAN
         /\ in.req \in Requests /\ in.insn \in Instructions /\ in.urndAck \in BOOLEAN
BY DEF TypeOK

\* No seed comes unexpected but in the locked state, where the block stays.
LEMMA SeedsExpected ==
  ASSUME IInv
  PROVE  /\ Spurious => ss.state = "Locked"
         /\ UrndErr => ss.state = "Locked"
         /\ UrndErr => ctl.state = "Locked"
BY DEF IInv, InputInv, LockInv, Spurious, UrndErr

\* A wipe is requested when a program ends, and all the time until it is done.
LEMMA RequestWhileWiping ==
  ASSUME IInv
  PROVE  WipeReq <=> \/ ss.state = "Running" /\ (in.insn = "ecall" \/ Err)
                     \/ InWipe /\ ss.init
BY DEF IInv, FsmInv, WipeReq, StartWipe

\* Every reason to lock is known to the controller at once, and to the other FSM before it
\* leaves the wipe.
LEMMA LockTogether ==
  ASSUME IInv
  PROVE  /\ Escalated => NextController = "Locked"
         /\ NextController = "Locked" => ctl.state = "Locked" \/ FatalErr
         /\ NextController = "Locked" => ss.lock \/ Escalated \/ in.insn = "fatalSoftware"
         /\ ctl.state = "Locked" => NextController = "Locked"
<1>1. Escalated => NextController = "Locked"
  BY DEF Escalated, NextController, FatalErr, IInv, LockInv
<1>2. NextController = "Locked" => ctl.state = "Locked" \/ FatalErr
  BY Fields DEF NextController, IInv
<1>3. FatalErr => ss.lock \/ Escalated \/ in.insn = "fatalSoftware"
  BY SeedsExpected DEF FatalErr, Escalated, IInv, LockInv
<1>4. QED
  BY <1>1, <1>2, <1>3 DEF NextController, IInv, LockInv, Escalated

\* The moves of otbn_start_stop_control, state by state.
LEMMA Moves ==
  ASSUME IInv, Clock
  PROVE  /\ ss.state = "Initial" => ss'.state = IF in.urndAck THEN "WipeWdr" ELSE "Initial"
         /\ ss.state = "UrndRefresh" => ss'.state = AfterRefresh
         /\ ss.state = "Halt" =>
              ss'.state = IF Stop THEN "Locked" ELSE IF start THEN "UrndRefresh" ELSE "Halt"
         /\ ss.state = "Running" => ss'.state = IF Stop THEN "WipeWdr" ELSE "Running"
         /\ ss.state = "WipeWdr" => ss'.state = IF ss.cnt = LastWdr THEN "WipeBase" ELSE "WipeWdr"
         /\ ss.state = "WipeBase" => ss'.state = IF ss.cnt = LastBase THEN "WipeZero" ELSE "WipeBase"
         /\ ss.state = "WipeZero" => ss'.state = IF ss.again THEN "Complete" ELSE "UrndRefresh"
         /\ ss.state = "Complete" => ss'.state = IF ss.lock \/ Escalated THEN "Locked" ELSE "Halt"
         /\ ss.state = "Locked" => ss'.state = "Locked"
<1>1. ss'.state = NextStartStop
  BY DEF Clock, StartStop
<1>2. Spurious => ss.state = "Locked"
  BY SeedsExpected
<1>3. QED
  BY <1>1, <1>2 DEF NextStartStop

\* The other registers of the two FSMs.
LEMMA Registers ==
  ASSUME Clock
  PROVE  /\ ss'.again <=> (ss.state = "WipeZero" \/ (ss.again /\ ss.state # "Complete"))
         /\ ss'.lock <=> (ss.lock \/ Escalated)
         /\ ss'.init <=> (ss.init \/ ss.state = "Complete")
         /\ ss'.cnt = IF (ss.state = "WipeWdr" /\ ss.cnt # LastWdr) \/ ss.state = "WipeBase"
                      THEN ss.cnt + 1 ELSE 0
         /\ ss'.err <=> ((WipeReq /\ ~WipeAllowed) \/ (InWipe /\ ss.init /\ ~WipeReq))
         /\ ss'.urndErr <=> UrndErr
         /\ ctl'.state = NextController
         /\ ctl'.wiping <=> (StartWipe \/ (ctl.wiping /\ ~WipeDone))
         /\ ctl'.fatal <=> (in.insn = "fatalSoftware" \/ (ctl.fatal /\ ~(start /\ ~Locks)))
BY DEF Clock, StartStop, Controllers

\* When a stop is seen before or in a program, and what it does to the controller.
LEMMA StopWhileExecuting ==
  ASSUME IInv
  PROVE  /\ Executing /\ ss.state # "Running" => (Stop <=> NextController = "Locked")
         /\ ss.state = "Running" => (Stop <=> NextController # "Run")
         /\ ss.state = "Running" => (Stop <=> WipeReq)
<1>1. Executing => ~UrndErr /\ ~ss.err /\ ~ctl.fatal /\ ctl.state # "Locked"
  BY SeedsExpected DEF IInv, FsmInv, LockInv, Executing
<1>2. Executing /\ ss.state # "Running" => ctl.state = "Halt" /\ in.insn = "retire" /\ ~WipeReq
  BY <1>1, Fields, RequestWhileWiping DEF IInv, FsmInv, InputInv, Executing, InWipe
<1>3. Executing /\ ss.state # "Running" => (Stop <=> NextController = "Locked")
  BY <1>1, <1>2 DEF Stop, Escalated, NextController, FatalErr, ControllerStart
<1>4. ss.state = "Running" => ctl.state = "Run" /\ ~ctl.fatal /\ ~InWipe
  BY <1>1 DEF IInv, FsmInv, Executing, InWipe
<1>5. ss.state = "Running" => (Stop <=> WipeReq)
  BY <1>4, RequestWhileWiping DEF Stop, Escalated, Err, FatalErr
<1>6. ss.state = "Running" => (WipeReq <=> NextController # "Run")
  BY <1>4, RequestWhileWiping DEF NextController, Err
<1>7. QED
  BY <1>3, <1>5, <1>6

LEMMA FsmStep == ASSUME IInv, Clock PROVE FsmInv'
<1> USE Moves, Registers
<1>1. (ctl.state = "Run" <=> ss.state = "Running")'
  <2>1. ss.state = "Running" => (ctl'.state = "Run" <=> ss'.state = "Running")
    BY StopWhileExecuting
  <2>2. ss.state # "Running" => (ctl'.state = "Run" <=> ss.state = "UrndRefresh" /\ ~ss.again /\ in.urndAck /\ ~Stop)
    BY StopWhileExecuting, Fields DEF NextController, ControllerStart, Executing, IInv, FsmInv
  <2>3. ss.state # "Running" => (ss'.state = "Running" <=> ss.state = "UrndRefresh" /\ ~ss.again /\ in.urndAck /\ ~Stop)
    BY Fields DEF AfterRefresh, IInv
  <2>4. QED
    BY <2>1, <2>2, <2>3
<1>2. (ctl.wiping <=> InWipe /\ ss.init)'
  <2>1. ss.state = "Running" => ~InWipe /\ ~ss.again /\ ss.init
    BY DEF IInv, FsmInv, InWipe, Executing
  <2>2. ss.state = "Running" => (ctl'.wiping <=> ss'.state = "WipeWdr")
    BY <2>1, StopWhileExecuting DEF WipeReq, IInv, FsmInv
  <2>3. ss.state = "Running" => ss'.state \in {"Running", "WipeWdr"} /\ ~ss'.again /\ ss'.init
    BY <2>1
  <2>4. ss.state # "Running" => ~StartWipe
    BY DEF StartWipe, IInv, FsmInv
  <2>5. InWipe => (InWipe' <=> ~WipeDone)
    BY Fields DEF IInv, InWipe, WipeDone, AfterRefresh
  <2>6. InWipe => (ss'.init <=> ss.init)
    BY DEF InWipe
  <2>7. ~InWipe /\ ss.state # "Running" => ~InWipe' \/ ~ss'.init
    <3>1. CASE ss.state = "Initial"
      BY <3>1 DEF IInv, FsmInv
    <3>2. CASE ss.state = "UrndRefresh" /\ ~ss.again
      BY <3>2 DEF InWipe, AfterRefresh
    <3>3. CASE ss.state \in {"Halt", "Complete", "Locked"}
      BY <3>3 DEF IInv, FsmInv, InWipe
    <3>4. QED
      BY <3>1, <3>2, <3>3, Fields DEF IInv, InWipe
  <2>8. QED
    BY <2>1, <2>2, <2>3, <2>4, <2>5, <2>6, <2>7 DEF IInv, FsmInv, InWipe
<1>3. (ss.state \in {"Initial", "Halt", "Running"} => ~ss.again)'
  BY Fields DEF IInv, FsmInv, AfterRefresh
<1>4. (ss.state = "Initial" => ~ss.init)'
  BY Fields DEF IInv, FsmInv, AfterRefresh
<1>5. (Executing => ss.init /\ ~ss.lock)'
  <2>1. Executing' => \/ Executing /\ ~Stop
                      \/ ss.state = "Complete" /\ ~ss.lock /\ ~Escalated
    BY Fields DEF IInv, AfterRefresh, Executing
  <2>2. Escalated => Stop
    BY DEF Stop
  <2>3. QED
    BY <2>1, <2>2 DEF IInv, FsmInv
<1>6. QED
  BY <1>1, <1>2, <1>3, <1>4, <1>5 DEF FsmInv

\* Both FSMs lock for the same reasons.
LEMMA LockStep == ASSUME IInv, Clock PROVE LockInv'
<1> USE Moves, Registers
<1>1. (ss.lock => ctl.state = "Locked")'
  BY LockTogether DEF IInv, LockInv
<1>2. (ss.state = "Locked" => ctl.state = "Locked")'
  <2>1. ss'.state = "Locked" => \/ ss.state = "Locked"
                                \/ Executing /\ ss.state # "Running" /\ Stop
                                \/ ss.lock \/ Escalated
    BY Fields DEF IInv, AfterRefresh, Executing
  <2>2. QED
    BY <2>1, LockTogether, StopWhileExecuting DEF IInv, LockInv
<1>3. (ctl.state = "Locked" => ss.lock \/ ctl.fatal)'
  BY LockTogether
<1>4. (ctl.fatal => ctl.state = "Locked" /\ (ss.lock \/ ss.state \in {"WipeWdr", "Locked"}))'
  <2>1. CASE in.insn = "fatalSoftware"
    <3>1. ctl.state = "Run" /\ ss.state = "Running" /\ FatalErr
      BY <2>1 DEF IInv, InputInv, FsmInv, FatalErr
    <3>2. QED
      BY <3>1, StopWhileExecuting DEF NextController
  <2>2. CASE ctl.fatal
    BY <2>2, LockTogether DEF IInv, LockInv, Escalated
  <2>3. QED
    BY <2>1, <2>2
<1>5. (~ss.err)'
  <2>1. WipeReq => WipeAllowed
    BY RequestWhileWiping DEF WipeAllowed
  <2>2. InWipe /\ ss.init => WipeReq
    BY RequestWhileWiping
  <2>3. QED
    BY <2>1, <2>2
<1>6. (ss.urndErr => ss.state = "Locked")'
  BY SeedsExpected
<1>7. (locking => ctl.state = "Locked" /\ ~ctl.wiping /\ ~WipeRunning)'
  <2> SUFFICES ASSUME Locks PROVE (ctl.state = "Locked" /\ ~ctl.wiping /\ ~WipeRunning)'
    BY DEF Clock, Top
  <2>1. NextController = "Locked"
    BY DEF Locks
  <2>2. ~InWipe /\ ss.state # "Initial" /\ ~WipeReq
    BY SeedsExpected, RequestWhileWiping DEF Locks, WipeRunning, InWipe
  <2>3. ss.state # "Running"
    BY <2>1, <2>2, StopWhileExecuting
  <2>4. ~WipeRunning'
    <3>1. ss.state \in {"Halt", "UrndRefresh", "Complete", "Locked"}
      BY <2>2, <2>3, Fields DEF IInv, InWipe
    <3>2. CASE ss.state = "UrndRefresh" /\ ~ss.again
      BY <3>2 DEF InWipe, WipeRunning, AfterRefresh
    <3>3. CASE ss.state \in {"Halt", "Complete", "Locked"}
      BY <3>3 DEF IInv, FsmInv, InWipe, WipeRunning
    <3>4. QED
      BY <3>1, <3>2, <3>3, <2>2 DEF InWipe
  <2>5. QED
    BY <2>1, <2>2, <2>4 DEF WipeReq
<1>8. QED
  BY <1>1, <1>2, <1>3, <1>4, <1>5, <1>6, <1>7 DEF LockInv

\* A command or an access waits for the one before to be answered.
LEMMA NextCycle ==
  ASSUME Clock
  PROVE  /\ in'.req \in Requests /\ in'.urndAck \in BOOLEAN
         /\ bus' # "none" => in'.req = <<"none">>
         /\ in'.insn \in Instructions
         /\ in'.insn # "retire" => ctl'.state = "Run"
         /\ in'.urndAck => urndReq'
         /\ in' \in [req : Requests, insn : Instructions, urndAck : BOOLEAN]
<1>1. in' \in NextInputs
  BY DEF Clock
<1>2. QED
  BY <1>1 DEF NextInputs, Instructions

LEMMA AccessesWait ==
  ASSUME TypeOK, Clock, IllegalAccess # {} \/ MissedGrant \/ in.req \in Accesses
  PROVE  bus' # "none"
<1>1. in.req \in Accesses
  BY DEF IllegalAccess, MissedGrant, Accessed
<1>2. in.req # <<"none">>
  BY <1>1 DEF Accesses, Reads
<1>3. in.req \in Reads => in.req[2] # "none"
  BY ControlAssumption DEF Reads
<1>4. QED
  BY <1>2, <1>3 DEF Clock, Bus

LEMMA InputStep == ASSUME IInv, Clock PROVE InputInv'
<1>1. (urndReq => ss.state \in {"Initial", "UrndRefresh", "Locked"})'
  <2> SUFFICES ASSUME urndReq' PROVE ss'.state \in {"Initial", "UrndRefresh", "Locked"}
    OBVIOUS
  <2>1. ~(urndReq /\ in.urndAck)
    BY DEF Clock, UrndRequest
  <2>2. ~in.urndAck
    BY <2>1 DEF IInv, InputInv
  <2>3. ss.state \in {"Initial", "UrndRefresh", "Locked"} \/ (ss.state = "Halt" /\ start /\ ~Stop)
    BY DEF Clock, UrndRequest, IInv, InputInv
  <2>4. QED
    BY <2>2, <2>3, Moves DEF AfterRefresh
<1>2. (illegal \/ missed => bus # "none")'
  BY AccessesWait DEF IInv, Clock, Top
<1>3. (bus \in Mem /\ CoreOwns(bus) => dummy[bus])'
  <2> SUFFICES ASSUME bus' \in Mem, busy' \/ (bus' = Imem /\ start') PROVE dummy'[bus']
    BY DEF CoreOwns
  <2>1. in.req \in Reads /\ bus' = in.req[2]
    BY ControlAssumption DEF Clock, Bus
  <2>2. ~StartD
    BY <2>1 DEF StartD, Reads
  <2>3. busy
    BY <2>2 DEF Clock, Top, BusyD
  <2>4. bus' \in IllegalAccess
    BY <2>1, <2>3 DEF IllegalAccess, Accessed, Accesses, CoreOwns
  <2>5. QED
    BY <2>4 DEF Clock, Top
<1>4. QED
  BY <1>1, <1>2, <1>3, NextCycle DEF InputInv

\* What a cycle does to the key of one memory.
LEMMA KeysMove ==
  ASSUME Clock, NEW m \in Mem
  PROVE  /\ valid'[m] <=> m \in Served \/ (valid[m] /\ m \notin Accepted(SecWipe))
         /\ pending'[m] <=> (pending[m] /\ m \notin Served) \/ m \in Accepted(SecWipe)
         /\ key'[m] = IF m \in Served THEN OtpKey(otp.key)
                      ELSE IF m \in Accepted(SecWipe) THEN Random ELSE key[m]
         /\ state' = NextState
BY DEF Clock, ScrambleClock, Controller, NextPending

\* A memory loses its key only to ask for another one, and gets it only when it has asked.
LEMMA KeyStep == ASSUME IInv, Clock PROVE KeyInv'
<1> SUFFICES ASSUME NEW m \in Mem PROVE (~valid[m] <=> (pending[m] \/ state = m))'
  BY DEF KeyInv
<1>1. ~valid[m] <=> (pending[m] \/ state = m)
  BY DEF IInv, KeyInv
<1>2. m # Idle /\ state \in Mem \cup {Idle}
  BY ScrambleAssumption DEF IInv, TypeOK, ScrambleTypeOK
<1>3. m \in Served <=> KeyAck /\ state = m
  BY DEF Served
<1>4. m \in Accepted(SecWipe) => state # m
  BY DEF Accepted
<1>5. state' = m <=> \/ state = Idle /\ m = Dmem /\ pending[Dmem]
                     \/ state = Idle /\ m = Imem /\ ~pending[Dmem] /\ pending[Imem]
                     \/ state = m /\ ~KeyAck
  BY <1>2, KeysMove, ScrambleAssumption DEF NextState, Mem
<1>6. state' = m => (pending[m] /\ state = Idle) \/ (state = m /\ ~KeyAck)
  BY <1>5
<1>7. CASE state = m
  BY <1>1, <1>2, <1>3, <1>4, <1>5, <1>7, KeysMove
<1>8. CASE state # m
  BY <1>1, <1>2, <1>3, <1>4, <1>6, <1>8, KeysMove
<1>9. QED
  BY <1>7, <1>8

\* Nothing stops OTBN in the cycle of a command to start, nor in the next one.
LEMMA QuietStart ==
  ASSUME IInv, StartD \/ start
  PROVE  /\ ss.state = "Halt" /\ ~Stop /\ NextController = "Halt"
         /\ SecWipe = {} /\ ~Done /\ \A m \in Mem : valid[m]
<1>1. ss.state = "Halt" /\ ctl.state = "Halt" /\ \A m \in Mem : valid[m]
  BY DEF IInv, StatusTruthful, StartD
<1>2. ~illegal /\ ~missed
  <2>1. StartD => in.req # <<"none">>
    BY DEF StartD
  <2>2. QED
    BY <2>1 DEF IInv, InputInv, BusyInv
<1>3. ~Stop /\ NextController # "Locked" /\ ~Spurious
  <2>1. Executing /\ ~ctl.fatal /\ ~CoreEscalate /\ in.insn = "retire"
    BY <1>1, <1>2, Fields DEF Executing, CoreEscalate, IInv, LockInv, InputInv
  <2>2. ~WipeReq
    BY <1>1, RequestWhileWiping DEF InWipe
  <2>3. QED
    BY <1>1, <2>1, <2>2, StopWhileExecuting, SeedsExpected DEF Stop, Escalated
<1>4. NextController = "Halt"
  BY <1>1, <1>3 DEF NextController, ControllerStart
<1>5. SecWipe = {}
  BY <1>4 DEF SecWipe, Ordered, MemsSecWipe, StartD, IInv, BusyInv, Wipes
<1>6. ~Done
  BY <1>1, <1>3 DEF Done
<1>7. QED
  BY <1>1, <1>3, <1>4, <1>5, <1>6

\* What can be read off the next status.
LEMMA StatusCases ==
  /\ StatusD = "Idle" => /\ ~Locks /\ ~WipeRunning /\ ~BusyD
                         /\ \A m \in Mem : ~KeyReqBusy(m, SecWipe)
  /\ StatusD = "BusyExecute" => BusyD
  /\ StatusD = "Locked" => Locks
BY DEF StatusD, Mem

\* OTBN locks only when nothing is left to wipe, and no program is left to be stopped.
LEMMA LocksWhen ==
  ASSUME IInv
  PROVE  /\ Locks => \/ ss.state \in {"Complete", "Locked"}
                     \/ Executing /\ ss.state # "Running" /\ Stop
         /\ NextController = "Locked" /\ ~WipeRunning /\ ss.state # "Running" => Locks
<1>1. Locks => NextController = "Locked" /\ ~InWipe /\ ss.state # "Initial" /\ ~WipeReq
  BY SeedsExpected, RequestWhileWiping DEF Locks, WipeRunning, InWipe
<1>2. Locks => ss.state # "Running"
  BY <1>1, StopWhileExecuting
<1>3. Locks => \/ ss.state \in {"Complete", "Locked"}
               \/ Executing /\ ss.state # "Running" /\ Stop
  BY <1>1, <1>2, StopWhileExecuting, Fields DEF IInv, Executing, InWipe
<1>4. ~WipeRunning /\ ss.state # "Running" => ~WipeReq
  BY RequestWhileWiping DEF WipeRunning
<1>5. QED
  BY <1>3, <1>4 DEF Locks

\* A program that is over, or was stopped before it began, does not stay busy.
LEMMA LockedNotBusy ==
  ASSUME IInv, \/ ss.state \in {"Complete", "Locked"}
               \/ Executing /\ ss.state # "Running" /\ Stop
  PROVE  ~BusyD
<1>1. ~StartD
  BY QuietStart
<1>2. CASE ss.state = "Complete"
  BY <1>1, <1>2 DEF BusyD, Done, IInv, BusyInv
<1>3. CASE ss.state = "Locked"
  BY <1>1, <1>3 DEF BusyD, IInv, BusyInv
<1>4. CASE ss.state = "Halt" /\ Stop
  BY <1>1, <1>4, QuietStart DEF BusyD, IInv, BusyInv
<1>5. CASE ss.state = "UrndRefresh" /\ ~ss.again /\ Stop
  BY <1>1, <1>5 DEF BusyD, Done
<1>6. QED
  BY <1>2, <1>3, <1>4, <1>5 DEF Executing

LEMMA BusyStep == ASSUME IInv, Clock PROVE BusyInv'
<1>1. /\ status' = StatusD /\ (busy' <=> BusyD) /\ (start' <=> StartD) /\ (locking' <=> Locks)
      /\ (illegal' <=> IllegalAccess # {}) /\ (missed' <=> MissedGrant)
  BY DEF Clock, Top
<1>2. (status = "Idle" => ~busy)' /\ (status = "BusyExecute" => busy)'
  BY <1>1, StatusCases
<1>3. (start => busy /\ ~illegal /\ ~missed)'
  <2> SUFFICES ASSUME StartD PROVE BusyD /\ IllegalAccess = {} /\ ~MissedGrant
    BY <1>1
  <2>1. in.req \notin Accesses
    BY DEF StartD, Accesses, Reads
  <2>2. QED
    BY <2>1, QuietStart DEF BusyD, IllegalAccess, MissedGrant, Accessed
<1>4. (ss.state = "Halt" /\ busy => start)'
  <2> SUFFICES ASSUME ss'.state = "Halt", BusyD, ~StartD PROVE FALSE
    BY <1>1
  <2>1. ss.state = "Complete" \/ (ss.state = "Halt" /\ ~start)
    BY Moves, Fields DEF AfterRefresh, IInv
  <2>2. busy /\ ss.state # "Complete"
    BY LockedNotBusy DEF BusyD
  <2>3. QED
    BY <2>1, <2>2 DEF IInv, BusyInv
<1>5. (Executing /\ ss.state # "Halt" => busy)'
  <2> SUFFICES ASSUME Executing', ss'.state # "Halt" PROVE BusyD
    BY <1>1
  <2>1. \/ ss.state = "Halt" /\ start
        \/ Executing /\ ss.state # "Halt" /\ ~Stop
    BY Moves, Registers, Fields DEF AfterRefresh, IInv, Executing
  <2>2. busy
    BY <2>1 DEF IInv, BusyInv
  <2>3. ~Done
    BY <2>1, QuietStart, SeedsExpected DEF Done, Executing
  <2>4. QED
    BY <2>2, <2>3 DEF BusyD
<1>6. (~ss.init \/ ss.state = "Locked" \/ locking => ~busy)'
  <2>1. ~ss'.init => ~BusyD
    BY Registers, QuietStart DEF IInv, FsmInv, BusyInv, BusyD, Executing
  <2>2. ss'.state = "Locked" => ~BusyD
    <3>1. ss'.state = "Locked" => \/ ss.state \in {"Complete", "Locked"}
                                  \/ Executing /\ ss.state # "Running" /\ Stop
      BY Moves, Fields DEF AfterRefresh, IInv, Executing
    <3>2. QED
      BY <3>1, LockedNotBusy
  <2>3. Locks => ~BusyD
    BY LocksWhen, LockedNotBusy
  <2>4. QED
    BY <1>1, <2>1, <2>2, <2>3
<1>7. (busy /\ ctl.state # "Locked" => \A m \in Mem : valid[m])'
  <2> SUFFICES ASSUME BusyD, NextController # "Locked", NEW m \in Mem PROVE valid'[m]
    BY <1>1, Registers
  <2>1. CASE StartD
    BY <2>1, QuietStart, KeysMove DEF Accepted
  <2>2. CASE busy
    <3>1. status # "Idle" /\ SecWipe = {}
      BY <2>2 DEF SecWipe, MemsSecWipe, Ordered, IInv, BusyInv
    <3>2. valid[m]
      BY <2>2, LockTogether DEF IInv, BusyInv
    <3>3. QED
      BY <3>1, <3>2, KeysMove DEF Accepted
  <2>3. QED
    BY <2>1, <2>2 DEF BusyD
<1>8. QED
  BY <1>2, <1>3, <1>4, <1>5, <1>6, <1>7 DEF BusyInv

\* The status becomes idle, or a command to start is taken, only when all is at rest.
LEMMA StatusStep == ASSUME IInv, Clock PROVE StatusTruthful'
<1>1. /\ status' = StatusD /\ (busy' <=> BusyD) /\ (start' <=> StartD) /\ (locking' <=> Locks)
  BY DEF Clock, Top
<1>2. /\ FsmInv' /\ KeyInv' /\ BusyInv'
  BY FsmStep, KeyStep, BusyStep
<1>3. StartD => /\ ss'.state = "Halt" /\ ctl'.state = "Halt" /\ state' = Idle
                /\ \A m \in Mem : valid'[m]
  <2> SUFFICES ASSUME StartD
               PROVE /\ ss'.state = "Halt" /\ ctl'.state = "Halt" /\ state' = Idle
                     /\ \A m \in Mem : valid'[m]
    OBVIOUS
  <2>1. ss'.state = "Halt" /\ ctl'.state = "Halt"
    <3>1. ~start
      BY DEF StartD, IInv, BusyInv
    <3>2. QED
      BY <3>1, QuietStart, Moves, Registers
  <2>2. \A m \in Mem : valid'[m]
    BY QuietStart, KeysMove DEF Accepted
  <2>3. state = Idle /\ \A m \in Mem : ~pending[m]
    BY QuietStart DEF IInv, StatusTruthful, KeyInv, StartD
  <2>4. state' = Idle
    BY <2>3, Registers DEF NextState, Clock, ScrambleClock, Controller, Mem
  <2>5. QED
    BY <2>1, <2>2, <2>4
<1>4. StatusD = "Idle" => /\ ss'.state = "Halt" /\ ctl'.state = "Halt" /\ state' = Idle
                         /\ \A m \in Mem : valid'[m]
  <2> SUFFICES ASSUME StatusD = "Idle"
               PROVE /\ ss'.state = "Halt" /\ ctl'.state = "Halt" /\ state' = Idle
                     /\ \A m \in Mem : valid'[m]
    OBVIOUS
  <2>1. ~Locks /\ ~WipeRunning /\ ~BusyD
    BY StatusCases
  <2>2. ~(Executing /\ ss.state # "Halt" /\ ~Stop) /\ ~(ss.state = "Halt" /\ start)
    BY <2>1, QuietStart, SeedsExpected DEF IInv, BusyInv, BusyD, Done, Executing
  <2>3. ss.state # "Running"
    <3>1. ss.state = "Running" => busy /\ ~Done
      BY SeedsExpected DEF IInv, BusyInv, Done, Executing
    <3>2. QED
      BY <2>1, <3>1 DEF BusyD
  <2>4. NextController # "Locked"
    BY <2>1, <2>3, LocksWhen
  <2>5. ~Stop \/ ~Executing
    BY <2>3, <2>4, StopWhileExecuting
  <2>6. ss.state = "Halt" \/ (ss.state = "Complete" /\ ~ss.lock /\ ~Escalated)
    BY <2>1, <2>2, <2>3, <2>4, <2>5, LockTogether, Fields DEF IInv, LockInv, Executing, WipeRunning, InWipe
  <2>7. ss'.state = "Halt"
    BY <2>2, <2>5, <2>6, Moves DEF Executing
  <2>8. ctl'.state = "Halt"
    <3>1. NextController \in {"Halt", "Run", "Locked"}
      BY Fields DEF NextController, IInv
    <3>2. QED
      BY <1>2, <2>4, <2>7, <3>1, Registers DEF FsmInv
  <2>9. state' = Idle /\ \A m \in Mem : valid'[m]
    <3>1. \A m \in Mem : state' # m /\ ~pending'[m]
      BY StatusCases DEF KeyReqBusy, Clock, ScrambleClock, Controller
    <3>2. state' \in Mem \cup {Idle}
      BY DEF Clock, ScrambleClock, Controller, NextState, Mem, IInv, TypeOK, ScrambleTypeOK
    <3>3. QED
      BY <1>2, <3>1, <3>2 DEF KeyInv
  <2>10. QED
    BY <2>7, <2>8, <2>9
<1>5. (ctl.state = "Run" => \A m \in Mem : valid[m])'
  BY <1>2 DEF FsmInv, BusyInv, Executing
<1>6. QED
  BY <1>1, <1>2, <1>3, <1>4, <1>5 DEF StatusTruthful, FsmInv, BusyInv

\* When the controller locks, OTBN orders new keys for a program that is still busy.
LEMMA RekeyStep == ASSUME IInv, Clock PROVE FatalRekeys'
<1> SUFFICES ASSUME ctl'.state = "Locked", busy' PROVE exposed' = {}
  BY DEF FatalRekeys
<1>1. NextController = "Locked" /\ BusyD
  BY Registers DEF Clock, Top
<1>2. busy /\ ~start
  <2>1. ~StartD
    BY <1>1, QuietStart
  <2>2. start => ss.state = "Halt" /\ Stop
    BY <1>1, StopWhileExecuting DEF IInv, StatusTruthful, Executing
  <2>3. QED
    BY <1>1, <2>1, <2>2, LockedNotBusy DEF BusyD, Executing
<1>3. exposed' = exposed \ Accepted(SecWipe) /\ exposed \subseteq Mem
  BY <1>2 DEF Clock, IInv, TypeOK
<1>4. CASE ctl.state = "Locked"
  BY <1>2, <1>3, <1>4 DEF IInv, FatalRekeys
<1>5. CASE ctl.state # "Locked"
  <2>1. \A m \in Mem : valid[m] /\ state # m
    BY <1>2, <1>5 DEF IInv, BusyInv, KeyInv
  <2>2. SecWipe = Mem
    BY <1>1, <1>2, <1>5 DEF SecWipe, MemsSecWipe, IInv, BusyInv
  <2>3. Accepted(SecWipe) = Mem
    BY <2>1, <2>2 DEF Accepted
  <2>4. QED
    BY <1>3, <2>3
<1>6. QED
  BY <1>4, <1>5

\* A read is left without an answer only when its memory had no key, which stops OTBN now,
\* or when OTBN was locking.
LEMMA UnansweredStep == ASSUME IInv, Clock PROVE UnansweredIsFatal'
<1> SUFFICES ASSUME bus' = "lost" PROVE ctl'.state = "Locked"
  BY DEF UnansweredIsFatal
<1>1. in.req \in Reads => in.req[2] # "lost"
  BY ControlAssumption DEF Reads
<1>2. bus = "lost" \/ (bus \in Mem /\ ~Answered)
  BY <1>1 DEF Clock, Bus
<1>3. ctl.state = "Locked" => ctl'.state = "Locked"
  BY LockTogether, Registers
<1>4. CASE bus = "lost"
  BY <1>3, <1>4 DEF IInv, UnansweredIsFatal
<1>5. CASE bus \in Mem /\ ~Answered
  <2>1. missed \/ locking
    BY <1>5 DEF Answered, Rvalid, IInv, InputInv
  <2>2. missed => NextController = "Locked"
    BY DEF CoreEscalate, FatalErr, NextController
  <2>3. QED
    BY <1>3, <2>1, <2>2, Registers DEF IInv, LockInv
<1>6. QED
  BY <1>2, <1>4, <1>5

\* Two rounds are owed while a program runs, and each round pays one of them.
LEMMA OwedStep == ASSUME IInv, Clock PROVE OwedInv'
<1>1. owed' = IF ss.state = "Running" THEN 2
              ELSE IF ss.state = "WipeZero" /\ owed > 0 THEN owed - 1 ELSE owed
  BY DEF Clock, IInv, FsmInv
<1>2. owed \in 0 .. 2
  BY DEF IInv, TypeOK
<1>3. /\ ss.state \in {"Complete", "Locked", "Halt"} \/ (ss.state = "UrndRefresh" /\ ~ss.again) => owed = 0
      /\ ss.again /\ InWipe => owed <= 1
  BY DEF IInv, OwedInv
<1>4. ss.state \in {"Initial", "Halt", "Running"} => ~ss.again
  BY DEF IInv, FsmInv
<1>5. (ss.state \in {"Complete", "Locked", "Halt"} \/ (ss.state = "UrndRefresh" /\ ~ss.again) => owed = 0)'
  <2>1. CASE ss.state = "WipeZero"
    BY <1>1, <1>2, <1>3, <2>1, Moves, Registers DEF InWipe
  <2>2. CASE ss.state = "UrndRefresh" /\ ss.again
    BY <2>2, Moves, Registers DEF AfterRefresh
  <2>3. CASE ss.state \in {"Initial", "Running", "WipeWdr", "WipeBase"}
    BY <2>3, Moves
  <2>4. CASE ss.state \in {"Complete", "Locked", "Halt"} \/ (ss.state = "UrndRefresh" /\ ~ss.again)
    BY <1>1, <1>3, <2>4
  <2>5. QED
    BY <2>1, <2>2, <2>3, <2>4, Fields DEF IInv
<1>6. (ss.again /\ InWipe => owed <= 1)'
  <2>1. CASE ss.state = "WipeZero"
    BY <1>1, <1>2, <2>1
  <2>2. CASE ss.again /\ InWipe /\ ss.state # "WipeZero"
    BY <1>1, <1>3, <2>2 DEF InWipe
  <2>3. CASE ~ss.again /\ ss.state # "WipeZero"
    BY <2>3, Registers
  <2>4. CASE ss.again /\ ~InWipe
    <3>1. ss.state \in {"Complete", "Locked"}
      BY <1>4, <2>4, Fields DEF InWipe, IInv
    <3>2. QED
      BY <3>1, Moves DEF InWipe
  <2>5. QED
    BY <2>1, <2>2, <2>3, <2>4, Registers DEF IInv, TypeOK
<1>7. QED
  BY <1>5, <1>6 DEF OwedInv

\* The address counter starts each register file at zero and stops at its last register.
LEMMA CountStep == ASSUME IInv, Clock PROVE CountInv'
<1>1. LastWdr \in 0 .. 63 /\ LastBase \in 0 .. 62 /\ ss.cnt \in Nat
  BY ControlAssumption, Fields DEF IInv
<1>2. ss.state = "WipeWdr" => ss.cnt <= LastWdr
  BY DEF IInv, CountInv
<1>3. ss.state = "WipeBase" => ss.cnt <= LastBase
  BY DEF IInv, CountInv
<1>4. ss'.state = "WipeWdr" => ss'.cnt <= LastWdr
  <2>1. CASE ss.state = "WipeWdr"
    BY <1>1, <1>2, <2>1, Moves, Registers
  <2>2. CASE ss.state = "WipeBase"
    BY <2>2, Moves
  <2>3. CASE ss.state \notin {"WipeWdr", "WipeBase"}
    BY <1>1, <2>3, Registers
  <2>4. QED
    BY <2>1, <2>2, <2>3
<1>5. ss'.state = "WipeBase" => ss'.cnt <= LastBase
  <2>1. CASE ss.state = "WipeWdr"
    BY <1>1, <2>1, Moves, Registers
  <2>2. CASE ss.state = "WipeBase"
    BY <1>1, <1>3, <2>2, Moves, Registers
  <2>3. CASE ss.state \notin {"WipeWdr", "WipeBase"}
    BY <1>1, <2>3, Registers
  <2>4. QED
    BY <2>1, <2>2, <2>3
<1>6. QED
  BY <1>4, <1>5 DEF CountInv

\* The keys and the synchroniser keep their types.
LEMMA ScrambleTypeStep == ASSUME IInv, Clock PROVE ScrambleTypeOK'
<1> USE DEF Clock, ScrambleClock
<1>1. ScrambleTypeOK
  BY DEF IInv, TypeOK
<1>2. (state \in Mem \cup {Idle})'
  BY <1>1 DEF Controller, NextState, ScrambleTypeOK, Mem
<1>3. (pending \in [Mem -> BOOLEAN])'
  BY DEF Controller, NextPending
<1>4. (valid \in [Mem -> BOOLEAN])'
  BY DEF Controller
<1>5. (key \in [Mem -> {"constant", "urnd", "otp"} \X Nat])'
  <2>1. \A m \in Mem : key[m] \in {"constant", "urnd", "otp"} \X Nat
    BY <1>1 DEF ScrambleTypeOK
  <2>2. OtpKey(otp.key) \in {"constant", "urnd", "otp"} \X Nat
    BY <1>1 DEF ScrambleTypeOK, OtpKey
  <2>3. Random \in {"constant", "urnd", "otp"} \X Nat
    BY DEF Random
  <2>4. key' = [m \in Mem |-> IF m \in Served THEN OtpKey(otp.key)
                              ELSE IF m \in Accepted(SecWipe) THEN Random ELSE key[m]]
    BY DEF Controller
  <2>5. QED
    BY <2>1, <2>2, <2>3, <2>4
<1>6. (src \in [even : BOOLEAN, req : BOOLEAN, ack1 : BOOLEAN, ack2 : BOOLEAN])'
  BY <1>1 DEF Synchroniser, ScrambleTypeOK, KeyReq
<1>7. (dst \in [even : BOOLEAN, ack : BOOLEAN, req1 : BOOLEAN, req2 : BOOLEAN])'
  BY <1>1 DEF Synchroniser, ScrambleTypeOK
<1>8. (otp \in [pulse : BOOLEAN, ack : BOOLEAN, key : Nat])'
  BY <1>1 DEF OtpController, ScrambleTypeOK, OtpReq
<1>9. (answered \in BOOLEAN)'
  BY <1>1 DEF ScrambleTypeOK, DstHandshake, OtpReq, SrcHandshake
<1>10. QED
  BY <1>2, <1>3, <1>4, <1>5, <1>6, <1>7, <1>8, <1>9 DEF ScrambleTypeOK

LEMMA TypeStep == ASSUME IInv, Clock PROVE TypeOK'
<1>1. ScrambleTypeOK'
  BY ScrambleTypeStep
<1>2. (ss \in [state : {"Initial", "Halt", "UrndRefresh", "Running", "WipeWdr", "WipeBase",
                        "WipeZero", "Complete", "Locked"},
               again : BOOLEAN, lock : BOOLEAN, init : BOOLEAN, cnt : 0 .. 63,
               err : BOOLEAN, urndErr : BOOLEAN])'
  <2>1. NextStartStop \in {"Initial", "Halt", "UrndRefresh", "Running", "WipeWdr", "WipeBase",
                           "WipeZero", "Complete", "Locked"}
    <3>1. ss'.state = NextStartStop
      BY DEF Clock, StartStop
    <3>2. QED
      BY <3>1, Moves, Fields DEF IInv, AfterRefresh
  <2>2. (IF (ss.state = "WipeWdr" /\ ss.cnt # LastWdr) \/ ss.state = "WipeBase"
         THEN ss.cnt + 1 ELSE 0) \in 0 .. 63
    <3>1. ss.cnt \in 0 .. 63 /\ LastWdr \in 0 .. 63 /\ LastBase \in 0 .. 62
      BY Fields, ControlAssumption DEF IInv
    <3>2. (ss.state = "WipeWdr" => ss.cnt <= LastWdr) /\ (ss.state = "WipeBase" => ss.cnt <= LastBase)
      BY DEF IInv, CountInv
    <3>3. QED
      BY <3>1, <3>2
  <2>3. /\ (ss.state = "WipeZero" \/ (ss.again /\ ss.state # "Complete")) \in BOOLEAN
        /\ (ss.lock \/ Escalated) \in BOOLEAN /\ (ss.init \/ ss.state = "Complete") \in BOOLEAN
        /\ ((WipeReq /\ ~WipeAllowed) \/ (InWipe /\ ss.init /\ ~WipeReq)) \in BOOLEAN
        /\ UrndErr \in BOOLEAN
    BY Fields DEF IInv, UrndErr, Spurious
  <2>4. QED
    BY <2>1, <2>2, <2>3 DEF Clock, StartStop
<1>3. (ctl \in [state : {"Halt", "Run", "Locked"}, wiping : BOOLEAN, fatal : BOOLEAN])'
  <2>1. NextController \in {"Halt", "Run", "Locked"}
    BY Fields DEF NextController, IInv
  <2>2. QED
    BY <2>1 DEF Clock, Controllers
<1>4. (urndReq \in BOOLEAN /\ start \in BOOLEAN /\ busy \in BOOLEAN)'
  BY DEF Clock, UrndRequest, Top, StartD, BusyD
<1>5. (status \in {"Idle", "BusyExecute", "BusySecWipeDmem", "BusySecWipeImem",
                   "BusySecWipeInt", "Locked"})'
  BY DEF Clock, Top, StatusD
<1>6. (locking \in BOOLEAN /\ illegal \in BOOLEAN /\ missed \in BOOLEAN)'
  BY DEF Clock, Top, Locks, MissedGrant
<1>7. (dummy \in [Mem -> BOOLEAN])'
  BY DEF Clock, Top
<1>8. (bus \in Mem \cup {"other", "lost", "none"})'
  <2>1. in.req \in Reads => in.req[2] \in Mem
    BY DEF Reads
  <2>2. QED
    BY <2>1 DEF Clock, Bus, IInv, TypeOK
<1>9. (in \in [req : Requests, insn : Instructions, urndAck : BOOLEAN])'
  BY NextCycle
<1>10. (exposed \subseteq Mem /\ owed \in 0 .. 2)'
  BY DEF Clock, IInv, TypeOK
<1>11. QED
  BY <1>1, <1>2, <1>3, <1>4, <1>5, <1>6, <1>7, <1>8, <1>9, <1>10 DEF TypeOK

\* A cycle, or a cycle that is not taken, preserves the invariant.
LEMMA StepIInv == IInv /\ [Next]_vars => IInv'
<1> SUFFICES ASSUME IInv, [Next]_vars PROVE IInv'
  OBVIOUS
<1>1. CASE Clock
  BY <1>1, TypeStep, KeyStep, FsmStep, LockStep, InputStep, BusyStep, OwedStep, CountStep,
     StatusStep, RekeyStep, UnansweredStep DEF IInv
<1>2. CASE UNCHANGED vars
  <2> USE <1>2 DEF vars, scrambleVars
  <2>1. TypeOK'
    BY DEF IInv, TypeOK, ScrambleTypeOK
  <2>2. KeyInv' /\ FsmInv' /\ CountInv' /\ OwedInv'
    BY DEF IInv, KeyInv, FsmInv, CountInv, OwedInv, Executing, InWipe
  <2>3. LockInv' /\ InputInv' /\ BusyInv'
    BY DEF IInv, LockInv, InputInv, BusyInv, CoreOwns, Executing, InWipe, WipeRunning
  <2>4. StatusTruthful' /\ FatalRekeys' /\ UnansweredIsFatal'
    BY DEF IInv, StatusTruthful, FatalRekeys, UnansweredIsFatal
  <2>5. QED
    BY <2>1, <2>2, <2>3, <2>4 DEF IInv
<1>3. QED
  BY <1>1, <1>2 DEF Next

-----------------------------------------------------------------------------
(* The theorems. *)

\* The inductive invariant holds in every state OTBN reaches.
THEOREM OtbnInvariant == Spec => []IInv
BY InitIInv, StepIInv, PTL DEF Spec

\* Every register of the model keeps its type; the address counter stays within its six
\* bits without ever wrapping.
THEOREM OtbnTypeCorrect == Spec => []TypeOK
<1>1. IInv => TypeOK
  BY DEF IInv
<1>2. QED
  BY <1>1, OtbnInvariant, PTL

\* STATUS and the blocks behind it agree: idle means that nothing runs, wipes or waits for a
\* key, a program runs in both FSMs at once and only with both keys, and OTBN is never
\* locked and busy (otbn.sv, status_d and NotBusyAndDone).
THEOREM StatusIsTruthful == Spec => []StatusTruthful
<1>1. IInv => StatusTruthful
  BY DEF IInv
<1>2. QED
  BY <1>1, OtbnInvariant, PTL

\* otbn_start_stop_control never sees a wipe request out of place, and a URND seed only
\* when it waits for one or is locked.
THEOREM NoAlarmWithoutFault == Spec => []NoFalseAlarm
<1>1. IInv => NoFalseAlarm
  BY SeedsExpected DEF IInv, LockInv, NoFalseAlarm
<1>2. QED
  BY <1>1, OtbnInvariant, PTL

\* A read of the memories hangs for ever only on an OTBN that a fatal error has locked; before
\* that each one is answered, by the memory or by a dummy response (otbn.sv, *_rvalid_bus).
THEOREM UnansweredIsLocked == Spec => []UnansweredIsFatal
<1>1. IInv => UnansweredIsFatal
  BY DEF IInv
<1>2. QED
  BY <1>1, OtbnInvariant, PTL

\* A fatal error in a program exchanges the keys of both memories in the cycle that locks
\* the controller (otbn.sv, *_sec_wipe).
THEOREM FatalErrorRekeys == Spec => []FatalRekeys
<1>1. IInv => FatalRekeys
  BY DEF IInv
<1>2. QED
  BY <1>1, OtbnInvariant, PTL

\* No program leaves its registers to the next one or to a locked OTBN: they have been
\* wiped twice, however the program ended.
THEOREM RegistersAreWiped == Spec => []RegistersWiped
<1>1. IInv => RegistersWiped
  BY DEF IInv, OwedInv, TypeOK, RegistersWiped
<1>2. QED
  BY <1>1, OtbnInvariant, PTL

-----------------------------------------------------------------------------
(* The key ports. *)

\* Once OTBN has given the order to lock, it gives it in every later cycle.
LEMMA StaysLocking == ASSUME IInv, Clock PROVE locking => locking'
<1> SUFFICES ASSUME locking PROVE Locks
  BY DEF Clock, Top
<1>1. ctl.state = "Locked" /\ ~ctl.wiping /\ ~WipeRunning
  BY DEF IInv, LockInv
<1>2. ss.state # "Running"
  BY <1>1 DEF IInv, FsmInv
<1>3. NextController = "Locked"
  BY <1>1 DEF NextController
<1>4. QED
  BY <1>1, <1>2, <1>3, LocksWhen

\* A key is withdrawn before it is replaced.
LEMMA KeyExchange ==
  ASSUME IInv, Clock, NEW m \in Mem
  PROVE  \/ UNCHANGED <<valid[m], key[m]>>
         \/ valid'[m] = FALSE
         \/ ~valid[m] /\ valid'[m] = TRUE
<1>1. valid[m] \in BOOLEAN /\ valid'[m] \in BOOLEAN
  BY TypeStep DEF IInv, TypeOK, ScrambleTypeOK
<1>2. m \in Served => ~valid[m]
  BY DEF IInv, KeyInv, Served
<1>3. QED
  BY <1>1, <1>2, KeysMove

\* OTBN drives the key port of each of its memories as the scrambled RAM requires it: the
\* registers and the synchroniser of otbn_scramble_ctrl implement KeyPort.
THEOREM OtbnFeedsKeyPort == Spec => FeedsKeyPort
<1>1. Init => DmemPort!Init /\ ImemPort!Init
  BY DEF Init, ScrambleInit, DmemPort!Init, ImemPort!Init, Mem
<1>2. IInv /\ [Next]_vars => [DmemPort!Next]_DmemPort!vars
  <2> SUFFICES ASSUME IInv, [Next]_vars PROVE [DmemPort!Next]_DmemPort!vars
    OBVIOUS
  <2>1. CASE Clock
    BY <2>1, StaysLocking, KeyExchange DEF Mem, DmemPort!Next, DmemPort!Keep, DmemPort!Wipe, DmemPort!Load
  <2>2. CASE UNCHANGED vars
    BY <2>2 DEF vars, scrambleVars, DmemPort!vars
  <2>3. QED
    BY <2>1, <2>2 DEF Next
<1>3. IInv /\ [Next]_vars => [ImemPort!Next]_ImemPort!vars
  <2> SUFFICES ASSUME IInv, [Next]_vars PROVE [ImemPort!Next]_ImemPort!vars
    OBVIOUS
  <2>1. CASE Clock
    BY <2>1, StaysLocking, KeyExchange DEF Mem, ImemPort!Next, ImemPort!Keep, ImemPort!Wipe, ImemPort!Load
  <2>2. CASE UNCHANGED vars
    BY <2>2 DEF vars, scrambleVars, ImemPort!vars
  <2>3. QED
    BY <2>1, <2>2 DEF Next
<1>4. QED
  BY <1>1, <1>2, <1>3, OtbnInvariant, PTL DEF Spec, FeedsKeyPort, DmemPort!Spec, ImemPort!Spec

=============================================================================
