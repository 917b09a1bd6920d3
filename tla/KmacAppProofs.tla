----------------------------- MODULE KmacAppProofs -----------------------------
(***************************************************************************)
(* Proofs about the application interface of KMAC, for every number of     *)
(* applications, every choice of those in KMAC mode, messages of every     *)
(* length and every bound on requests and words.  They rest on the         *)
(* inductive invariant IInv of KmacApp.                                    *)
(***************************************************************************)
EXTENDS KmacApp, WellFoundedInduction, SequenceTheorems, TLAPS

-----------------------------------------------------------------------------
(* Arithmetic. *)

\* Every set of natural numbers has a least element.
LEMMA LeastNatural ==
  ASSUME NEW T, T \subseteq Nat, T # {}
  PROVE  \E x \in T : \A y \in T : x <= y
<1> DEFINE R == OpToRel(<, Nat)
<1>1. IsWellFoundedOn(R, Nat)
  BY NatLessThanWellFounded
<1>2. PICK x \in T : \A y \in T : <<y, x>> \notin R
  <2> HIDE DEF R
  <2>1. QED
    BY <1>1, WFMin
<1>3. \A y \in T : ~(y < x)
  BY <1>2 DEF OpToRel
<1>4. QED
  BY <1>3

\* The fixed arbiter grants someone who asks.
LEMMA WinnerAsks == Asking # {} => Winner \in Asking
<1>1. Asking \subseteq Nat
  BY AppsAssumption DEF Asking, Apps
<1>2. Asking # {} => \E i \in Asking : \A j \in Asking : i <= j
  BY <1>1, LeastNatural
<1>3. QED
  BY <1>2 DEF Winner

\* The position in the message starts again after the last word.
LEMMA NextPosition ==
  ASSUME NEW p \in 0 .. MsgLen - 1
  PROVE  /\ (p + 1) % MsgLen = IF p = MsgLen - 1 THEN 0 ELSE p + 1
         /\ (p + 1) % MsgLen \in 0 .. MsgLen - 1
<1>1. MsgLen \in Nat \ {0}
  BY LengthAssumption
<1>2. p = MsgLen - 1 => (p + 1) % MsgLen = 0
  BY <1>1
<1>3. p # MsgLen - 1 => (p + 1) % MsgLen = p + 1
  BY <1>1
<1>4. QED
  BY <1>1, <1>2, <1>3

-----------------------------------------------------------------------------
(* Types. *)

\* What the FSM leaves to the blocks around it.
LEMMA Surroundings ==
  ASSUME TypeOK, NEW w, Fsm(w)
  PROVE  /\ MayWrite(w) /\ Errchk(w) /\ wrote' = (w # "none") /\ sw' = sw
         /\ \E cmd \in Cmds \cup {"None"}, taken \in BOOLEAN :
              Engine(cmd) /\ Clients(taken) /\ (taken => cl[appId] = "sending")
<1>1. PICK cmd \in Cmds \cup {"None"}, taken \in BOOLEAN :
        Around(w, cmd, taken) /\ (taken => cl[appId] = "sending")
  <2>1. chkCmd \in Cmds \cup {"None"} /\ {"Start", "Process", "Done"} \subseteq Cmds
    BY DEF TypeOK, Cmds
  <2>2. QED
    BY <2>1 DEF Fsm, Idle, AppCfg, AppMsg, AppOutLen, AppProcess, AppWait, Sw, KeyNotValid,
                ErrorState, ServiceRejected
<1>2. QED
  BY <1>1 DEF Around

\* A word more keeps the words words.
LEMMA FedTyped ==
  ASSUME TypeOK
  PROVE  /\ <<>> \in Seq(Words) /\ Append(fed, OutLen) \in Seq(Words)
         /\ Append(fed, SwWord) \in Seq(Words) /\ Append(fed, <<appId, pos[appId]>>) \in Seq(Words)
<1>1. fed \in Seq(Words) /\ OutLen \in Words /\ SwWord \in Words
  BY DEF TypeOK, Words
<1>2. <<appId, pos[appId]>> \in Words
  BY DEF TypeOK, Words
<1>3. QED
  BY <1>1, <1>2

LEMMA TypeStep == ASSUME TypeOK, [Next]_vars PROVE TypeOK'
<1>1. CASE UNCHANGED vars
  BY <1>1 DEF vars, TypeOK
<1>2. ASSUME NEW w, w \in Cmds \cup {"none", "ack"}, Fsm(w) PROVE TypeOK'
  <2>1. /\ st' \in AppStates \cup {"Idle", "Sw", "KeyNotValid", "Error", "ServiceRejected"}
        /\ appId' \in Apps /\ rejected' \in BOOLEAN /\ doneQ' \in BOOLEAN
        /\ fed' \in Seq(Words)
    <3>1. 0 \in Apps
      BY AppsAssumption DEF Apps
    <3>2. Asking # {} => Winner \in Apps
      BY WinnerAsks DEF Asking
    <3>3. LastBeat \in BOOLEAN
      BY DEF LastBeat
    <3>4. /\ st \in AppStates \cup {"Idle", "Sw", "KeyNotValid", "Error", "ServiceRejected"}
          /\ appId \in Apps /\ rejected \in BOOLEAN /\ fed \in Seq(Words)
      BY DEF TypeOK
    <3>5. QED
      BY <1>2, <3>1, <3>2, <3>3, <3>4, FedTyped
         DEF Fsm, Idle, AppCfg, AppMsg, AppOutLen, AppProcess, AppWait, Sw, KeyNotValid,
             ErrorState, ServiceRejected, AppStates
  <2>2. PICK cmd \in Cmds \cup {"None"}, taken \in BOOLEAN : Engine(cmd) /\ Clients(taken)
    BY <1>2, Surroundings
  <2>3. Errchk(w) /\ wrote' = (w # "none") /\ sw' = sw
    BY <1>2, Surroundings
  <2>4. /\ chk' \in {"Idle", "MsgFeed", "Processing", "Absorbed", "Squeezing"}
        /\ chkCmd' \in Cmds \cup {"None"}
    <3>1. NextChk(w) \in {"Idle", "MsgFeed", "Processing", "Absorbed", "Squeezing"}
      BY DEF NextChk, TypeOK
    <3>2. QED
      BY <2>3, <3>1 DEF Errchk, TypeOK
  <2>5. eng' \in {"Idle", "Absorb", "Process", "Squeeze", "Rerun", "Flush"} /\ absorbed' \in BOOLEAN
    BY <2>2 DEF Engine, TypeOK
  <2>6. cl' \in [Apps -> {"idle", "sending", "waiting"}]
    BY <2>2 DEF Clients, TypeOK
  <2>7. pos' \in [Apps -> 0 .. MsgLen - 1]
    BY <2>2, NextPosition DEF Clients, TypeOK
  <2>8. reqs' \in [Apps -> Nat]
    BY <2>2 DEF Clients, TypeOK
  <2>9. QED
    BY <2>1, <2>3, <2>4, <2>5, <2>6, <2>7, <2>8 DEF TypeOK
<1>3. QED
  BY <1>1, <1>2 DEF Next

-----------------------------------------------------------------------------
(* The parts of the invariant. *)

Known == IInv /\ sw # "eager"

\* A refused command leaves the checker as it is; after a command there is a cycle without.
LEMMA Checker ==
  ASSUME Known, NEW w, Fsm(w)
  PROVE  /\ wrote => w = "none"
         /\ wrote' = (w # "none")
         /\ \/ w \in Cmds /\ chk' = chk /\ chkCmd' = "None"
            \/ chk' = NextChk(w) /\ chkCmd' = (IF w \in Cmds THEN w ELSE "None") /\ ~OutOfSequence(w)
<1>1. MayWrite(w) /\ Errchk(w) /\ wrote' = (w # "none")
  BY Surroundings DEF Known, IInv
<1>2. wrote => w = "none"
  BY <1>1 DEF MayWrite
<1>3. w \in Cmds => chkCmd = "None"
  BY <1>2 DEF Known, IInv, CommandInv, Cmds
<1>4. OutOfSequence(w) => w \in Cmds
  BY DEF OutOfSequence
<1>5. chk = "Idle" /\ NextChk(w) = "MsgFeed" => w \in Cmds
  BY DEF NextChk, Cmds
<1>6. QED
  BY <1>1, <1>2, <1>3, <1>4, <1>5 DEF Errchk

\* The transitions of the FSM.
LEMMA Transitions ==
  ASSUME Known, NEW w, Fsm(w)
  PROVE  /\ st = "Idle" => \/ st' = "AppCfg" /\ Asking # {}
                           \/ st' = IF chkCmd = "Start" THEN "Sw" ELSE "Idle"
         /\ st = "AppCfg" => st' = "AppMsg" \/ (st' \in {"Error", "KeyNotValid"} /\ appId \in KmacApps)
         /\ st = "AppMsg" => st' \in {"AppMsg", "AppOutLen", "AppProcess"}
         /\ st = "AppOutLen" => st' \in {"AppOutLen", "AppProcess"}
         /\ st = "AppProcess" => st' = "AppWait"
         /\ st = "AppWait" => st' = IF absorbed THEN "Idle" ELSE "AppWait"
         /\ st = "Sw" => st' = IF chkCmd = "Done" THEN "Idle" ELSE "Sw"
         /\ st = "KeyNotValid" => st' = "Error"
         /\ st = "Error" => \/ st' = "Error"
                            \/ st' = "ServiceRejected" /\ LastBeat /\ rejected
                            \/ st' = "Idle" /\ w = "ack" /\ cl[appId] # "sending"
         /\ st = "ServiceRejected" => st' = "Idle"
<1>1. st = "Error" /\ w = "ack" => cl[appId] # "sending"
  BY Surroundings DEF Known, IInv, MayWrite, Cmds
<1>2. QED
  BY <1>1 DEF Fsm, Idle, AppCfg, AppMsg, AppOutLen, AppProcess, AppWait, Sw, KeyNotValid,
              ErrorState, ServiceRejected, LastBeat

\* What the engine is told in each state of the FSM.
LEMMA EngineTold ==
  ASSUME Known, NEW w, Fsm(w)
  PROVE  /\ st = "Idle" => Engine(IF st' = "Sw" THEN "Start" ELSE "None")
         /\ st = "AppCfg" => Engine(IF st' = "AppMsg" THEN "Start" ELSE "None")
         /\ st \in {"AppMsg", "AppOutLen", "KeyNotValid", "Error", "ServiceRejected"} => Engine("None")
         /\ st = "AppProcess" => Engine("Process")
         /\ st = "AppWait" => Engine(IF absorbed THEN "Done" ELSE "None")
         /\ st = "Sw" => Engine(chkCmd)
BY DEF Fsm, Idle, AppCfg, AppMsg, AppOutLen, AppProcess, AppWait, Sw, KeyNotValid,
       ErrorState, ServiceRejected, Around

LEMMA CommandStep == ASSUME Known, NEW w, Fsm(w) PROVE CommandInv'
<1>1. (chkCmd # "None" => wrote)'
  BY Checker DEF Cmds
<1>2. ASSUME chkCmd' = "Start"
      PROVE  \/ chk' = "MsgFeed"
             \/ chk' = "Idle" /\ (st' \notin {"Idle", "Sw"} \/ (st' = "Idle" /\ eng' = "Flush"))
  <2>1. w = "Start" /\ ~OutOfSequence(w) /\ chk' = NextChk(w) /\ ~wrote
    BY <1>2, Checker DEF Cmds
  <2>2. chk = "Idle"
    BY <2>1 DEF OutOfSequence, Cmds
  <2>3. CASE ~AppActive
    BY <2>1, <2>2, <2>3 DEF NextChk
  <2>4. CASE AppActive
    <3>1. st = "AppWait" /\ absorbed => st' = "Idle" /\ eng' = "Flush"
      BY Transitions, EngineTold DEF Engine, Known, IInv, EngineInv
    <3>2. ~(st = "AppWait" /\ absorbed) => st' \notin {"Idle", "Sw"}
      BY <2>4, Transitions DEF AppActive, AppStates
    <3>3. chk' = "Idle"
      BY <2>1, <2>2, <2>4 DEF NextChk
    <3>4. QED
      BY <3>1, <3>2, <3>3
  <2>5. QED
    BY <2>3, <2>4
<1>3. QED
  BY <1>1, <1>2 DEF CommandInv

LEMMA EngineStep == ASSUME Known, NEW w, Fsm(w) PROVE EngineInv'
<1> USE Transitions, EngineTold
<1>0. st \in AppStates \cup {"Idle", "Sw", "KeyNotValid", "Error", "ServiceRejected"}
  BY DEF Known, IInv, TypeOK
<1>1. (absorbed => eng = "Squeeze")'
  <2>1. \E cmd : Engine(cmd)
    BY Surroundings DEF Known, IInv
  <2>2. QED
    BY <2>1 DEF Engine
<1>2. CASE st = "Idle"
  <2>1. eng = "Idle" \/ (eng = "Flush" /\ (chkCmd = "Start" => chk = "Idle"))
    BY <1>2 DEF Known, IInv, EngineInv
  <2>2. CASE st' = "Sw"
    <3>1. chkCmd = "Start" /\ wrote
      BY <1>2, <2>2 DEF Known, IInv, CommandInv
    <3>2. \/ chk = "MsgFeed" /\ eng = "Idle" /\ eng' = "Absorb"
          \/ chk = "Idle" /\ eng = "Flush" /\ eng' = "Idle"
      BY <1>2, <2>1, <2>2, <3>1 DEF Engine, Known, IInv, CommandInv
    <3>3. chk' = chk /\ chkCmd' = "None"
      BY <3>1, <3>2, Checker DEF NextChk, Cmds
    <3>4. InStep'
      BY <2>2, <3>2, <3>3 DEF InStep, StartLost
    <3>5. QED
      BY <1>1, <2>2, <3>4 DEF EngineInv
  <2>3. CASE st' # "Sw"
    <3>1. eng' = "Idle"
      BY <1>2, <2>1, <2>3 DEF Engine
    <3>2. QED
      BY <1>1, <1>2, <2>3, <3>1 DEF EngineInv
  <2>4. QED
    BY <2>2, <2>3
<1>3. CASE st = "AppCfg"
  <2>1. eng' = IF st' = "AppMsg" THEN "Absorb" ELSE "Idle"
    BY <1>3 DEF Engine, Known, IInv, EngineInv
  <2>2. QED
    BY <1>1, <1>3, <2>1 DEF EngineInv
<1>4. CASE st \in {"AppMsg", "AppOutLen"}
  <2>1. eng' = "Absorb"
    BY <1>4 DEF Engine, Known, IInv, EngineInv
  <2>2. QED
    BY <1>1, <1>4, <2>1 DEF EngineInv
<1>5. CASE st = "AppProcess"
  <2>1. eng' = "Process" /\ absorbed' = FALSE
    BY <1>5 DEF Engine, Known, IInv, EngineInv
  <2>2. QED
    BY <1>1, <1>5, <2>1 DEF EngineInv
<1>6. CASE st = "AppWait" /\ ~absorbed
  <2>1. eng' = IF absorbed' THEN "Squeeze" ELSE "Process"
    BY <1>6 DEF Engine, Known, IInv, EngineInv
  <2>2. QED
    BY <1>1, <1>6, <2>1 DEF EngineInv
<1>7. CASE st = "AppWait" /\ absorbed
  <2>1. eng' = "Flush"
    BY <1>7 DEF Engine, Known, IInv, EngineInv
  <2>2. AppActive
    BY <1>7 DEF AppActive, AppStates
  <2>3. chkCmd' = "Start" => chk' = "Idle"
    BY <2>2, Checker DEF NextChk, OutOfSequence, Cmds
  <2>4. QED
    BY <1>1, <1>7, <2>1, <2>3 DEF EngineInv
<1>8. CASE st = "Sw"
  <2>1. InStep
    BY <1>8 DEF Known, IInv, EngineInv
  <2>2. Engine(chkCmd) /\ st' = IF chkCmd = "Done" THEN "Idle" ELSE "Sw"
    BY <1>8
  <2>3. ~AppActive
    BY <1>8 DEF AppActive, AppStates
  <2>4. chkCmd # "None" => w = "none" /\ chk' = NextChk(w) /\ chkCmd' = "None"
    BY Checker DEF Known, IInv, CommandInv, Cmds
  <2>5. CASE chkCmd = "Done"
    <3>1. eng' = "Flush"
      BY <2>1, <2>2, <2>5 DEF InStep, Engine
    <3>2. QED
      BY <1>1, <2>2, <2>4, <2>5, <3>1 DEF EngineInv
  <2>6. CASE chkCmd \in {"Process", "ManualRun"}
    <3>1. \/ chk = "Processing" /\ eng' = "Process"
          \/ chk = "Squeezing" /\ eng = "Squeeze" /\ eng' = "Rerun"
      BY <2>1, <2>2, <2>6 DEF InStep, Engine
    <3>2. chk' = chk /\ chkCmd' = "None"
      BY <2>1, <2>4, <2>6, <3>1 DEF NextChk, InStep, Known, IInv, EngineInv
    <3>3. QED
      BY <1>1, <2>2, <2>6, <3>1, <3>2 DEF EngineInv, InStep
  <2>7. CASE chkCmd = "None"
    <3>1. \/ chk = "Idle" /\ eng = "Idle" /\ eng' = "Idle"
          \/ chk = "MsgFeed" /\ eng = "Absorb" /\ eng' = "Absorb"
          \/ chk = "Processing" /\ eng = "Process" /\ eng' \in {"Process", "Squeeze"}
          \/ chk \in {"Processing", "Absorbed", "Squeezing"} /\ eng = "Squeeze" /\ eng' = "Squeeze"
          \/ chk = "Squeezing" /\ eng = "Rerun" /\ eng' \in {"Rerun", "Squeeze"}
      BY <2>1, <2>2, <2>7 DEF InStep, StartLost, Engine
    <3>2. CASE chk' = chk /\ chkCmd' = "None"
      BY <1>1, <2>2, <2>7, <3>1, <3>2 DEF EngineInv, InStep, StartLost
    <3>3. CASE chk' = NextChk(w) /\ chkCmd' = (IF w \in Cmds THEN w ELSE "None") /\ ~OutOfSequence(w)
      <4>1. w \in Cmds => w \in CASE chk = "Idle" -> {"Start"}
                                   [] chk = "MsgFeed" -> {"Process"}
                                   [] chk = "Absorbed" -> {"ManualRun", "Done"}
                                   [] OTHER -> {}
        BY <3>3 DEF OutOfSequence
      <4>2. CASE chk = "MsgFeed"
        BY <1>1, <2>2, <2>7, <3>1, <3>3, <4>1, <4>2 DEF EngineInv, InStep, NextChk, Cmds
      <4>3. CASE chk = "Processing"
        BY <1>1, <2>2, <2>7, <3>1, <3>3, <4>1, <4>3
           DEF EngineInv, InStep, NextChk, Cmds, Known, IInv
      <4>4. CASE chk = "Absorbed"
        BY <1>1, <2>2, <2>7, <3>1, <3>3, <4>1, <4>4 DEF EngineInv, InStep, NextChk, Cmds
      <4>5. CASE chk = "Squeezing"
        BY <1>1, <2>2, <2>7, <3>1, <3>3, <4>1, <4>5 DEF EngineInv, InStep, NextChk, Cmds
      <4>6. CASE chk = "Idle"
        BY <1>1, <2>2, <2>3, <2>7, <3>1, <3>3, <4>1, <4>6 DEF EngineInv, InStep, StartLost, NextChk, Cmds
      <4>7. QED
        BY <3>1, <4>2, <4>3, <4>4, <4>5, <4>6
    <3>4. QED
      BY <3>2, <3>3, Checker
  <2>8. CASE chkCmd = "Start"
    <3>1. chk = "MsgFeed" /\ eng = "Idle" /\ eng' = "Absorb"
      BY <2>1, <2>2, <2>8 DEF InStep, StartLost, Engine
    <3>2. chk' = "MsgFeed" /\ chkCmd' = "None"
      BY <2>4, <2>8, <3>1 DEF NextChk
    <3>3. QED
      BY <1>1, <2>2, <2>8, <3>1, <3>2 DEF EngineInv, InStep
  <2>9. QED
    BY <2>1, <2>5, <2>6, <2>7, <2>8 DEF InStep, StartLost
<1>9. CASE st \in {"KeyNotValid", "Error", "ServiceRejected"}
  <2>1. eng' = "Idle"
    BY <1>9 DEF Engine, Known, IInv, EngineInv
  <2>2. QED
    BY <1>1, <1>9, <2>1 DEF EngineInv
<1>10. QED
  BY <1>0, <1>2, <1>3, <1>4, <1>5, <1>6, <1>7, <1>8, <1>9 DEF AppStates


\* Who is selected, and what the applications are told.
LEMMA ClientsTold ==
  ASSUME Known, NEW w, Fsm(w)
  PROVE  /\ st = "Idle" /\ st' = "AppCfg" => appId' = Winner /\ Asking # {}
         /\ st \in {"AppCfg", "AppMsg", "AppOutLen", "AppProcess", "KeyNotValid"} => appId' = appId
         /\ st = "AppWait" /\ ~absorbed => appId' = appId
         /\ st = "Error" /\ w # "ack" => appId' = appId
         /\ st \in {"Idle", "AppCfg", "AppOutLen", "AppProcess", "AppWait", "Sw", "KeyNotValid",
                    "ServiceRejected"} => Clients(FALSE)
         /\ st = "AppMsg" => \/ Clients(FALSE) /\ st' = "AppMsg" /\ fed' = fed
                             \/ /\ Clients(TRUE) /\ fed' = Append(fed, <<appId, pos[appId]>>)
                                /\ st' = IF ~LastBeat THEN "AppMsg"
                                         ELSE IF appId \in KmacApps THEN "AppOutLen" ELSE "AppProcess"
         /\ st = "Error" => Clients(cl[appId] = "sending")
         /\ doneQ' = (st = "Error" /\ LastBeat)
<1>1. LastBeat \in BOOLEAN
  BY DEF LastBeat
<1>2. QED
  BY <1>1 DEF Fsm, Idle, AppCfg, AppMsg, AppOutLen, AppProcess, AppWait, Sw, KeyNotValid,
              ErrorState, ServiceRejected, Around

\* A refused message is drained word by word.
LEMMA Taken ==
  ASSUME Clients(cl[appId] = "sending")
  PROVE  \/ Clients(TRUE) /\ cl[appId] = "sending"
         \/ Clients(FALSE) /\ cl[appId] # "sending"
<1> DEFINE b == cl[appId] = "sending"
<1>1. Clients(b) /\ b \in BOOLEAN
  OBVIOUS
<1>2. b = TRUE \/ b = FALSE
  BY <1>1
<1> HIDE DEF b
<1>3. \/ Clients(TRUE) /\ b
      \/ Clients(FALSE) /\ ~b
  BY <1>1, <1>2
<1>4. QED
  BY <1>3 DEF b

\* What becomes of an application in a cycle.
LEMMA ClientMoves ==
  ASSUME Known, NEW i \in Apps, NEW taken \in BOOLEAN, Clients(taken), taken => cl[appId] = "sending"
  PROVE  /\ cl[i] = "idle" => cl'[i] \in {"idle", "sending"}
         /\ cl[i] = "sending" => cl'[i] = IF taken /\ i = appId /\ LastBeat THEN "waiting" ELSE "sending"
         /\ cl[i] = "waiting" => cl'[i] = IF Done(i) THEN "idle" ELSE "waiting"
         /\ pos'[i] = IF taken /\ i = appId THEN IF LastBeat THEN 0 ELSE pos[i] + 1 ELSE pos[i]
<1>1. /\ appId \in Apps /\ cl[i] \in {"idle", "sending", "waiting"} /\ pos[appId] \in 0 .. MsgLen - 1
      /\ pos \in [Apps -> 0 .. MsgLen - 1]
  BY DEF Known, IInv, TypeOK
<1>2. taken => (LastBeat <=> pos[appId] = MsgLen - 1)
  BY DEF LastBeat
<1>3. pos'[i] = IF taken /\ i = appId THEN (pos[i] + 1) % MsgLen ELSE pos[i]
  BY <1>1 DEF Clients
<1>4. pos'[i] = IF taken /\ i = appId THEN IF LastBeat THEN 0 ELSE pos[i] + 1 ELSE pos[i]
  BY <1>1, <1>2, <1>3, NextPosition
<1>5. PICK begin \in SUBSET {j \in Apps : cl[j] = "idle" /\ reqs[j] < MaxReqs} :
        cl'[i] = CASE i \in begin -> "sending"
                   [] taken /\ i = appId /\ pos[i] = MsgLen - 1 -> "waiting"
                   [] cl[i] = "waiting" /\ Done(i) -> "idle"
                   [] OTHER -> cl[i]
  BY DEF Clients
<1>6. i \in begin => cl[i] = "idle"
  BY <1>5
<1>7. QED
  BY <1>1, <1>2, <1>4, <1>5, <1>6

LEMMA ClientStep ==
  ASSUME Known, NEW w \in Cmds \cup {"none", "ack"}, Fsm(w)
  PROVE  ClientInv'
<1> USE Transitions, ClientsTold
<1>0. /\ st \in AppStates \cup {"Idle", "Sw", "KeyNotValid", "Error", "ServiceRejected"}
      /\ appId \in Apps /\ appId' \in Apps /\ cl \in [Apps -> {"idle", "sending", "waiting"}]
      /\ doneQ \in BOOLEAN /\ LastBeat \in BOOLEAN
      /\ \A i \in Apps : pos[i] \in Nat
  <2>1. Next
    BY DEF Next
  <2>2. TypeOK /\ TypeOK'
    BY <2>1, TypeStep DEF Known, IInv
  <2>3. QED
    BY <2>2, LengthAssumption DEF TypeOK, LastBeat
<1>1. /\ st \in {"AppCfg", "AppMsg", "KeyNotValid"} => cl[appId] = "sending"
      /\ st \in {"AppOutLen", "AppProcess", "AppWait"} \/ doneQ => cl[appId] = "waiting"
      /\ \A i \in Apps : cl[i] = "waiting" =>
           i = appId /\ (st \in {"AppOutLen", "AppProcess", "AppWait"} \/ doneQ)
      /\ \A i \in Apps : pos[i] # 0 =>
           i = appId /\ cl[i] = "sending" /\ st \in {"AppMsg", "Error"}
  BY DEF Known, IInv, ClientInv
<1>2. doneQ => st \in {"Error", "ServiceRejected"}
  BY DEF Known, IInv, RefusalInv
<1>3. CASE st \in {"Idle", "Sw"}
  <2>1. \A i \in Apps : cl[i] # "waiting" /\ pos[i] = 0
    BY <1>1, <1>2, <1>3
  <2>2. \A i \in Apps : cl'[i] # "waiting" /\ pos'[i] = 0 /\ (cl[i] = "sending" => cl'[i] = "sending")
    BY <1>0, <1>3, <2>1, ClientMoves
  <2>3. st' = "AppCfg" => cl'[appId'] = "sending"
    BY <1>0, <1>3, <2>2, WinnerAsks DEF Asking
  <2>4. QED
    BY <1>0, <1>3, <2>2, <2>3 DEF ClientInv
<1>4. CASE st \in {"AppCfg", "KeyNotValid"}
  <2>1. \A i \in Apps : cl[i] # "waiting" /\ pos[i] = 0
    BY <1>1, <1>2, <1>4
  <2>2. \A i \in Apps : cl'[i] # "waiting" /\ pos'[i] = 0 /\ (cl[i] = "sending" => cl'[i] = "sending")
    BY <1>0, <1>4, <2>1, ClientMoves
  <2>3. QED
    BY <1>0, <1>1, <1>4, <2>2 DEF ClientInv
<1>5. CASE st = "AppMsg" /\ Clients(FALSE) /\ st' = "AppMsg"
  <2>1. \A i \in Apps : cl[i] # "waiting"
    BY <1>1, <1>2, <1>5
  <2>2. \A i \in Apps : cl'[i] # "waiting" /\ pos'[i] = pos[i] /\ (cl[i] = "sending" => cl'[i] = "sending")
    BY <1>0, <1>5, <2>1, ClientMoves
  <2>3. QED
    BY <1>0, <1>1, <1>5, <2>2 DEF ClientInv
<1>6. CASE /\ st = "AppMsg" /\ Clients(TRUE)
           /\ st' = IF ~LastBeat THEN "AppMsg"
                    ELSE IF appId \in KmacApps THEN "AppOutLen" ELSE "AppProcess"
  <2>1. cl[appId] = "sending" /\ ~doneQ /\ appId' = appId /\ ~doneQ'
    BY <1>1, <1>2, <1>6
  <2>2. \A i \in Apps : i # appId => cl'[i] # "waiting" /\ pos'[i] = 0
    BY <1>0, <1>1, <1>6, <2>1, ClientMoves
  <2>3. /\ cl'[appId] = IF LastBeat THEN "waiting" ELSE "sending"
        /\ LastBeat => pos'[appId] = 0
    BY <1>0, <1>6, <2>1, ClientMoves
  <2>4. QED
    BY <1>6, <2>1, <2>2, <2>3 DEF ClientInv
<1>7. CASE st \in {"AppOutLen", "AppProcess"} \/ (st = "AppWait" /\ ~absorbed)
  <2>1. cl[appId] = "waiting" /\ ~doneQ /\ appId' = appId /\ ~doneQ'
    BY <1>1, <1>2, <1>7
  <2>2. ~Done(appId)
    BY <1>7, <2>1 DEF Done
  <2>3. \A i \in Apps : pos'[i] = 0 /\ (i # appId => cl'[i] # "waiting")
    BY <1>0, <1>1, <1>7, ClientMoves
  <2>4. cl'[appId] = "waiting"
    BY <1>0, <1>7, <2>1, <2>2, ClientMoves
  <2>5. QED
    BY <1>7, <2>1, <2>3, <2>4 DEF ClientInv
<1>8. CASE (st = "AppWait" /\ absorbed) \/ st = "ServiceRejected"
  <2>1. Done(appId) /\ ~doneQ' /\ st' = "Idle"
    BY <1>8 DEF Done, Known, IInv, RefusalInv
  <2>2. \A i \in Apps : pos'[i] = 0 /\ cl'[i] # "waiting"
    BY <1>0, <1>1, <1>8, <2>1, ClientMoves
  <2>3. QED
    BY <2>1, <2>2 DEF ClientInv
<1>9. CASE st = "Error" /\ cl[appId] = "sending"
  <2>1. Clients(TRUE) /\ ~doneQ /\ doneQ' = LastBeat /\ w # "ack" /\ appId' = appId
    <3>1. w # "ack"
      BY <1>9, Surroundings DEF Known, IInv, MayWrite
    <3>2. Clients(TRUE)
      BY <1>9, Taken
    <3>3. QED
      BY <1>0, <1>1, <1>9, <3>1, <3>2
  <2>2. \A i \in Apps : i # appId => cl'[i] # "waiting" /\ pos'[i] = 0
    BY <1>0, <1>1, <1>9, <2>1, ClientMoves
  <2>3. /\ cl'[appId] = IF LastBeat THEN "waiting" ELSE "sending"
        /\ LastBeat => pos'[appId] = 0
    BY <1>0, <1>9, <2>1, ClientMoves
  <2>4. st' = "Error" \/ (st' = "ServiceRejected" /\ LastBeat)
    BY <1>9, <2>1
  <2>5. QED
    BY <1>9, <2>1, <2>2, <2>3, <2>4 DEF ClientInv
<1>10. CASE st = "Error" /\ cl[appId] # "sending"
  <2>1. Clients(FALSE) /\ ~doneQ' /\ (doneQ => Done(appId))
    <3>1. Clients(FALSE)
      BY <1>10, Taken
    <3>2. QED
      BY <1>10, <3>1 DEF Done, LastBeat
  <2>2. \A i \in Apps : pos'[i] = 0 /\ cl'[i] # "waiting"
    BY <1>0, <1>1, <1>10, <2>1, ClientMoves
  <2>3. st' \in {"Error", "Idle"}
    <3>1. ~LastBeat
      BY <1>10 DEF LastBeat
    <3>2. QED
      BY <1>10, <3>1
  <2>4. QED
    BY <2>1, <2>2, <2>3 DEF ClientInv
<1>11. QED
  BY <1>0, <1>3, <1>4, <1>5, <1>6, <1>7, <1>8, <1>9, <1>10 DEF AppStates


LEMMA RefusalStep == ASSUME Known, NEW w, Fsm(w), ClientInv' PROVE RefusalInv'
<1> USE Transitions, ClientsTold
<1>0. /\ st \in AppStates \cup {"Idle", "Sw", "KeyNotValid", "Error", "ServiceRejected"}
      /\ rejected \in BOOLEAN /\ doneQ \in BOOLEAN
  BY DEF Known, IInv, TypeOK
<1>1. /\ st \in {"KeyNotValid", "Error", "ServiceRejected", "AppOutLen"} => appId \in KmacApps
      /\ rejected => st = "ServiceRejected" \/ (st = "Error" /\ cl[appId] = "sending")
  BY DEF Known, IInv, RefusalInv
<1>2. CASE st = "Error"
  <2>1. rejected' = rejected
    BY <1>2 DEF Fsm, Idle, AppCfg, AppMsg, AppOutLen, AppProcess, AppWait, Sw, KeyNotValid,
                ErrorState, ServiceRejected
  <2>2. w = "ack" => cl[appId] # "sending" /\ ~LastBeat /\ ~rejected
    BY <1>1, <1>2, Surroundings DEF Known, IInv, MayWrite, LastBeat, Cmds
  <2>3. CASE w = "ack"
    <3>1. st' = "Idle" /\ ~doneQ' /\ ~rejected'
      BY <1>2, <2>1, <2>2, <2>3
         DEF Fsm, Idle, AppCfg, AppMsg, AppOutLen, AppProcess, AppWait, Sw, KeyNotValid,
             ErrorState, ServiceRejected
    <3>2. QED
      BY <3>1 DEF RefusalInv
  <2>4. CASE w # "ack"
    <3>1. appId' = appId /\ appId \in KmacApps
      BY <1>1, <1>2, <2>4
    <3>2. st' = IF LastBeat /\ rejected THEN "ServiceRejected" ELSE "Error"
      BY <1>2, <2>4 DEF Fsm, Idle, AppCfg, AppMsg, AppOutLen, AppProcess, AppWait, Sw, KeyNotValid,
                        ErrorState, ServiceRejected
    <3>3. doneQ' = LastBeat
      BY <1>2 DEF LastBeat
    <3>4. rejected /\ ~LastBeat => cl'[appId] = "sending"
      <4>1. appId \in Apps /\ (rejected => cl[appId] = "sending")
        BY <1>1, <1>2 DEF Known, IInv, TypeOK
      <4>2. ASSUME rejected PROVE Clients(TRUE)
        BY <1>2, <4>1, <4>2, Taken
      <4>3. rejected /\ ~LastBeat =>
              cl'[appId] = IF TRUE /\ appId = appId /\ LastBeat THEN "waiting" ELSE "sending"
        BY <4>1, <4>2, ClientMoves
      <4>4. QED
        BY <4>3
    <3>5. QED
      BY <1>0, <2>1, <3>1, <3>2, <3>3, <3>4 DEF RefusalInv
  <2>5. QED
    BY <2>3, <2>4
<1>3. CASE st = "ServiceRejected"
  BY <1>3 DEF RefusalInv, Fsm, Idle, AppCfg, AppMsg, AppOutLen, AppProcess, AppWait, Sw, KeyNotValid,
              ErrorState, ServiceRejected
<1>4. CASE st = "AppCfg"
  <2>1. ~rejected /\ ~doneQ' /\ appId' = appId
    BY <1>1, <1>4
  <2>2. rejected' => st' = "Error"
    BY <1>4, <2>1 DEF Fsm, Idle, AppCfg, AppMsg, AppOutLen, AppProcess, AppWait, Sw, KeyNotValid,
                      ErrorState, ServiceRejected
  <2>3. cl'[appId] = "sending"
    <3>1. cl[appId] = "sending" /\ appId \in Apps /\ Clients(FALSE)
      BY <1>4 DEF Known, IInv, ClientInv, TypeOK
    <3>2. QED
      BY <3>1, ClientMoves
  <2>4. QED
    BY <1>4, <2>1, <2>2, <2>3 DEF RefusalInv
<1>5. CASE st \notin {"Error", "ServiceRejected", "AppCfg"}
  <2>1. ~rejected'
    BY <1>1, <1>5 DEF Fsm, Idle, AppCfg, AppMsg, AppOutLen, AppProcess, AppWait, Sw, KeyNotValid,
                      ErrorState, ServiceRejected
  <2>2. ~doneQ'
    BY <1>5
  <2>3. st' = "AppOutLen" => appId' = appId /\ appId \in KmacApps
    BY <1>0, <1>1, <1>5 DEF AppStates
  <2>4. st' \in {"KeyNotValid", "Error", "ServiceRejected"} => st' = "Error" /\ appId' = appId
                                                             /\ appId \in KmacApps
    BY <1>0, <1>1, <1>5 DEF AppStates
  <2>5. QED
    BY <2>1, <2>2, <2>3, <2>4 DEF RefusalInv
<1>6. QED
  BY <1>2, <1>3, <1>4, <1>5

\* A function on 1 .. n is a sequence.
LEMMA FunctionIsSequence ==
  ASSUME NEW S, NEW n \in Nat, NEW f \in [1 .. n -> S]
  PROVE  f \in Seq(S) /\ Len(f) = n
<1>1. f \in Seq(S)
  BY SeqDef
<1>2. DOMAIN f = 1 .. Len(f) /\ Len(f) \in Nat
  BY <1>1, LenProperties
<1>3. QED
  BY <1>1, <1>2

\* The first n words of an application.
LEMMA FirstWords ==
  ASSUME NEW i, NEW n \in Nat, NEW f, f = [k \in 1 .. n |-> <<i, k - 1>>]
  PROVE  f \in Seq(({i} \X Nat) \cup {OutLen}) /\ Len(f) = n
<1> DEFINE S == ({i} \X Nat) \cup {OutLen}
<1>1. f \in [1 .. n -> S]
  OBVIOUS
<1> HIDE DEF S
<1>2. QED
  BY <1>1, FunctionIsSequence

\* The next word of a message, and the output length behind it.
LEMMA OneWordMore ==
  ASSUME NEW i, NEW n \in Nat, NEW f, f = [k \in 1 .. n |-> <<i, k - 1>>]
  PROVE  Append(f, <<i, n>>) = [k \in 1 .. n + 1 |-> <<i, k - 1>>]
<1> DEFINE S == ({i} \X Nat) \cup {OutLen}
           g == [k \in 1 .. n + 1 |-> <<i, k - 1>>]
<1>1. f \in Seq(S) /\ Len(f) = n
  BY FirstWords
<1>2. g \in Seq(S) /\ Len(g) = n + 1
  BY FirstWords
<1>3. <<i, n>> \in S
  OBVIOUS
<1>4. \A k \in 1 .. n : g[k] = f[k]
  OBVIOUS
<1>5. g[n + 1] = <<i, n>>
  OBVIOUS
<1> DEFINE h == Append(f, <<i, n>>)
<1> HIDE DEF S, g
<1>6. /\ h \in Seq(S) /\ Len(h) = n + 1
      /\ \A k \in 1 .. n : h[k] = f[k]
      /\ h[n + 1] = <<i, n>>
  BY <1>1, <1>3, AppendProperties
<1> HIDE DEF h
<1>7. \A k \in 1 .. Len(h) : h[k] = g[k]
  <2>1. \A k \in 1 .. n + 1 : k \in 1 .. n \/ k = n + 1
    OBVIOUS
  <2>2. h[n + 1] = g[n + 1]
    BY <1>5, <1>6
  <2>3. \A k \in 1 .. n : h[k] = g[k]
    BY <1>4, <1>6
  <2>4. QED
    BY <1>6, <2>1, <2>2, <2>3
<1>8. h = g
  <2>1. \A s, t \in Seq(S) : Len(s) = Len(t) /\ (\A k \in 1 .. Len(s) : s[k] = t[k]) => s = t
    BY SeqEqual
  <2>2. QED
    BY <1>2, <1>6, <1>7, <2>1
<1>9. QED
  BY <1>8 DEF g, h

LEMMA LengthBehind ==
  ASSUME NEW i \in KmacApps, NEW f, f = [k \in 1 .. MsgLen |-> <<i, k - 1>>]
  PROVE  Append(f, OutLen) = Message(i)
<1> DEFINE S == ({i} \X Nat) \cup {OutLen}
<1>1. f \in Seq(S)
  BY FirstWords, LengthAssumption
<1>2. OutLen \in S
  OBVIOUS
<1> HIDE DEF S
<1>3. Append(f, OutLen) = f \o <<OutLen>>
  BY <1>1, <1>2, AppendIsConcat
<1>4. QED
  BY <1>3 DEF Message

LEMMA FedStep == ASSUME Known, NEW w, Fsm(w) PROVE FedInv'
<1> USE Transitions, ClientsTold
<1>0. /\ st \in AppStates \cup {"Idle", "Sw", "KeyNotValid", "Error", "ServiceRejected"}
      /\ appId \in Apps /\ pos[appId] \in 0 .. MsgLen - 1 /\ MsgLen \in Nat \ {0}
  BY LengthAssumption DEF Known, IInv, TypeOK
<1>1. CASE st \in {"Idle", "AppCfg", "KeyNotValid", "Error", "ServiceRejected"}
  <2>1. fed = <<>> /\ fed' = fed
    BY <1>1 DEF Known, IInv, FedInv, Fsm, Idle, AppCfg, AppMsg, AppOutLen, AppProcess, AppWait, Sw,
                KeyNotValid, ErrorState, ServiceRejected
  <2>2. st' \in {"Idle", "AppCfg", "KeyNotValid", "Error", "ServiceRejected", "Sw", "AppMsg"}
    BY <1>1
  <2>3. st' = "AppMsg" => pos'[appId'] = 0
    <3>1. st' = "AppMsg" => st = "AppCfg" /\ appId' = appId /\ Clients(FALSE)
      BY <1>1
    <3>2. st = "AppCfg" => pos[appId] = 0
      BY <1>0 DEF Known, IInv, ClientInv
    <3>3. QED
      BY <1>0, <3>1, <3>2, ClientMoves
  <2>4. QED
    BY <2>1, <2>2, <2>3 DEF FedInv
<1>2. CASE st = "AppMsg" /\ Clients(FALSE) /\ st' = "AppMsg" /\ fed' = fed
  <2>1. appId' = appId /\ pos'[appId] = pos[appId]
    BY <1>0, <1>2, ClientMoves
  <2>2. QED
    BY <1>2, <2>1 DEF FedInv, Known, IInv
<1>3. CASE /\ st = "AppMsg" /\ Clients(TRUE) /\ fed' = Append(fed, <<appId, pos[appId]>>)
           /\ st' = IF ~LastBeat THEN "AppMsg"
                    ELSE IF appId \in KmacApps THEN "AppOutLen" ELSE "AppProcess"
  <2>1. cl[appId] = "sending" /\ appId' = appId
    BY <1>3 DEF Known, IInv, ClientInv
  <2>2. fed = [k \in 1 .. pos[appId] |-> <<appId, k - 1>>]
    BY <1>3 DEF Known, IInv, FedInv
  <2>3. fed' = [k \in 1 .. pos[appId] + 1 |-> <<appId, k - 1>>]
    BY <1>0, <1>3, <2>2, OneWordMore
  <2>4. CASE LastBeat
    <3>1. pos[appId] + 1 = MsgLen
      BY <1>0, <2>4 DEF LastBeat
    <3>2. fed' = [k \in 1 .. MsgLen |-> <<appId, k - 1>>]
      BY <2>3, <3>1
    <3>3. appId \notin KmacApps => Message(appId) = fed'
      <4>1. fed' \in Seq(({appId} \X Nat) \cup {OutLen})
        BY <1>0, <3>2, FirstWords
      <4>2. QED
        BY <3>2, <4>1, ConcatEmptySeq DEF Message
    <3>4. QED
      BY <1>3, <2>1, <2>4, <3>2, <3>3 DEF FedInv, Message
  <2>5. CASE ~LastBeat
    <3>1. pos'[appId] = pos[appId] + 1
      BY <1>0, <1>3, <2>1, <2>5, ClientMoves
    <3>2. QED
      BY <1>3, <2>1, <2>3, <2>5, <3>1 DEF FedInv
  <2>6. QED
    BY <2>4, <2>5
<1>4. CASE st = "AppOutLen"
  <2>1. appId' = appId /\ appId \in KmacApps
    BY <1>4 DEF Known, IInv, RefusalInv
  <2>2. \/ st' = "AppProcess" /\ fed' = Append(fed, OutLen)
        \/ st' = "AppOutLen" /\ fed' = fed
    BY <1>4 DEF Fsm, Idle, AppCfg, AppMsg, AppOutLen, AppProcess, AppWait, Sw, KeyNotValid,
                ErrorState, ServiceRejected
  <2>3. fed = [k \in 1 .. MsgLen |-> <<appId, k - 1>>]
    BY <1>4 DEF Known, IInv, FedInv
  <2>4. Append(fed, OutLen) = Message(appId)
    BY <2>1, <2>3, LengthBehind
  <2>5. QED
    BY <2>1, <2>2, <2>3, <2>4 DEF FedInv, Message
<1>5. CASE st = "AppProcess" \/ (st = "AppWait" /\ ~absorbed)
  <2>1. fed' = fed /\ appId' = appId /\ st' = "AppWait"
    BY <1>5 DEF Fsm, Idle, AppCfg, AppMsg, AppOutLen, AppProcess, AppWait, Sw, KeyNotValid,
                ErrorState, ServiceRejected
  <2>2. QED
    BY <1>5, <2>1 DEF FedInv, Known, IInv, Message
<1>6. CASE st = "AppWait" /\ absorbed
  <2>1. fed' = <<>> /\ st' = "Idle"
    BY <1>6 DEF Fsm, Idle, AppCfg, AppMsg, AppOutLen, AppProcess, AppWait, Sw, KeyNotValid,
                ErrorState, ServiceRejected
  <2>2. QED
    BY <2>1 DEF FedInv
<1>7. CASE st = "Sw"
  <2>1. \/ chkCmd = "Done" /\ fed' = <<>> /\ st' = "Idle"
        \/ st' = "Sw" /\ fed' = fed
        \/ st' = "Sw" /\ fed' = Append(fed, SwWord)
    BY <1>7 DEF Fsm, Idle, AppCfg, AppMsg, AppOutLen, AppProcess, AppWait, Sw, KeyNotValid,
                ErrorState, ServiceRejected
  <2>2. \A k \in DOMAIN fed : fed[k] = SwWord
    BY <1>7 DEF Known, IInv, FedInv
  <2>3. \A k \in DOMAIN Append(fed, SwWord) : Append(fed, SwWord)[k] = SwWord
    <3>1. fed \in Seq(Words)
      BY DEF Known, IInv, TypeOK
    <3>2. QED
      BY <2>2, <3>1
  <2>4. QED
    BY <2>1, <2>2, <2>3 DEF FedInv
<1>8. QED
  BY <1>0, <1>1, <1>2, <1>3, <1>4, <1>5, <1>6, <1>7 DEF AppStates

-----------------------------------------------------------------------------
(* The inductive invariant. *)

LEMMA InitIInv == Init => IInv
<1> SUFFICES ASSUME Init PROVE IInv
  OBVIOUS
<1>1. TypeOK
  <2>1. 0 \in Apps /\ 0 \in 0 .. MsgLen - 1
    BY AppsAssumption, LengthAssumption DEF Apps
  <2>2. QED
    BY <2>1 DEF Init, TypeOK, AppStates
<1>2. CommandInv /\ EngineInv /\ ClientInv /\ RefusalInv /\ FedInv
  BY DEF Init, CommandInv, EngineInv, ClientInv, RefusalInv, FedInv
<1>3. QED
  BY <1>1, <1>2 DEF IInv

LEMMA StepIInv == IInv /\ [Next]_vars => IInv'
<1> SUFFICES ASSUME IInv, [Next]_vars PROVE IInv'
  OBVIOUS
<1>1. TypeOK'
  BY TypeStep DEF IInv
<1>2. CASE UNCHANGED vars
  <2>1. sw # "eager" => (CommandInv /\ EngineInv /\ ClientInv /\ RefusalInv)'
    BY <1>2 DEF IInv, vars, CommandInv, EngineInv, InStep, StartLost, ClientInv, RefusalInv
  <2>2. sw # "eager" => FedInv'
    BY <1>2 DEF IInv, vars, FedInv, Message
  <2>3. QED
    BY <1>1, <1>2, <2>1, <2>2 DEF IInv, vars
<1>3. CASE Next
  <2>1. PICK w \in Cmds \cup {"none", "ack"} : Fsm(w)
    BY <1>3 DEF Next
  <2>2. sw' = sw
    BY <2>1, Surroundings DEF IInv
  <2>3. CASE sw # "eager"
    <3>1. Known
      BY <2>3 DEF Known
    <3>2. CommandInv' /\ EngineInv' /\ ClientInv' /\ FedInv'
      BY <2>1, <3>1, CommandStep, EngineStep, ClientStep, FedStep
    <3>3. RefusalInv'
      BY <2>1, <3>1, <3>2, RefusalStep
    <3>4. QED
      BY <1>1, <3>2, <3>3 DEF IInv
  <2>4. QED
    BY <1>1, <2>2, <2>3 DEF IInv
<1>4. QED
  BY <1>2, <1>3

-----------------------------------------------------------------------------
(* The safety properties. *)

\* The three users of the engine, the checker and kmac_app stay in step (IInv) for every number of
\* applications and all software but the eager kind; the properties below follow from it.
THEOREM KmacInvariant == Spec => []IInv
BY InitIInv, StepIInv, PTL DEF Spec

\* Every register of kmac_app, kmac_errchk and sha3 keeps to its values, with any software.
THEOREM KmacTyped == Spec => []TypeOK
<1>1. IInv => TypeOK
  BY DEF IInv
<1>2. QED
  BY <1>1, KmacInvariant, PTL

\* An application gets the digest of its whole message, with nothing of anyone else in it, or a
\* refusal of its own request, of which nothing was hashed (kmac_app's digest mux and error flag).
THEOREM AnswersAreOwn == Spec => []AnswerIsOwn
<1>1. ASSUME IInv PROVE AnswerIsOwn
  <2> SUFFICES ASSUME sw # "eager", NEW i \in Apps, Done(i)
               PROVE  IF Error(i) THEN i \in KmacApps /\ fed = <<>> ELSE fed = Message(i)
    BY DEF AnswerIsOwn
  <2>1. i = appId /\ (doneQ \/ (st = "AppWait" /\ absorbed))
    BY DEF Done
  <2>2. RefusalInv /\ FedInv
    BY <1>1 DEF IInv
  <2>3. CASE doneQ
    BY <2>1, <2>2, <2>3 DEF Error, RefusalInv, FedInv
  <2>4. CASE ~doneQ
    <3>1. st = "AppWait" /\ ~rejected
      BY <2>1, <2>2, <2>4 DEF RefusalInv
    <3>2. QED
      BY <2>1, <2>2, <2>4, <3>1 DEF Error, FedInv
  <2>5. QED
    BY <2>3, <2>4
<1>2. QED
  BY <1>1, KmacInvariant, PTL

\* Done reaches only an application that has sent its last word and waits: the key manager's and the
\* ROM checker's FSMs take one at any other time for a fault.
THEOREM DoneIsAwaited == Spec => [](sw # "eager" => DoneWhenWaiting)
<1>1. ASSUME IInv, sw # "eager" PROVE DoneWhenWaiting
  BY <1>1 DEF IInv, DoneWhenWaiting, Done, ClientInv
<1>2. QED
  BY <1>1, KmacInvariant, PTL

\* The engine refuses no command of an application, and of software none with which the checker has
\* moved on: for it to be refused a start would have to meet the flush after someone's Done.
THEOREM EngineTakesTurns == Spec => [](sw # "eager" => ToldIsAccepted)
<1>1. ASSUME IInv, sw # "eager" PROVE ToldIsAccepted
  <2>1. EngineInv
    BY <1>1 DEF IInv
  <2>2. st = "Sw" => Accepts(chkCmd)
    BY <2>1 DEF EngineInv, InStep, StartLost, Accepts
  <2>3. QED
    BY <2>1, <2>2 DEF EngineInv, ToldIsAccepted
<1>2. QED
  BY <1>1, KmacInvariant, PTL

\* Software that has the engine reads a digest of its own words only.
THEOREM SwDigestIsOwn == Spec => [](sw # "eager" => SwSeesOwnHash)
<1>1. ASSUME IInv, sw # "eager" PROVE SwSeesOwnHash
  BY <1>1 DEF IInv, FedInv, SwSeesOwnHash
<1>2. QED
  BY <1>1, KmacInvariant, PTL

=============================================================================
