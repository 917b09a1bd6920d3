------------------------------- MODULE KmacApp -------------------------------
(***************************************************************************)
(* The application interface of KMAC: kmac_app, the command checker        *)
(* kmac_errchk in front of it and the control part of the sha3 engine      *)
(* behind it.  Three parties compete for the one engine: the applications  *)
(* (0 is the key manager, 1 is the ROM checker), which know no commands    *)
(* and announce themselves by a valid word, and software, which writes     *)
(* commands to a register and words to the message FIFO.                   *)
(*                                                                         *)
(* One step is one clock cycle.  A word of application i is <<i, k>>, so   *)
(* that what the engine has absorbed can be compared with what was sent.   *)
(* A register write takes two cycles on the bus, so software never writes  *)
(* in two cycles in a row.  Life-cycle escalation is tied off in rot_top,  *)
(* and SecIdleAcceptSwMsg and SecCmdDelay are 0 there.                     *)
(***************************************************************************)
EXTENDS Integers, Sequences

CONSTANTS
  NumApps,   \* applications that can make requests (NumAppIntf)
  KmacApps,  \* those configured in KMAC mode: they need entropy and a key
  MsgLen,    \* words of a message of an application
  MaxReqs,   \* bound on the requests of each application
  MaxFed,    \* bound on the words software pushes
  SwKinds    \* how software may behave: "orderly", "free", "eager"

Apps == 0 .. NumApps - 1

ASSUME AppsAssumption == NumApps \in Nat \ {0} /\ KmacApps \subseteq Apps
ASSUME LengthAssumption == MsgLen \in Nat \ {0}
ASSUME BoundsAssumption == MaxReqs \in Nat /\ MaxFed \in Nat
ASSUME SwAssumption == SwKinds \subseteq {"orderly", "free", "eager"}

Cmds == {"Start", "Process", "ManualRun", "Done"}
OutLen == <<NumApps, 0>>   \* the encoded output length
SwWord == <<NumApps, 1>>   \* a word pushed by software
Words == (Apps \X (0 .. MsgLen - 1)) \cup {OutLen, SwWord}

AppStates == {"AppCfg", "AppMsg", "AppOutLen", "AppProcess", "AppWait"}

VARIABLES
  st, appId, rejected, doneQ,  \* kmac_app
  chk, chkCmd,                 \* kmac_errchk: its state and sw_cmd_o
  eng, absorbed, fed,          \* sha3, absorbed_o, words taken since it was cleared
  cl, pos, reqs,               \* applications: what they do, words sent, requests
  wrote,                       \* software wrote a register in the last cycle
  sw                           \* the kind of software (never changes)

appVars == <<st, appId, rejected, doneQ>>
vars == <<st, appId, rejected, doneQ, chk, chkCmd, eng, absorbed, fed,
          cl, pos, reqs, wrote, sw>>

-----------------------------------------------------------------------------
(* Signals. *)

\* app_active_o
AppActive == st \in AppStates

\* The applications that present a valid word.
Asking == {i \in Apps : cl[i] = "sending"}

\* Mutant: the index is counted from the wrong end.
WinnerFromTop == NumApps - CHOOSE i \in Asking : \A j \in Asking : i <= j

\* prim_arbiter_fixed: the lowest index wins.
Winner == CHOOSE i \in Asking : \A j \in Asking : i <= j

LastBeat == cl[appId] = "sending" /\ pos[appId] = MsgLen - 1

\* Mutant: the answer is not restricted to the selected application.
DoneToAll(i) == i \in Apps /\ (doneQ \/ (st = "AppWait" /\ absorbed))

\* app_digest_done | fsm_digest_done_q, for the application that is selected.
Done(i) == i = appId /\ (doneQ \/ (st = "AppWait" /\ absorbed))

\* The error flag that goes with it.
Error(i) == i = appId /\ (doneQ \/ rejected)

\* What software may write in this cycle.  Free software issues commands in
\* any order; orderly software only those the checker allows.  Both confirm
\* an error only when the refused message has drained; eager software writes
\* at any time.
MayWrite(w) ==
  \/ w = "none"
  \/ /\ ~wrote
     /\ w = "ack" /\ sw # "eager" => ~(st = "Error" /\ cl[appId] = "sending")
     /\ w \in Cmds /\ sw = "orderly" =>
          w \in CASE chk = "Idle" -> {"Start"}
                  [] chk = "MsgFeed" -> {"Process"}
                  [] chk = "Absorbed" -> {"ManualRun", "Done"}
                  [] OTHER -> {}

-----------------------------------------------------------------------------
(* Reset. *)

Init ==
  /\ st = "Idle" /\ appId = 0 /\ rejected = FALSE /\ doneQ = FALSE
  /\ chk = "Idle" /\ chkCmd = "None"
  /\ eng = "Idle" /\ absorbed = FALSE /\ fed = <<>>
  /\ cl = [i \in Apps |-> "idle"] /\ pos = [i \in Apps |-> 0]
  /\ reqs = [i \in Apps |-> 0]
  /\ wrote = FALSE /\ sw \in SwKinds

-----------------------------------------------------------------------------
(* kmac_errchk *)

\* Mutant: a Done is let through during a further round.
OutOfSequenceLax(w) ==
  w \in Cmds /\ w \notin CASE chk = "Idle" -> {"Start"}
                           [] chk = "MsgFeed" -> {"Process"}
                           [] chk = "Absorbed" -> {"ManualRun", "Done"}
                           [] chk = "Squeezing" -> {"Done"}
                           [] OTHER -> {}

\* err_swsequence
OutOfSequence(w) ==
  w \in Cmds /\ w \notin CASE chk = "Idle" -> {"Start"}
                           [] chk = "MsgFeed" -> {"Process"}
                           [] chk = "Absorbed" -> {"ManualRun", "Done"}
                           [] OTHER -> {}

\* Mutant: the end of a further round is missed.
NextChkStuck(w) ==
  CASE chk = "Idle" /\ ~AppActive /\ w = "Start" -> "MsgFeed"
    [] chk = "MsgFeed" /\ w = "Process" -> "Processing"
    [] chk = "Processing" /\ absorbed -> "Absorbed"
    [] chk = "Absorbed" /\ w = "ManualRun" -> "Squeezing"
    [] chk = "Absorbed" /\ w = "Done" -> "Idle"
    [] OTHER -> chk

\* st_d of the checker.
NextChk(w) ==
  CASE chk = "Idle" /\ ~AppActive /\ w = "Start" -> "MsgFeed"
    [] chk = "MsgFeed" /\ w = "Process" -> "Processing"
    [] chk = "Processing" /\ absorbed -> "Absorbed"
    [] chk = "Absorbed" /\ w = "ManualRun" -> "Squeezing"
    [] chk = "Absorbed" /\ w = "Done" -> "Idle"
    [] chk = "Squeezing" /\ eng = "Rerun" /\ eng' = "Squeeze" -> "Absorbed"
    [] OTHER -> chk

\* A start with a bad mode, strength or entropy configuration is refused like
\* a command out of sequence.  A refused command freezes both registers.
Errchk(w) ==
  \E badConfig \in BOOLEAN :
    IF \/ OutOfSequence(w)
       \/ badConfig /\ chk = "Idle" /\ NextChk(w) = "MsgFeed"
    THEN UNCHANGED <<chk, chkCmd>>
    ELSE /\ chk' = NextChk(w)
         /\ chkCmd' = IF w \in Cmds THEN w ELSE "None"

-----------------------------------------------------------------------------
(* The engine: sha3, with the flush of the message FIFO on the way. *)

\* The commands the engine may be given in each state; any other one is an
\* ErrSha3SwControl.
Accepts(cmd) == cmd \in CASE eng = "Idle" -> {"None", "Start"}
                          [] eng = "Absorb" -> {"None", "Process"}
                          [] eng = "Squeeze" -> {"None", "ManualRun", "Done"}
                          [] OTHER -> {"None"}

\* It takes its time to absorb the message and to run a further round.
Engine(cmd) ==
  \/ /\ eng = "Idle" /\ absorbed' = FALSE
     /\ eng' = IF cmd = "Start" THEN "Absorb" ELSE eng
  \/ /\ eng = "Absorb" /\ absorbed' = FALSE
     /\ eng' = IF cmd = "Process" THEN "Process" ELSE eng
  \/ /\ eng = "Process"
     /\ eng' \in {"Process", "Squeeze"} /\ absorbed' = (eng' = "Squeeze")
  \/ /\ eng = "Squeeze" /\ absorbed' = FALSE
     /\ eng' = IF cmd = "ManualRun" THEN "Rerun"
               ELSE IF cmd = "Done" THEN "Flush" ELSE eng
  \/ /\ eng = "Rerun" /\ absorbed' = FALSE
     /\ eng' \in {"Rerun", "Squeeze"}
  \/ /\ eng = "Flush" /\ eng' = "Idle" /\ absorbed' = FALSE

-----------------------------------------------------------------------------
(* The applications. *)

\* `taken` says that the word of the selected application is accepted.
Clients(taken) ==
  \E begin \in SUBSET {i \in Apps : cl[i] = "idle" /\ reqs[i] < MaxReqs} :
    /\ cl' = [i \in Apps |->
                CASE i \in begin -> "sending"
                  [] taken /\ i = appId /\ pos[i] = MsgLen - 1 -> "waiting"
                  [] cl[i] = "waiting" /\ Done(i) -> "idle"
                  [] OTHER -> cl[i]]
    /\ pos' = IF taken THEN [pos EXCEPT ![appId] = (@ + 1) % MsgLen] ELSE pos
    /\ reqs' = [i \in Apps |-> IF i \in begin THEN reqs[i] + 1 ELSE reqs[i]]

\* Everything around the FSM of kmac_app in a cycle in which software writes
\* w and the FSM gives the engine cmd.
Around(w, cmd, taken) ==
  /\ MayWrite(w)
  /\ Engine(cmd) /\ Errchk(w) /\ Clients(taken)
  /\ wrote' = (w # "none")
  /\ UNCHANGED sw

-----------------------------------------------------------------------------
(* kmac_app, one action per state of its FSM. *)

\* An application goes before a start command in the same cycle, which is
\* then lost.
Idle(w) ==
  /\ st = "Idle" /\ doneQ' = FALSE
  /\ \/ /\ Asking # {}
        /\ st' = "AppCfg" /\ appId' = Winner
        /\ Around(w, "None", FALSE)
     \/ /\ Asking = {} /\ chkCmd = "Start"
        /\ st' = "Sw" /\ appId' = appId
        /\ Around(w, "Start", FALSE)
     \/ /\ Asking = {} /\ chkCmd # "Start"
        /\ UNCHANGED <<st, appId>>
        /\ Around(w, "None", FALSE)
  /\ UNCHANGED <<rejected, fed>>

AppCfg(w) ==
  /\ st = "AppCfg" /\ doneQ' = FALSE
  /\ \/ /\ appId \in KmacApps   \* the entropy is not configured
        /\ st' = "Error" /\ rejected' = TRUE
        /\ Around(w, "None", FALSE)
     \/ /\ appId \in KmacApps   \* the sideloaded key is not valid
        /\ st' = "KeyNotValid" /\ UNCHANGED rejected
        /\ Around(w, "None", FALSE)
     \/ /\ st' = "AppMsg" /\ UNCHANGED rejected
        /\ Around(w, "Start", FALSE)
  /\ UNCHANGED <<appId, fed>>

AppMsg(w) ==
  /\ st = "AppMsg" /\ doneQ' = FALSE
  /\ \/ /\ cl[appId] = "sending"   \* the FIFO has room
        /\ st' = IF ~LastBeat THEN st
                 ELSE IF appId \in KmacApps THEN "AppOutLen" ELSE "AppProcess"
        /\ fed' = Append(fed, <<appId, pos[appId]>>)
        /\ Around(w, "None", TRUE)
     \/ /\ UNCHANGED <<st, fed>>
        /\ Around(w, "None", FALSE)
  /\ UNCHANGED <<appId, rejected>>

AppOutLen(w) ==
  /\ st = "AppOutLen" /\ doneQ' = FALSE
  /\ \/ st' = "AppProcess" /\ fed' = Append(fed, OutLen)
     \/ UNCHANGED <<st, fed>>
  /\ Around(w, "None", FALSE)
  /\ UNCHANGED <<appId, rejected>>

AppProcess(w) ==
  /\ st = "AppProcess" /\ st' = "AppWait" /\ doneQ' = FALSE
  /\ Around(w, "Process", FALSE)
  /\ UNCHANGED <<appId, rejected, fed>>

\* Mutant: what was hashed is not cleared after an application.
AppWaitKeeps(w) ==
  /\ st = "AppWait" /\ doneQ' = FALSE
  /\ IF absorbed
     THEN st' = "Idle" /\ appId' = 0 /\ Around(w, "Done", FALSE)
     ELSE UNCHANGED <<st, appId>> /\ Around(w, "None", FALSE)
  /\ UNCHANGED <<rejected, fed>>

\* The digest goes out, the FIFO is cleared and the engine let go.
AppWait(w) ==
  /\ st = "AppWait" /\ doneQ' = FALSE
  /\ IF absorbed
     THEN /\ st' = "Idle" /\ appId' = 0 /\ fed' = <<>>
          /\ Around(w, "Done", FALSE)
     ELSE UNCHANGED <<st, appId, fed>> /\ Around(w, "None", FALSE)
  /\ UNCHANGED rejected

\* Mutant: what was hashed is not cleared after software.
SwKeeps(w) ==
  /\ st = "Sw" /\ doneQ' = FALSE
  /\ st' = IF chkCmd = "Done" THEN "Idle" ELSE st
  /\ \/ fed' = fed
     \/ /\ eng = "Absorb" /\ chkCmd = "None" /\ Len(fed) < MaxFed
        /\ fed' = Append(fed, SwWord)
  /\ Around(w, chkCmd, FALSE)
  /\ UNCHANGED <<appId, rejected>>

\* Software has the engine until its Done; it pushes words only while the
\* engine absorbs (MessageValid_a).
Sw(w) ==
  /\ st = "Sw" /\ doneQ' = FALSE
  /\ st' = IF chkCmd = "Done" THEN "Idle" ELSE st
  /\ \/ fed' = IF chkCmd = "Done" THEN <<>> ELSE fed
     \/ /\ eng = "Absorb" /\ chkCmd = "None" /\ Len(fed) < MaxFed
        /\ fed' = Append(fed, SwWord)
  /\ Around(w, chkCmd, FALSE)
  /\ UNCHANGED <<appId, rejected>>

KeyNotValid(w) ==
  /\ st = "KeyNotValid" /\ st' = "Error" /\ doneQ' = FALSE
  /\ Around(w, "None", FALSE)
  /\ UNCHANGED <<appId, rejected, fed>>

\* The refused message drains; its last word is answered with an error.  After
\* a rejected service the FSM goes on by itself, otherwise software has to
\* confirm the error.
ErrorState(w) ==
  /\ st = "Error" /\ doneQ' = LastBeat
  /\ st' = IF LastBeat /\ rejected THEN "ServiceRejected"
           ELSE IF w = "ack" THEN "Idle" ELSE st
  /\ appId' = IF w = "ack" THEN 0 ELSE appId
  /\ Around(w, "None", cl[appId] = "sending")
  /\ UNCHANGED <<rejected, fed>>

ServiceRejected(w) ==
  /\ st = "ServiceRejected" /\ st' = "Idle" /\ doneQ' = FALSE
  /\ appId' = 0 /\ rejected' = FALSE
  /\ Around(w, "None", FALSE)
  /\ UNCHANGED fed

Fsm(w) == \/ Idle(w) \/ AppCfg(w) \/ AppMsg(w) \/ AppOutLen(w)
          \/ AppProcess(w) \/ AppWait(w) \/ Sw(w) \/ KeyNotValid(w)
          \/ ErrorState(w) \/ ServiceRejected(w)

Next == \E w \in Cmds \cup {"none", "ack"} : Fsm(w)

Spec == Init /\ [][Next]_vars

\* The clock runs; the FIFO drains and the engine comes to an end; software
\* finishes what it has started and sees to errors.
Fairness ==
  /\ WF_vars(Next)
  /\ WF_vars(Next /\ st \in {"AppMsg", "AppOutLen"} /\ fed' # fed)
  /\ WF_vars(Next /\ eng \in {"Process", "Rerun"} /\ eng' = "Squeeze")
  /\ SF_vars(Fsm("Process") /\ st = "Sw")
  /\ SF_vars(Fsm("Done") /\ st = "Sw")
  /\ SF_vars(Fsm("ack") /\ st = "Error")

FairSpec == Spec /\ Fairness

-----------------------------------------------------------------------------
(* Properties. *)

\* Every register holds a value of its range.
TypeOK ==
  /\ st \in AppStates \cup {"Idle", "Sw", "KeyNotValid", "Error", "ServiceRejected"}
  /\ appId \in Apps /\ rejected \in BOOLEAN /\ doneQ \in BOOLEAN
  /\ chk \in {"Idle", "MsgFeed", "Processing", "Absorbed", "Squeezing"}
  /\ chkCmd \in Cmds \cup {"None"}
  /\ eng \in {"Idle", "Absorb", "Process", "Squeeze", "Rerun", "Flush"}
  /\ absorbed \in BOOLEAN /\ fed \in Seq(Words)
  /\ cl \in [Apps -> {"idle", "sending", "waiting"}]
  /\ pos \in [Apps -> 0 .. MsgLen - 1] /\ reqs \in [Apps -> Nat]
  /\ wrote \in BOOLEAN /\ sw \in SwKinds

\* The message of application i as the engine has to see it.
Message(i) == [k \in 1 .. MsgLen |-> <<i, k - 1>>]
                \o IF i \in KmacApps THEN <<OutLen>> ELSE <<>>

\* Whoever else asked for the engine and whenever, an application is answered
\* for its own request.  Without an error it gets the digest of its message:
\* all its words in order, and nothing of anyone else.  With an error it is
\* one that may be refused, and nothing of its message was hashed: the ROM
\* check never fails because the key manager was refused before it.
AnswerIsOwn ==
  sw # "eager" => \A i \in Apps : Done(i) =>
    IF Error(i) THEN i \in KmacApps /\ fed = <<>> ELSE fed = Message(i)

\* An answer comes only to an application that has sent its last word and
\* still waits: the key manager and the ROM checker take any other for a fault.
DoneWhenWaiting == \A i \in Apps : Done(i) => cl[i] = "waiting"

\* However closely one user follows another, the engine accepts every command of
\* an application, and of software every one that has moved the checker: whoever
\* has been told that it is its turn is not refused, so that its message is not lost.
ToldIsAccepted ==
  /\ st = "Idle" /\ Asking = {} /\ chkCmd = "Start" /\ chk # "Idle" => eng = "Idle"
  /\ st = "AppCfg" => eng = "Idle"
  /\ st = "AppProcess" => eng = "Absorb"
  /\ st = "AppWait" /\ absorbed => eng = "Squeeze"
  /\ st = "Sw" => Accepts(chkCmd)

\* "Only valid command is sent out to the rest of the modules": the engine accepts
\* every command of software that leaves the checker and that the FSM passes on.
EngineAccepts ==
  /\ st = "Idle" /\ Asking = {} /\ chkCmd = "Start" => eng = "Idle"
  /\ st = "Sw" => Accepts(chkCmd)

\* The digest software can read is that of the words software has pushed.
SwSeesOwnHash ==
  st = "Sw" /\ eng = "Squeeze" => \A k \in DOMAIN fed : fed[k] = SwWord

\* The start of software was lost on an engine that was still flushing: the FSM waits
\* for its Done, which the checker will not let through before another start.
StartLost == st = "Sw" /\ chk = "Idle" /\ eng = "Idle"

\* Every request of an application is answered, unless a lost start of software
\* (EngineAccepts) keeps the FSM; nothing makes software write a second one.
EveryRequestEnds ==
  \A i \in Apps : sw = "orderly" /\ cl[i] = "sending" ~> cl[i] = "idle" \/ StartLost

\* The error state flushes the request out: whoever is refused is answered
\* before the FSM leaves it.
RefusalIsFlushed == [][st = "Error" /\ st' # "Error" => cl'[appId] # "sending"]_vars

-----------------------------------------------------------------------------
(* The inductive invariant behind the safety properties. *)

\* A command shows for one cycle only, the one after it was written; a start that was passed on
\* while an application was active meets an idle FSM only together with the flush after its digest.
CommandInv ==
  /\ chkCmd # "None" => wrote
  /\ chkCmd = "Start" =>
       \/ chk = "MsgFeed"
       \/ chk = "Idle" /\ (st \notin {"Idle", "Sw"} \/ (st = "Idle" /\ eng = "Flush"))

\* While software has the engine, the checker follows it, but for a command that is on its
\* way, and for a completion that a refused command has kept from it; after a lost start
\* both are idle until the next one.
InStep ==
  \/ StartLost /\ chkCmd = "None"
  \/ chk = "MsgFeed" /\ chkCmd = "Start" /\ eng = "Idle"
  \/ chk = "MsgFeed" /\ chkCmd = "None" /\ eng = "Absorb"
  \/ chk = "Processing" /\ chkCmd = "Process" /\ eng = "Absorb"
  \/ chk = "Processing" /\ chkCmd = "None" /\ eng \in {"Process", "Squeeze"}
  \/ chk = "Absorbed" /\ chkCmd = "None" /\ eng = "Squeeze"
  \/ chk = "Squeezing" /\ chkCmd = "ManualRun" /\ eng = "Squeeze"
  \/ chk = "Squeezing" /\ chkCmd = "None" /\ eng \in {"Rerun", "Squeeze"}
  \/ chk = "Idle" /\ chkCmd = "Done" /\ eng = "Squeeze"

\* The state of the engine in each state of the FSM; it is flushed before it is given away, but
\* for a start that the checker has not moved on with.
EngineInv ==
  /\ absorbed => eng = "Squeeze"
  /\ st = "Idle" => eng = "Idle" \/ (eng = "Flush" /\ (chkCmd = "Start" => chk = "Idle"))
  /\ st \in {"AppCfg", "KeyNotValid", "Error", "ServiceRejected"} => eng = "Idle"
  /\ st \in {"AppMsg", "AppOutLen", "AppProcess"} => eng = "Absorb"
  /\ st = "AppWait" => eng = IF absorbed THEN "Squeeze" ELSE "Process"
  /\ st = "Sw" => InStep

\* Where the selected application is in its request; no other one is served.
ClientInv ==
  /\ st \in {"AppCfg", "AppMsg", "KeyNotValid"} => cl[appId] = "sending"
  /\ st \in {"AppOutLen", "AppProcess", "AppWait"} \/ doneQ => cl[appId] = "waiting"
  /\ \A i \in Apps : cl[i] = "waiting" =>
       i = appId /\ (st \in {"AppOutLen", "AppProcess", "AppWait"} \/ doneQ)
  /\ \A i \in Apps : pos[i] # 0 =>
       i = appId /\ cl[i] = "sending" /\ st \in {"AppMsg", "Error"}

\* Who is refused, and that a rejected service ends with the answer to its request.
RefusalInv ==
  /\ st \in {"KeyNotValid", "Error", "ServiceRejected", "AppOutLen"} => appId \in KmacApps
  /\ doneQ => st \in {"Error", "ServiceRejected"}
  /\ rejected => st = "ServiceRejected" \/ (st = "Error" /\ cl[appId] = "sending")
  /\ st = "ServiceRejected" => rejected /\ doneQ

\* What the engine has been fed: nothing before a message, then the words in order.
FedInv ==
  /\ st \in {"Idle", "AppCfg", "KeyNotValid", "Error", "ServiceRejected"} => fed = <<>>
  /\ st = "AppMsg" => fed = [k \in 1 .. pos[appId] |-> <<appId, k - 1>>]
  /\ st = "AppOutLen" => fed = [k \in 1 .. MsgLen |-> <<appId, k - 1>>]
  /\ st \in {"AppProcess", "AppWait"} => fed = Message(appId)
  /\ st = "Sw" => \A k \in DOMAIN fed : fed[k] = SwWord

\* None of this is claimed of eager software, which confirms errors too early.
IInv == /\ TypeOK
        /\ sw # "eager" => CommandInv /\ EngineInv /\ ClientInv /\ RefusalInv /\ FedInv

=============================================================================
