------------------------------- MODULE RomGate -------------------------------
(***************************************************************************)
(* What rom_ctrl promises to the bus: the ROM window stays shut until the  *)
(* check of the image is over, answers each granted read with the word at  *)
(* the address it was granted for, one cycle later, and falls silent for   *)
(* good once something is wrong.                                           *)
(***************************************************************************)
EXTENDS Naturals

CONSTANTS
  Depth,    \* number of ROM words
  Content,  \* [0 .. Depth-1 -> words]
  None      \* no address, no word

VARIABLES
  gate,     \* "shut", "open" or "dead"
  asked,    \* the read granted in the previous cycle, or None
  rsp       \* the word on the bus in this cycle, or None

gvars == <<gate, asked, rsp>>

GateInit == gate = "shut" /\ asked = None /\ rsp = None

\* The check ends; the cycle in which the gate opens carries no response.
Open == gate = "shut" /\ gate' = "open" /\ UNCHANGED <<asked, rsp>>

\* A read granted in this cycle is answered in the next one.
Read == /\ gate = "open" /\ gate' = "open"
        /\ \E a \in 0 .. Depth - 1 : asked' = a /\ rsp' = Content[a]

\* No read is granted, so the next cycle is silent.
Rest == gate = "open" /\ gate' = "open" /\ asked' = None /\ rsp' = None

\* A fault: a read granted in the same cycle is not answered any more.
Kill == /\ gate # "dead" /\ gate' = "dead" /\ rsp' = None
        /\ asked' \in (0 .. Depth - 1) \cup {None}

\* No read is granted any more.
Silence == gate = "dead" /\ asked' = None /\ UNCHANGED <<gate, rsp>>

GateNext == Open \/ Read \/ Rest \/ Kill \/ Silence

GateSpec == GateInit /\ [][GateNext]_gvars
=============================================================================
