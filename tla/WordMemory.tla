------------------------------ MODULE WordMemory ------------------------------
(***************************************************************************)
(* What the scrambled RAM promises to its user: a plain array of words     *)
(* that answers a granted read one cycle later with what the last granted  *)
(* writes left there, that forgets everything when it is given another     *)
(* key, and that falls silent for good when OTBN locks.                    *)
(***************************************************************************)
CONSTANTS
  Addr,     \* addresses of the user
  Lane,     \* units of the write mask
  Val,      \* values of a lane
  Data,     \* words a write may carry, a subset of [Lane -> Val]
  Masks,    \* sets of lanes a write may touch
  Garbage,  \* what a lane reads as when nobody has written it under this key
  None      \* no response

VARIABLES
  store,    \* [Addr -> [Lane -> Val \cup {Garbage}]]
  rsp,      \* the word on the read port in this cycle, or None
  locked    \* has the locking signal risen?

mvars == <<store, rsp, locked>>

Words == [Lane -> Val \cup {Garbage}]
Blank == [a \in Addr |-> [l \in Lane |-> Garbage]]

MInit == store = Blank /\ rsp = None /\ locked = FALSE

MRead == /\ ~locked /\ \E a \in Addr : rsp' = store[a]
         /\ UNCHANGED <<store, locked>>

\* The lanes of the mask take the new data, the others keep the old one.
Overlay(old, data, mask) == [l \in Lane |-> IF l \in mask THEN data[l] ELSE old[l]]

MWrite == /\ ~locked /\ rsp' = None /\ locked' = locked
          /\ \E a \in Addr, data \in Data, mask \in Masks :
               store' = [store EXCEPT ![a] = Overlay(store[a], data, mask)]

MIdle == ~locked /\ rsp' = None /\ UNCHANGED <<store, locked>>

\* Another key: a read granted in the same cycle may be answered with anything.
MForget == ~locked /\ store' = Blank /\ rsp' \in Words \cup {None} /\ locked' = locked

MLock == locked' = TRUE /\ rsp' = None /\ store' \in [Addr -> Words]

MNext == MRead \/ MWrite \/ MIdle \/ MForget \/ MLock

MSpec == MInit /\ [][MNext]_mvars
=============================================================================
