-------------------------------- MODULE KeyPort --------------------------------
(***************************************************************************)
(* What a scrambled RAM may rely on at its key port (ScrRam's KeyPort and  *)
(* Errors): the key and nonce are not exchanged under a valid port but     *)
(* withdrawn first, and the order to suppress accesses, once given, stays. *)
(***************************************************************************)
VARIABLES
  valid,   \* key_valid_i
  key,     \* key_i and nonce_i
  locking  \* intg_error_i of the previous cycle

vars == <<valid, key, locking>>

Init == valid = TRUE /\ locking = FALSE

Keep == UNCHANGED <<valid, key>>
Wipe == valid' = FALSE
Load == ~valid /\ valid' = TRUE

Next == (Keep \/ Wipe \/ Load) /\ (locking => locking')

Spec == Init /\ [][Next]_vars
=============================================================================
