------------------------------- MODULE MCScrRam -------------------------------
(* A small instance of ScrRam: two words of two lanes, two nonces, of which *)
(* one swaps the addresses.                                                *)
EXTENDS ScrRam

\* The first lane carries either value, the other lane always 0; a write touches
\* it alone or both.
First == CHOOSE l \in Lane : TRUE
MCWords == {[l \in Lane |-> IF l = First THEN v ELSE 0] : v \in Val}
MCMasks == {Lane, {First}}
MCPhys == [n \in {"plain", "swap"} |-> [a \in 0 .. 1 |-> IF n = "swap" THEN 1 - a ELSE a]]
=============================================================================
