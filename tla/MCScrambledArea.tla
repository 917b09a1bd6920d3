---------------------------- MODULE MCScrambledArea ----------------------------
(* ScrambledArea with the data memory of OTBN: rows of eight words, 128 of  *)
(* them.                                                                   *)
EXTENDS ScrambledArea

\* Bits spread by a step that is coprime to most widths, so that no key is made
\* of equal parts.
Spread(from, step, n) == {(from + step * i) % n : i \in 0 .. n \div 3}
MCPorts == << [key |-> Spread(5, 7, 128), nonce |-> Spread(3, 11, 320)],
              [key |-> Spread(2, 29, 128), nonce |-> Spread(1, 37, 320)] >>
MCAddrs == {1, 98}
Counted(k) == [i \in Lane |-> Spread(k + i, 5 + 2 * i, 32)]
MCWords == {Counted(0)}
\* Every second word without integrity.
MCFlagged == {[i \in Lane |-> [good |-> i % 2 = 0, word |-> Counted(9)[i]]]}
=============================================================================
