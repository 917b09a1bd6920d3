------------------------------ MODULE MCRomCtrl ------------------------------
EXTENDS RomCtrl

\* An image of RomDepth words whose top words differ in every half.
MCRom == [a \in Addr |-> <<a % 2, (a + 1) % 2>>]
=============================================================================
