----------------------------- MODULE MCNCSystem ------------------------------
EXTENDS NCSystem, TLC

Symmetric == Permutations(Conn) \cup Permutations(Node)
=============================================================================
