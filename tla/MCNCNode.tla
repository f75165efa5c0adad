------------------------------ MODULE MCNCNode -------------------------------
EXTENDS NCNodeEnv, TLC

MCProcessData(d) == "result"

Symmetric == Permutations(Conn)
=============================================================================
