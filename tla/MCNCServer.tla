----------------------------- MODULE MCNCServer ------------------------------
(***************************************************************************)
(* NCServer with the smallest data processor that has an end: it counts    *)
(* the results it takes and is done after Units of them.                   *)
(***************************************************************************)
EXTENDS NCServer, TLC

CONSTANT Units

MCProcessorState == 0 .. Units
MCNewProcessor == 0
MCJobDone(p) == p = Units
MCNodeTimeout(p, n) == p
MCNewData(p, n) == {[processor |-> p, data |-> d] : d \in Data}
MCProcessResult(p, n, d) == IF p < Units THEN p + 1 ELSE p

Symmetric == Permutations(Conn)
=============================================================================
