------------------------------ MODULE JobBoard -------------------------------
(***************************************************************************)
(* What a server promises about the work it hands out, without sockets,    *)
(* threads or rows: a unit is worked on by at most one worker at a time,   *)
(* only the worker that holds it can complete it, what is done stays done, *)
(* and what is published is the whole, unless the server says that it      *)
(* gave up.                                                                *)
(***************************************************************************)
CONSTANTS Worker, Unit,
          NoUnit     \* "holds nothing", no element of Unit

VARIABLES claim,     \* the unit each worker holds
          done,      \* the units completed
          published  \* what was written out: "nothing", the "whole" or,
                     \* after giving up, the result "soFar"

board == <<claim, done, published>>

Init == /\ claim = [w \in Worker |-> NoUnit]
        /\ done = {}
        /\ published = "nothing"

\* A worker gets a unit nobody holds; whatever it held before is given up.
Claim(w, u) ==
  /\ u \notin done
  /\ \A v \in Worker : claim[v] # u
  /\ claim' = [claim EXCEPT ![w] = u]
  /\ UNCHANGED <<done, published>>

Release(w) ==
  /\ claim[w] # NoUnit
  /\ claim' = [claim EXCEPT ![w] = NoUnit]
  /\ UNCHANGED <<done, published>>

Complete(w) ==
  /\ claim[w] # NoUnit
  /\ done' = done \cup {claim[w]}
  /\ claim' = [claim EXCEPT ![w] = NoUnit]
  /\ UNCHANGED published

Publish ==
  /\ published = "nothing"
  /\ done = Unit
  /\ published' = "whole"
  /\ UNCHANGED <<claim, done>>

GiveUp ==
  /\ published = "nothing"
  /\ published' = "soFar"
  /\ UNCHANGED <<claim, done>>

Next == \/ \E w \in Worker : Release(w) \/ Complete(w) \/ \E u \in Unit : Claim(w, u)
        \/ Publish \/ GiveUp

Spec == Init /\ [][Next]_board
=============================================================================
