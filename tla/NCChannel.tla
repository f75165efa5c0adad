------------------------------ MODULE NCChannel ------------------------------
(***************************************************************************)
(* What NCNetwork takes one direction of a connection for: the message     *)
(* that was sent arrives as it was sent, at most once, or not at all.      *)
(***************************************************************************)
CONSTANT Message

VARIABLES sent,       \* {} or the message sent
          delivered,  \* {} or the message the receiver has
          failed      \* the receiver got an exception instead

channel == <<sent, delivered, failed>>

Init == sent = {} /\ delivered = {} /\ failed = FALSE

Send(m) == /\ sent = {}
           /\ sent' = {m}
           /\ UNCHANGED <<delivered, failed>>

Deliver == /\ sent # {} /\ delivered = {} /\ ~failed
           /\ delivered' = sent
           /\ UNCHANGED <<sent, failed>>

Fail == /\ delivered = {} /\ ~failed
        /\ failed' = TRUE
        /\ UNCHANGED <<sent, delivered>>

Next == Deliver \/ Fail \/ \E m \in Message : Send(m)

Spec == Init /\ [][Next]_channel
=============================================================================
