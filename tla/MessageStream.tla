--------------------------- MODULE MessageStream ---------------------------
(***************************************************************************)
(* What a stream transport promises its users: the messages the peer has   *)
(* written are handed over whole, in order and once each, until the        *)
(* connection is given up.                                                 *)
(***************************************************************************)
EXTENDS Sequences, Naturals

CONSTANT Messages

VARIABLES sent, delivered, open

Init == sent = <<>> /\ delivered = <<>> /\ open = TRUE

Write == \E m \in Messages : sent' = Append(sent, m) /\ UNCHANGED <<delivered, open>>

HandOver ==
    /\ open
    /\ Len(delivered) < Len(sent)
    /\ delivered' = Append(delivered, sent[Len(delivered) + 1])
    /\ UNCHANGED <<sent, open>>

GiveUp == open' = FALSE /\ UNCHANGED <<sent, delivered>>

Next == Write \/ HandOver \/ GiveUp
Spec == Init /\ [][Next]_<<sent, delivered, open>>

=============================================================================
