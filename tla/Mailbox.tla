------------------------------ MODULE Mailbox ------------------------------
(***************************************************************************)
(* What the channel of a transaction promises those who send into it and   *)
(* the one who receives: a message that is accepted is received once and   *)
(* in its turn, however the receiver goes about it, as long as there is a  *)
(* receiver; a sender waits for room only, and fails only without one.     *)
(***************************************************************************)
EXTENDS Sequences, Naturals

CONSTANTS Messages, Capacity

VARIABLES
    waiting,    \* how many senders are under way with each message
    queue,      \* what has been accepted and not been received
    accepted,   \* how many messages have been accepted
    taken,      \* how many have been received
    open        \* is there a receiver?

Init == /\ waiting = [m \in Messages |-> 0] /\ queue = <<>>
        /\ accepted = 0 /\ taken = 0 /\ open = TRUE

Send(m) ==
    /\ waiting' = [waiting EXCEPT ![m] = @ + 1]
    /\ UNCHANGED <<queue, accepted, taken, open>>

Accept(m) ==
    /\ open /\ waiting[m] > 0 /\ Len(queue) < Capacity
    /\ queue' = Append(queue, m)
    /\ accepted' = accepted + 1
    /\ waiting' = [waiting EXCEPT ![m] = @ - 1]
    /\ UNCHANGED <<taken, open>>

Refuse(m) ==
    /\ ~open /\ waiting[m] > 0
    /\ waiting' = [waiting EXCEPT ![m] = @ - 1]
    /\ UNCHANGED <<queue, accepted, taken, open>>

(* The message may be the last one: the receiver goes with it.             *)
Take ==
    /\ open /\ queue # <<>>
    /\ queue' = Tail(queue)
    /\ taken' = taken + 1
    /\ open' \in BOOLEAN
    /\ UNCHANGED <<waiting, accepted>>

Close == open /\ open' = FALSE /\ UNCHANGED <<waiting, queue, accepted, taken>>

Next == (\E m \in Messages : Send(m) \/ Accept(m) \/ Refuse(m)) \/ Take \/ Close
Spec == Init /\ [][Next]_<<waiting, queue, accepted, taken, open>>

=============================================================================
