------------------------------ MODULE ClientTsx ------------------------------
(***************************************************************************)
(* One client transaction of rssip (transaction/client.rs), from           *)
(* ClientTransaction::send to the drop of the object.                      *)
(*                                                                         *)
(* The TU owns the transaction: it may wait for a provisional response,    *)
(* give that wait up, and wait for the final response, which consumes the  *)
(* object.  A spawned task then absorbs what still arrives.  Delivery      *)
(* tasks, one per response the transport received, look the transaction up *)
(* in TsxPlugin and send into its channel, in any order: the network, and  *)
(* the task per message of the transport, may reorder and duplicate.       *)
(*                                                                         *)
(* Time is counted in units of T1; a timer is the number of ticks left.    *)
(***************************************************************************)
EXTENDS Integers, Sequences

CONSTANTS
    Invites,     \* which kinds of request: a subset of BOOLEAN
    Reliables,   \* which kinds of transport: a subset of BOOLEAN
    T1, T2, T4,  \* the timers of timers.rs
    Factor,      \* timers B, D and F are Factor * T1 (64 in the code)
    Cap,         \* capacity of the transaction's channel (10 in the code)
    MaxMsgs      \* bound: responses the network delivers

ASSUME SubsetAssumption == Invites \subseteq BOOLEAN /\ Reliables \subseteq BOOLEAN
ASSUME TimerAssumption == /\ T1 \in Nat \ {0} /\ T2 \in Nat /\ T4 \in Nat
                          /\ Factor \in Nat \ {0}
ASSUME BoundAssumption == Cap \in Nat \ {0} /\ MaxMsgs \in Nat

VARIABLES
    invite,      \* is the request an INVITE?
    reliable,    \* is_reliable()
    state,       \* StateMachine::state
    entry,       \* is the transaction in TsxPlugin's map?
    pending,     \* delivery tasks between get_entry and the end of send
    chan,        \* the responses in the channel
    peeked,      \* PeekableReceiver::peeked
    tu,          \* where the TU is in the transaction's methods
    outcome,     \* how the last method of the TU ended
    linger,      \* where the task spawned for the final response is
    deadline,    \* ticks to ClientTransaction::timeout, or to the task's timer
    retrans,     \* ticks to the next retransmission of the request
    interval,    \* retrans_interval
    acks,        \* ACK requests sent
    provSeen,    \* history: has a provisional response been returned?
    delivered,   \* history: responses that entered the channel
    taken,       \* history: responses returned to the TU or absorbed
    waited,      \* history: ticks since the current wait began
    budget       \* responses the network may still deliver

cfgVars   == <<invite, reliable>>
netVars   == <<entry, pending, budget, delivered>>
queueVars == <<chan, peeked, taken>>
timerVars == <<deadline, retrans, interval, waited>>

vars == <<invite, reliable, state, entry, pending, chan, peeked, tu, outcome,
          linger, deadline, retrans, interval, acks, provSeen, delivered, taken,
          waited, budget>>

Responses == {"1xx", "2xx", "3-6xx"}
None == "none"
States == {"Calling", "Trying", "Proceeding", "Completed", "Terminated"}

T64 == Factor * T1

Dec(n) == IF n > 0 THEN n - 1 ELSE 0

IsProvisional(r) == r = "1xx"
IsFinal(r) == ~IsProvisional(r)

TypeOK ==
    /\ invite \in BOOLEAN /\ reliable \in BOOLEAN
    /\ state \in States
    /\ entry \in BOOLEAN
    /\ pending \in [Responses -> Nat]
    /\ chan \in Seq(Responses) /\ Len(chan) <= Cap
    /\ peeked \in Responses \cup {None}
    /\ tu \in {"new", "sent", "idle", "prov", "final", "ack", "gone"}
    /\ outcome \in {None, "ok", "rejected", "timeout", "closed", "panic"}
    /\ linger \in {"off", "on", "done"}
    /\ deadline \in Nat /\ retrans \in Nat /\ interval \in Nat
    /\ acks \in Nat /\ provSeen \in BOOLEAN
    /\ delivered \in Nat /\ taken \in Nat /\ waited \in Nat
    /\ budget \in 0 .. MaxMsgs

Init ==
    /\ invite \in Invites /\ reliable \in Reliables
    /\ state = IF invite THEN "Calling" ELSE "Trying"
    /\ entry = FALSE
    /\ pending = [r \in Responses |-> 0] /\ budget = MaxMsgs
    /\ chan = <<>> /\ peeked = None
    /\ tu = "new" /\ outcome = None /\ linger = "off"
    /\ deadline = 0 /\ retrans = 0 /\ interval = 0
    /\ acks = 0 /\ provSeen = FALSE
    /\ delivered = 0 /\ taken = 0 /\ waited = 0

-----------------------------------------------------------------------------
(* Delivery tasks: TsxPlugin::on_incoming_response.                        *)

(* The object, and with it the Receiver, exists.                           *)
Alive == tu \in {"idle", "prov", "final", "ack"} \/ linger = "on"

(* get_entry: the response is taken if its transaction is registered, and  *)
(* is left to the other plugins otherwise.                                 *)
Lookup(r) ==
    /\ budget > 0 /\ tu # "new"
    /\ budget' = budget - 1
    /\ pending' = IF entry THEN [pending EXCEPT ![r] = @ + 1] ELSE pending
    /\ UNCHANGED <<cfgVars, state, entry, delivered, queueVars, tu, outcome,
                   linger, timerVars, acks, provSeen>>

Enqueue_IgnoresCap(r) ==
    /\ pending[r] > 0 /\ Alive
    /\ chan' = Append(chan, r)
    /\ pending' = [pending EXCEPT ![r] = @ - 1]
    /\ delivered' = delivered + 1
    /\ UNCHANGED <<cfgVars, state, entry, budget, peeked, taken, tu, outcome,
                   linger, timerVars, acks, provSeen>>

(* channel.send(..).await waits for a free slot of the bounded channel.    *)
Enqueue(r) ==
    /\ pending[r] > 0 /\ Alive /\ Len(chan) < Cap
    /\ chan' = Append(chan, r)
    /\ pending' = [pending EXCEPT ![r] = @ - 1]
    /\ delivered' = delivered + 1
    /\ UNCHANGED <<cfgVars, state, entry, budget, peeked, taken, tu, outcome,
                   linger, timerVars, acks, provSeen>>

(* The receiver is gone: the error of send is ignored.                     *)
Discard(r) ==
    /\ pending[r] > 0 /\ ~Alive
    /\ pending' = [pending EXCEPT ![r] = @ - 1]
    /\ UNCHANGED <<cfgVars, state, entry, budget, delivered, queueVars, tu,
                   outcome, linger, timerVars, acks, provSeen>>

-----------------------------------------------------------------------------
(* PeekableReceiver over the channel.                                      *)

HasFront == peeked # None \/ chan # <<>>
Front == IF peeked # None THEN peeked ELSE Head(chan)
RestOfChan == IF peeked # None THEN chan ELSE Tail(chan)

(* recv_if whose condition holds, and recv.                                *)
TakeFront ==
    /\ HasFront
    /\ chan' = RestOfChan /\ peeked' = None
    /\ taken' = taken + 1

LeaveFront_Drops ==
    /\ HasFront
    /\ chan' = RestOfChan /\ peeked' = None
    /\ UNCHANGED taken

(* recv_if whose condition fails: the response stays, peeked.              *)
LeaveFront ==
    /\ HasFront
    /\ peeked' = Front /\ chan' = RestOfChan
    /\ UNCHANGED taken

-----------------------------------------------------------------------------
(* The TU.                                                                 *)

(* create_outgoing_request and send_outgoing_request: the request goes out *)
(* before the transaction is registered.                                   *)
Send ==
    /\ tu = "new" /\ tu' = "sent"
    /\ UNCHANGED <<cfgVars, state, netVars, queueVars, outcome, linger,
                   timerVars, acks, provSeen>>

Register ==
    /\ tu = "sent" /\ tu' = "idle"
    /\ entry' = TRUE
    /\ deadline' = T64
    /\ UNCHANGED <<cfgVars, state, pending, budget, delivered, queueVars,
                   outcome, linger, retrans, interval, waited, acks, provSeen>>

Retransmitting == ~reliable /\ state \in {"Calling", "Trying"}

(* A wait arms the retransmission timer afresh, whatever came before it.   *)
BeginWait ==
    /\ interval' = IF Retransmitting THEN T1 ELSE 0
    /\ retrans' = interval'
    /\ waited' = 0
    /\ UNCHANGED deadline

(* receive_provisional_response; after Proceeding it returns None at once. *)
CallProvisional ==
    /\ tu = "idle" /\ tu' = "prov"
    /\ state \in {"Calling", "Trying", "Proceeding"}
    /\ outcome' = None
    /\ BeginWait
    /\ UNCHANGED <<cfgVars, state, netVars, queueVars, linger, acks, provSeen>>

(* receive_final_response in a state that receive_response_if has a case   *)
(* for.                                                                    *)
CallFinal ==
    /\ tu = "idle" /\ tu' = "final"
    /\ state \in {"Calling", "Trying", "Proceeding"}
    /\ outcome' = None
    /\ BeginWait
    /\ UNCHANGED <<cfgVars, state, netVars, queueVars, linger, acks, provSeen>>

(* receive_final_response after a wait for a provisional response timed    *)
(* out: unreachable!() panics and the unwinding drops the transaction.     *)
CallFinalPanics ==
    /\ tu = "idle" /\ tu' = "gone"
    /\ state \notin {"Calling", "Trying", "Proceeding"}
    /\ outcome' = "panic" /\ entry' = FALSE
    /\ UNCHANGED <<cfgVars, state, pending, budget, delivered, queueVars, linger,
                   timerVars, acks, provSeen>>

(* The TU drops the future of receive_provisional_response (a timeout or a *)
(* select! of its own) and keeps the transaction.                          *)
CancelProvisional ==
    /\ tu = "prov" /\ tu' = "idle"
    /\ UNCHANGED <<cfgVars, state, netVars, queueVars, outcome, linger,
                   timerVars, acks, provSeen>>

(* The TU drops the transaction or a future that owns it; Drop::drop       *)
(* removes the entry.                                                      *)
TuDrop ==
    /\ tu \in {"idle", "prov", "final", "ack"} /\ tu' = "gone"
    /\ entry' = FALSE
    /\ UNCHANGED <<cfgVars, state, pending, budget, delivered, queueVars,
                   outcome, linger, timerVars, acks, provSeen>>

ProvReturns_KeepsState ==
    /\ tu = "prov" /\ tu' = "idle"
    /\ \/ HasFront /\ IsProvisional(Front) /\ TakeFront /\ provSeen' = TRUE
       \/ HasFront /\ IsFinal(Front) /\ LeaveFront /\ UNCHANGED provSeen
    /\ outcome' = "ok"
    /\ UNCHANGED <<cfgVars, state, netVars, linger, timerVars, acks>>

(* Some(response), or None if a final response is at the front; both move  *)
(* the transaction to Proceeding.                                          *)
ProvReturns ==
    /\ tu = "prov" /\ tu' = "idle"
    /\ \/ HasFront /\ IsProvisional(Front) /\ TakeFront /\ provSeen' = TRUE
       \/ HasFront /\ IsFinal(Front) /\ LeaveFront /\ UNCHANGED provSeen
    /\ state' = "Proceeding" /\ outcome' = "ok"
    /\ UNCHANGED <<cfgVars, netVars, linger, timerVars, acks>>

(* What the code tests before it terminates the transaction at once: every *)
(* final response of a reliable transport, and 2xx to an INVITE.           *)
EndsAtOnce(r) == reliable \/ (invite /\ r = "2xx")

OutcomeOf(r) == IF r = "2xx" THEN "ok" ELSE "rejected"

FinalEnds ==
    /\ tu = "final" /\ tu' = "gone"
    /\ HasFront /\ IsFinal(Front) /\ EndsAtOnce(Front)
    /\ TakeFront
    /\ outcome' = OutcomeOf(Front)
    /\ state' = "Terminated" /\ entry' = FALSE
    /\ UNCHANGED <<cfgVars, pending, budget, delivered, linger, timerVars, acks,
                   provSeen>>

(* INVITE: the ACK is sent before the response is returned.                *)
FinalToAck ==
    /\ tu = "final" /\ tu' = "ack"
    /\ HasFront /\ IsFinal(Front) /\ ~EndsAtOnce(Front) /\ invite
    /\ TakeFront
    /\ state' = "Completed"
    /\ UNCHANGED <<cfgVars, netVars, outcome, linger, timerVars, acks, provSeen>>

(* The transaction moves into the lingering task, until timer D.           *)
SendAck ==
    /\ tu = "ack" /\ tu' = "gone"
    /\ acks' = acks + 1
    /\ outcome' = "rejected"
    /\ linger' = "on" /\ deadline' = T64
    /\ UNCHANGED <<cfgVars, state, netVars, queueVars, retrans, interval, waited,
                   provSeen>>

(* Non-INVITE: the lingering task runs until timer K.                      *)
FinalCompletes ==
    /\ tu = "final" /\ tu' = "gone"
    /\ HasFront /\ IsFinal(Front) /\ ~EndsAtOnce(Front) /\ ~invite
    /\ TakeFront
    /\ outcome' = OutcomeOf(Front)
    /\ state' = "Completed"
    /\ linger' = "on" /\ deadline' = T4
    /\ UNCHANGED <<cfgVars, netVars, retrans, interval, waited, acks, provSeen>>

FinalRefused_KeepsEntry ==
    /\ tu = "final" /\ tu' = "gone"
    /\ HasFront /\ IsProvisional(Front) /\ LeaveFront
    /\ outcome' = "closed"
    /\ UNCHANGED <<cfgVars, state, netVars, linger, timerVars, acks, provSeen>>

(* A provisional response at the front makes recv_if return None, which    *)
(* receive_final reports as ChannelClosed; the transaction is dropped.     *)
FinalRefused ==
    /\ tu = "final" /\ tu' = "gone"
    /\ HasFront /\ IsProvisional(Front) /\ LeaveFront
    /\ outcome' = "closed" /\ entry' = FALSE
    /\ UNCHANGED <<cfgVars, state, pending, budget, delivered, linger, timerVars,
                   acks, provSeen>>

-----------------------------------------------------------------------------
(* Timers of the TU's wait.                                                *)

Waiting == tu \in {"prov", "final"}

Retransmit_NoBackoff ==
    /\ Waiting /\ Retransmitting /\ ~HasFront /\ retrans = 0
    /\ retrans' = T1
    /\ interval' = 2 * interval
    /\ UNCHANGED <<cfgVars, state, netVars, queueVars, tu, outcome, linger,
                   deadline, waited, acks, provSeen>>

Retransmit ==
    /\ Waiting /\ Retransmitting /\ ~HasFront /\ retrans = 0
    /\ interval' = 2 * interval
    /\ retrans' = interval'
    /\ UNCHANGED <<cfgVars, state, netVars, queueVars, tu, outcome, linger,
                   deadline, waited, acks, provSeen>>

HasDeadline_IgnoresMethod == state \in {"Calling", "Trying", "Proceeding"}

(* An INVITE transaction in Proceeding waits without a deadline.           *)
HasDeadline == state \in {"Calling", "Trying"} \/ (state = "Proceeding" /\ ~invite)

WaitTimesOut_NotProceeding ==
    /\ Waiting /\ state \in {"Calling", "Trying"} /\ ~HasFront /\ deadline = 0
    /\ Retransmitting => retrans > 0
    /\ state' = "Terminated" /\ outcome' = "timeout"
    /\ \/ tu = "prov" /\ tu' = "idle" /\ UNCHANGED entry
       \/ tu = "final" /\ tu' = "gone" /\ entry' = FALSE
    /\ UNCHANGED <<cfgVars, pending, budget, delivered, queueVars, linger,
                   timerVars, acks, provSeen>>

(* Timer B or F.  The retransmission timer is the inner one of the two     *)
(* timeouts and is looked at first.  receive_final_response drops the      *)
(* transaction, receive_provisional_response leaves it with the TU.        *)
WaitTimesOut ==
    /\ Waiting /\ HasDeadline /\ ~HasFront /\ deadline = 0
    /\ Retransmitting => retrans > 0
    /\ state' = "Terminated" /\ outcome' = "timeout"
    /\ \/ tu = "prov" /\ tu' = "idle" /\ UNCHANGED entry
       \/ tu = "final" /\ tu' = "gone" /\ entry' = FALSE
    /\ UNCHANGED <<cfgVars, pending, budget, delivered, queueVars, linger,
                   timerVars, acks, provSeen>>

-----------------------------------------------------------------------------
(* The lingering task absorbs what still arrives; INVITE acknowledges it.  *)

LingerReceives_AcksAll ==
    /\ linger = "on" /\ TakeFront
    /\ acks' = acks + 1
    /\ UNCHANGED <<cfgVars, state, netVars, tu, outcome, linger, timerVars,
                   provSeen>>

LingerReceives ==
    /\ linger = "on" /\ TakeFront
    /\ acks' = IF invite THEN acks + 1 ELSE acks
    /\ UNCHANGED <<cfgVars, state, netVars, tu, outcome, linger, timerVars,
                   provSeen>>

LingerEnds_KeepsEntry ==
    /\ linger = "on" /\ ~HasFront /\ deadline = 0
    /\ linger' = "done" /\ state' = "Terminated"
    /\ UNCHANGED <<cfgVars, netVars, queueVars, tu, outcome, timerVars, acks,
                   provSeen>>

LingerEnds ==
    /\ linger = "on" /\ ~HasFront /\ deadline = 0
    /\ linger' = "done" /\ state' = "Terminated"
    /\ entry' = FALSE
    /\ UNCHANGED <<cfgVars, pending, budget, delivered, queueVars, tu, outcome,
                   timerVars, acks, provSeen>>

-----------------------------------------------------------------------------
(* Time passes.  A waiting task may be late when a timer expires, but by   *)
(* less than a tick (T1 is 500 ms).                                        *)
TimerExpired ==
    \/ Waiting /\ HasDeadline /\ deadline = 0
    \/ Waiting /\ Retransmitting /\ retrans = 0

Tick ==
    /\ deadline > 0 /\ ~TimerExpired
    /\ deadline' = deadline - 1
    /\ retrans' = IF Waiting THEN Dec(retrans) ELSE retrans
    /\ waited' = IF Waiting /\ Retransmitting THEN waited + 1 ELSE waited
    /\ UNCHANGED <<cfgVars, state, netVars, queueVars, tu, outcome, linger,
                   interval, acks, provSeen>>

(* Nothing is left to run once the transaction is gone.                    *)
Finished ==
    /\ tu = "gone" /\ ~Alive /\ \A r \in Responses : pending[r] = 0
    /\ UNCHANGED vars

Deliver == \E r \in Responses : Lookup(r) \/ Enqueue(r) \/ Discard(r)

TuCalls == \/ CallProvisional \/ CallFinal \/ CallFinalPanics
           \/ CancelProvisional \/ TuDrop

TuReturns == \/ ProvReturns \/ FinalEnds \/ FinalToAck \/ FinalCompletes
             \/ FinalRefused \/ Retransmit \/ WaitTimesOut

LingerNext == LingerReceives \/ LingerEnds

Next == \/ Deliver \/ Send \/ Register \/ TuCalls \/ TuReturns \/ SendAck
        \/ LingerNext \/ Tick \/ Finished

Spec == Init /\ [][Next]_vars

(***************************************************************************)
(* The runtime keeps running what is ready: the methods the TU awaits, the *)
(* lingering task, delivery tasks with a free slot, the clock.             *)
(***************************************************************************)
Fairness ==
    /\ WF_vars(TuReturns) /\ WF_vars(SendAck)
    /\ WF_vars(LingerNext) /\ WF_vars(Tick)
    /\ \A r \in Responses : WF_vars(Enqueue(r) \/ Discard(r))

FairSpec == Spec /\ Fairness

-----------------------------------------------------------------------------
(* Properties.                                                             *)

(* TsxPlugin has an entry exactly while the object exists: every error     *)
(* path of the TU's methods and the end of the lingering task unregister   *)
(* it, and nothing unregisters it early.                                   *)
EntryWhileAlive == entry <=> Alive

(* The receiver loses no response: whatever the TU cancels and however     *)
(* its calls alternate, what entered the channel has been returned or      *)
(* absorbed, or is still there to be received, peeked or not.              *)
NoResponseLost ==
    delivered = taken + Len(chan) + (IF peeked = None THEN 0 ELSE 1)

(* PeekableReceiver over the channel is a mailbox with room for one more:  *)
(* no peek, no call that is given up and no other method called next       *)
(* changes the order of the responses or lets one be returned twice, and   *)
(* the sender of a response fails only when the transaction is gone.       *)
Queue == IF peeked = None THEN chan ELSE <<peeked>> \o chan
HasReceiver == tu \in {"new", "sent"} \/ Alive
Box == INSTANCE Mailbox WITH
           Messages <- Responses, Capacity <- Cap + 1, waiting <- pending,
           queue <- Queue, accepted <- delivered, open <- HasReceiver
ReceivedInOrder == Box!Spec

(* Retransmissions back off: after n of them in one wait at least          *)
(* (2^n - 1) * T1 have passed, and the next is 2^n * T1 after the last.    *)
(* Of a request that is no INVITE only as long as the interval is within   *)
(* T2, which timers.rs:6 documents as its maximum.                         *)
Backoff ==
    Waiting /\ Retransmitting /\ (invite \/ interval <= T2) =>
        waited + retrans = 2 * interval - T1

(* Once a provisional response was returned to the TU the request is not   *)
(* retransmitted (tests at client.rs:758 and 1218).                        *)
QuietAfterProvisional ==
    [][provSeen => ~(interval > 0 /\ interval' = 2 * interval)]_vars

(* An INVITE transaction reports a timeout only to a TU that has seen no   *)
(* provisional response: ringing has no time limit.                        *)
NoTimeoutWhileRinging == invite /\ outcome = "timeout" => ~provSeen

(* An ACK is sent by INVITE transactions only, and only when the peer      *)
(* refused the call.                                                       *)
AckOnlyRefusals ==
    acks > 0 => invite /\ outcome = "rejected"

(* Every wait of the TU ends, by a response or by timer B or F, except     *)
(* that of an INVITE transaction in Proceeding.                            *)
WaitsEnd == Waiting /\ HasDeadline ~> ~(Waiting /\ HasDeadline)

(* The lingering task ends and unregisters the transaction, however many   *)
(* retransmissions it absorbs.                                             *)
LingeringEnds == linger = "on" ~> ~entry

(* ChannelClosed is documented as "Channel closed" (error.rs:35), which    *)
(* it is not as long as TsxPlugin holds the transaction's sender.          *)
ClosedMeansClosed == [][outcome # "closed" /\ outcome' = "closed" => ~entry]_vars

(* receive_response_if asserts with unreachable!() that it is only called  *)
(* in Calling, Trying and Proceeding (client.rs:273).                      *)
UnreachableIsUnreachable == outcome # "panic"
=============================================================================
