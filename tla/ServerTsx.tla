------------------------------ MODULE ServerTsx ------------------------------
(***************************************************************************)
(* One server transaction of rssip (transaction/server.rs), from           *)
(* ServerTransaction::from_request to the drop of the object.              *)
(*                                                                         *)
(* Four kinds of threads of control run here, on a multi-threaded runtime: *)
(*   - the TU, which owns the ServerTransaction and calls its methods;     *)
(*   - the task spawned by the first provisional response, which answers   *)
(*     request retransmissions with the latest provisional response;       *)
(*   - the task spawned by a final response, which owns the transaction    *)
(*     until it is terminated;                                             *)
(*   - the delivery tasks, one per message the transport received, that    *)
(*     look the transaction up in TsxPlugin and send into its channel.     *)
(* The receiving end of the channel passes from the first to the third.    *)
(*                                                                         *)
(* Responses are numbered in the order the TU sends them: 1..MaxProv are   *)
(* provisional, Final is the final one, 0 stands for none.  Time is        *)
(* counted in units of T1; a timer is the number of ticks it has left.     *)
(***************************************************************************)
EXTENDS Integers, Sequences

CONSTANTS
    Invites,     \* which kinds of request start it: a subset of BOOLEAN
    Reliables,   \* which kinds of transport carry it: a subset of BOOLEAN
    T1, T2, T4,  \* the timers of timers.rs
    Cap,         \* capacity of the transaction's channel (10 in the code)
    MaxProv,     \* bound: provisional responses the TU sends
    MaxMsgs      \* bound: messages the network delivers

ASSUME SubsetAssumption == Invites \subseteq BOOLEAN /\ Reliables \subseteq BOOLEAN
ASSUME TimerAssumption == /\ T1 \in Nat \ {0} /\ T2 \in Nat /\ T4 \in Nat
                          /\ T1 <= T2
ASSUME BoundAssumption == /\ Cap \in Nat \ {0}
                          /\ MaxProv \in Nat
                          /\ MaxMsgs \in Nat

VARIABLES
    invite,      \* is_invite_tsx()
    reliable,    \* is_reliable()
    state,       \* StateMachine::state
    entry,       \* the map's entry of this key: "ours", or "other"/"removed"
                 \* by another transaction, or "none" since our drop
    pending,     \* delivery tasks between get_entry and the end of send
    chan,        \* the messages in the channel
    rx,          \* who holds the Receiver
    tu,          \* where the TU is in the transaction's methods
    nprov,       \* provisional responses the TU has sent so far
    final,       \* class of the final response, "none" before it
    prov,        \* where the provisional task is
    provResp,    \* the response the provisional task holds
    tuQ,         \* unbounded channel from the TU to the provisional task
    notified,    \* is a change (or the close) of the state pending on state_rx?
    task,        \* where the final task is
    deadline,    \* ticks to the deadline of the final task
    retrans,     \* ticks to its next retransmission
    interval,    \* retrans_interval
    lastSent,    \* the last response put on the wire
    budget       \* messages the network may still deliver

cfgVars  == <<invite, reliable>>
netVars  == <<pending, chan, budget>>
tuVars   == <<tu, nprov, final>>
provVars == <<prov, provResp, tuQ>>
taskVars == <<task, deadline, retrans, interval>>

vars == <<invite, reliable, state, entry, pending, chan, rx, tu, nprov, final,
          prov, provResp, tuQ, notified, task, deadline, retrans, interval,
          lastSent, budget>>

Final == MaxProv + 1
Responses == 1 .. Final
Msgs == {"REQ", "ACK"}
States == {"Trying", "Proceeding", "Completed", "Confirmed", "Terminated"}
FinalClasses == {"2xx", "3-6xx"}

T64 == 64 * T1

Smaller(a, b) == IF a <= b THEN a ELSE b
Dec(n) == IF n > 0 THEN n - 1 ELSE 0

TypeOK ==
    /\ invite \in BOOLEAN /\ reliable \in BOOLEAN
    /\ state \in States
    /\ entry \in {"ours", "other", "removed", "none"}
    /\ pending \in [Msgs -> Nat]
    /\ chan \in Seq(Msgs) /\ Len(chan) <= Cap
    /\ rx \in {"tsx", "prov", "handle", "task", "dropped"}
    /\ tu \in {"idle", "prov", "final", "join", "gone"}
    /\ nprov \in 0 .. MaxProv
    /\ final \in FinalClasses \cup {"none"}
    /\ prov \in {"off", "state", "tu", "msg", "send", "done"}
    /\ provResp \in 0 .. MaxProv
    /\ tuQ \in Seq(1 .. MaxProv)
    /\ notified \in BOOLEAN
    /\ task \in {"off", "wait", "resend", "confirmed", "done"}
    /\ deadline \in Nat /\ retrans \in Nat /\ interval \in Nat
    /\ lastSent \in 0 .. Final
    /\ budget \in 0 .. MaxMsgs

(***************************************************************************)
(* ServerTransaction::from_request: the channel exists and its sender is   *)
(* in TsxPlugin's map.                                                     *)
(***************************************************************************)
Init ==
    /\ invite \in Invites /\ reliable \in Reliables
    /\ state = IF invite THEN "Proceeding" ELSE "Trying"
    /\ entry = "ours"
    /\ pending = [m \in Msgs |-> 0] /\ chan = <<>> /\ budget = MaxMsgs
    /\ rx = "tsx"
    /\ tu = "idle" /\ nprov = 0 /\ final = "none"
    /\ prov = "off" /\ provResp = 0 /\ tuQ = <<>> /\ notified = FALSE
    /\ task = "off" /\ deadline = 0 /\ retrans = 0 /\ interval = 0
    /\ lastSent = 0

-----------------------------------------------------------------------------
(* Delivery tasks: TsxPlugin::on_incoming_request.                         *)

(* The peer sends ACK under this key only for a non-2xx answer to INVITE.  *)
CanArrive(m) == m = "ACK" => invite /\ final = "3-6xx"

(* get_entry finds the entry of this key and clones its sender.            *)
Lookup(m) ==
    /\ budget > 0 /\ entry = "ours" /\ CanArrive(m)
    /\ pending' = [pending EXCEPT ![m] = @ + 1]
    /\ budget' = budget - 1
    /\ UNCHANGED <<cfgVars, state, entry, chan, rx, tuVars, provVars, notified,
                   taskVars, lastSent>>

Enqueue_IgnoresCap(m) ==
    /\ pending[m] > 0 /\ rx # "dropped"
    /\ chan' = Append(chan, m)
    /\ pending' = [pending EXCEPT ![m] = @ - 1]
    /\ UNCHANGED <<cfgVars, state, entry, budget, rx, tuVars, provVars, notified,
                   taskVars, lastSent>>

(* channel.send(..).await waits for a free slot of the bounded channel.    *)
Enqueue(m) ==
    /\ pending[m] > 0 /\ rx # "dropped" /\ Len(chan) < Cap
    /\ chan' = Append(chan, m)
    /\ pending' = [pending EXCEPT ![m] = @ - 1]
    /\ UNCHANGED <<cfgVars, state, entry, budget, rx, tuVars, provVars, notified,
                   taskVars, lastSent>>

(* The receiver is gone, send fails and unwrap() panics the delivery task. *)
DeliveryPanics(m) ==
    /\ pending[m] > 0 /\ rx = "dropped"
    /\ pending' = [pending EXCEPT ![m] = @ - 1]
    /\ UNCHANGED <<cfgVars, state, entry, chan, budget, rx, tuVars, provVars,
                   notified, taskVars, lastSent>>

(* No sender is left: neither the map nor a delivery task holds one.       *)
Closed == entry # "ours" /\ \A m \in Msgs : pending[m] = 0

(* Another ServerTransaction for the same request (its retransmission got  *)
(* past TsxPlugin before this one was registered) takes over the entry, or *)
(* was registered first and removes it when dropped.                       *)
Supersede ==
    /\ entry \in {"ours", "other"}
    /\ entry' \in {"other", "removed"} \ {entry}
    /\ UNCHANGED <<cfgVars, state, netVars, rx, tuVars, provVars, notified,
                   taskVars, lastSent>>

-----------------------------------------------------------------------------
(* The TU.                                                                 *)

(* Drop::drop removes whatever entry the map has under the key.            *)
Unregister == entry' = "none"

(* The parts of the object a drop releases while no final task owns it:    *)
(* the sender of the state notifier, and the Receiver unless the           *)
(* provisional task still runs with it.                                    *)
ReleaseParts ==
    /\ Unregister
    /\ notified' = TRUE
    /\ rx' = IF rx = "prov" THEN "prov" ELSE "dropped"

(* send_provisional_response, up to the end of send_response.  A failed    *)
(* send returns the error and changes nothing.                             *)
SendProvisional ==
    /\ tu = "idle" /\ nprov < MaxProv
    /\ nprov' = nprov + 1
    /\ lastSent' = nprov + 1
    /\ tu' = "prov"
    /\ UNCHANGED <<cfgVars, state, entry, netVars, rx, final, provVars, notified,
                   taskVars>>

SpawnProvisional_SubscribeFirst ==
    /\ prov = "off"
    /\ state' = "Proceeding"
    /\ rx' = "prov" /\ prov' = "state" /\ provResp' = nprov
    /\ notified' = TRUE
    /\ UNCHANGED tuQ

(* spawn_retransmit_provisional_task: the state is set before the task     *)
(* subscribes to it, so the task does not see its own start.               *)
SpawnProvisional ==
    /\ prov = "off"
    /\ state' = "Proceeding"
    /\ rx' = "prov" /\ prov' = "state" /\ provResp' = nprov
    /\ UNCHANGED <<notified, tuQ>>

(* The task exists: the response goes to it over the unbounded channel.    *)
PassProvisional ==
    /\ prov # "off"
    /\ tuQ' = Append(tuQ, nprov)
    /\ UNCHANGED <<state, rx, prov, provResp, notified>>

HandProvisional ==
    /\ tu = "prov" /\ tu' = "idle"
    /\ SpawnProvisional \/ PassProvisional
    /\ UNCHANGED <<cfgVars, entry, netVars, nprov, final, taskVars, lastSent>>

(* send_final_response, up to the end of send_response.                    *)
SendFinal(class) ==
    /\ tu = "idle" /\ tu' = "final"
    /\ final' = class
    /\ lastSent' = Final
    /\ UNCHANGED <<cfgVars, state, entry, netVars, rx, nprov, provVars, notified,
                   taskVars>>

(* INVITE answered 2xx, or a reliable transport: Terminated, and the       *)
(* object is dropped as send_final_response returns.                       *)
TerminateAtOnce ==
    /\ tu = "final" /\ tu' = "gone"
    /\ reliable \/ (invite /\ final = "2xx")
    /\ state' = "Terminated"
    /\ ReleaseParts
    /\ UNCHANGED <<cfgVars, netVars, nprov, final, provVars, taskVars, lastSent>>

(* Timer H of an INVITE transaction is T4 here, timer J is 64*T1.          *)
TimerHJ == IF invite THEN T4 ELSE T64

Complete_Unregisters ==
    /\ tu = "final" /\ tu' = "join"
    /\ ~reliable /\ ~(invite /\ final = "2xx")
    /\ state' = "Completed" /\ notified' = TRUE /\ Unregister
    /\ deadline' = TimerHJ
    /\ UNCHANGED <<cfgVars, netVars, rx, nprov, final, provVars, task,
                   retrans, interval, lastSent>>

Complete ==
    /\ tu = "final" /\ tu' = "join"
    /\ ~reliable /\ ~(invite /\ final = "2xx")
    /\ state' = "Completed"
    /\ notified' = TRUE
    /\ deadline' = TimerHJ
    /\ UNCHANGED <<cfgVars, entry, netVars, rx, nprov, final, provVars, task,
                   retrans, interval, lastSent>>

ReceiverReady_NoJoin == prov = "off" \/ notified

(* Without a provisional task the transaction has the Receiver itself;     *)
(* otherwise the JoinHandle yields it when that task has returned.         *)
ReceiverReady == prov = "off" \/ prov = "done"

(* The Receiver, and the transaction with it, move into the final task.    *)
HandOver ==
    /\ tu = "join" /\ tu' = "gone"
    /\ ReceiverReady
    /\ rx' = "task" /\ task' = "wait"
    /\ interval' = IF invite THEN T1 ELSE 0
    /\ retrans' = interval'
    /\ UNCHANGED <<cfgVars, state, entry, netVars, nprov, final, provVars,
                   notified, deadline, lastSent>>

(* The TU drops the transaction, a final response is refused (wrong class  *)
(* or failed send), or the future of send_final_response is dropped.       *)
TuDrop ==
    /\ tu \in {"idle", "join"} /\ tu' = "gone"
    /\ ReleaseParts
    /\ UNCHANGED <<cfgVars, state, netVars, nprov, final, provVars, taskVars,
                   lastSent>>

-----------------------------------------------------------------------------
(* The provisional task: a biased select! polls its three branches in      *)
(* order, and other threads run between the polls.                         *)

ProvPollState ==
    /\ prov = "state"
    /\ \/ /\ notified
          /\ prov' = "done"
          /\ rx' = IF tu = "gone" THEN "dropped" ELSE "handle"
       \/ /\ ~notified /\ (tuQ # <<>> \/ chan # <<>>)
          /\ prov' = "tu" /\ rx' = rx
    /\ UNCHANGED <<cfgVars, state, entry, netVars, tuVars, provResp, tuQ,
                   notified, taskVars, lastSent>>

ProvPollTu_KeepsFirst ==
    /\ prov = "tu"
    /\ \/ /\ tuQ # <<>>
          /\ tuQ' = Tail(tuQ) /\ prov' = "state"
       \/ /\ tuQ = <<>>
          /\ prov' = "msg" /\ UNCHANGED tuQ
    /\ UNCHANGED <<cfgVars, state, entry, netVars, rx, tuVars, provResp, notified,
                   taskVars, lastSent>>

ProvPollTu ==
    /\ prov = "tu"
    /\ \/ /\ tuQ # <<>>
          /\ provResp' = Head(tuQ) /\ tuQ' = Tail(tuQ) /\ prov' = "state"
       \/ /\ tuQ = <<>>
          /\ prov' = "msg" /\ UNCHANGED <<provResp, tuQ>>
    /\ UNCHANGED <<cfgVars, state, entry, netVars, rx, tuVars, notified, taskVars,
                   lastSent>>

ProvPollMsg ==
    /\ prov = "msg"
    /\ \/ /\ chan # <<>>
          /\ chan' = Tail(chan) /\ prov' = "send"
       \/ /\ chan = <<>>
          /\ prov' = "state" /\ UNCHANGED chan
    /\ UNCHANGED <<cfgVars, state, entry, pending, budget, rx, tuVars, provResp,
                   tuQ, notified, taskVars, lastSent>>

(* A failed send is logged and leaves the wire as it is.                   *)
ProvSend ==
    /\ prov = "send" /\ prov' = "state"
    /\ lastSent' \in {lastSent, provResp}
    /\ UNCHANGED <<cfgVars, state, entry, netVars, rx, tuVars, provResp, tuQ,
                   notified, taskVars>>

-----------------------------------------------------------------------------
(* The final task.                                                         *)

EndTask_KeepsReceiver ==
    /\ task' = "done"
    /\ Unregister
    /\ deadline' = 0 /\ retrans' = 0
    /\ UNCHANGED <<cfgVars, netVars, rx, tuVars, provVars, notified, interval,
                   lastSent>>

(* The task ends: the transaction and the Receiver are dropped.            *)
EndTask ==
    /\ task' = "done" /\ rx' = "dropped"
    /\ Unregister
    /\ deadline' = 0 /\ retrans' = 0
    /\ UNCHANGED <<cfgVars, netVars, tuVars, provVars, notified, interval,
                   lastSent>>

(* INVITE: the ACK confirms the transaction, which then sleeps for T4.     *)
FinAck ==
    /\ task = "wait" /\ invite /\ chan # <<>> /\ Head(chan) = "ACK"
    /\ chan' = Tail(chan)
    /\ state' = "Confirmed" /\ task' = "confirmed"
    /\ deadline' = T4 /\ retrans' = 0
    /\ UNCHANGED <<cfgVars, entry, pending, budget, rx, tuVars, provVars,
                   notified, interval, lastSent>>

(* Anything else is taken as a retransmission of the request.              *)
FinRequest ==
    /\ task = "wait" /\ chan # <<>> /\ (invite => Head(chan) # "ACK")
    /\ chan' = Tail(chan)
    /\ task' = "resend"
    /\ UNCHANGED <<cfgVars, state, entry, pending, budget, rx, tuVars, provVars,
                   notified, deadline, retrans, interval, lastSent>>

(* The wait is over for lack of messages: recv() has nothing to return.    *)
NothingToReceive == chan = <<>> /\ ~Closed

FinTimerG ==
    /\ task = "wait" /\ invite /\ NothingToReceive /\ retrans = 0
    /\ task' = "resend"
    /\ interval' = Smaller(2 * interval, T2)
    /\ UNCHANGED <<cfgVars, state, entry, netVars, rx, tuVars, provVars, notified,
                   deadline, retrans, lastSent>>

FinResend_RestartsDeadline ==
    /\ task = "resend" /\ task' = "wait"
    /\ lastSent' \in {lastSent, Final}
    /\ retrans' = interval /\ deadline' = TimerHJ
    /\ UNCHANGED <<cfgVars, state, entry, netVars, rx, tuVars, provVars, notified,
                   interval>>

FinResend ==
    /\ task = "resend" /\ task' = "wait"
    /\ lastSent' \in {lastSent, Final}
    /\ retrans' = interval
    /\ UNCHANGED <<cfgVars, state, entry, netVars, rx, tuVars, provVars, notified,
                   deadline, interval>>

(* Timer H or timer J.  The retransmission timer is the inner one of the   *)
(* two timeouts of an INVITE transaction and is looked at first.           *)
FinTimeout ==
    /\ task = "wait" /\ NothingToReceive /\ deadline = 0
    /\ invite => retrans > 0
    /\ state' = "Terminated"
    /\ EndTask

(* recv() returns None: an INVITE transaction leaves its loop as it is, a  *)
(* non-INVITE one goes on to Terminated.                                   *)
FinClosed ==
    /\ task = "wait" /\ chan = <<>> /\ Closed
    /\ state' = IF invite THEN state ELSE "Terminated"
    /\ EndTask

FinConfirmedOver ==
    /\ task = "confirmed" /\ deadline = 0
    /\ state' = "Terminated"
    /\ EndTask

-----------------------------------------------------------------------------
(* Time passes for the timers that run.  The final task may be late when a *)
(* timer expires, but by less than a tick (T1 is 500 ms).                  *)
TimerExpired == task = "wait" /\ (deadline = 0 \/ (invite /\ retrans = 0))

Tick ==
    /\ deadline > 0 /\ ~TimerExpired
    /\ deadline' = Dec(deadline)
    /\ retrans' = IF task = "wait" THEN Dec(retrans) ELSE retrans
    /\ UNCHANGED <<cfgVars, state, entry, netVars, rx, tuVars, provVars, notified,
                   task, interval, lastSent>>

(* Nothing is left to run once the transaction is gone.                    *)
Finished ==
    /\ tu = "gone" /\ rx = "dropped" /\ \A m \in Msgs : pending[m] = 0
    /\ UNCHANGED vars

Deliver == \E m \in Msgs : Lookup(m) \/ Enqueue(m) \/ DeliveryPanics(m)

TuNext == \/ SendProvisional \/ HandProvisional
          \/ \E class \in FinalClasses : SendFinal(class)
          \/ TerminateAtOnce \/ Complete \/ HandOver \/ TuDrop

ProvNext == ProvPollState \/ ProvPollTu \/ ProvPollMsg \/ ProvSend

FinNext == \/ FinAck \/ FinRequest \/ FinTimerG \/ FinResend
           \/ FinTimeout \/ FinClosed \/ FinConfirmedOver

Next == Deliver \/ Supersede \/ TuNext \/ ProvNext \/ FinNext \/ Tick \/ Finished

Spec == Init /\ [][Next]_vars

(***************************************************************************)
(* The runtime keeps running what is ready: the spawned tasks, a delivery  *)
(* task that waits for a slot, a method of the TU that has begun, the      *)
(* clock.  When the TU calls a method is up to the application.            *)
(***************************************************************************)
Fairness ==
    /\ WF_vars(ProvNext) /\ WF_vars(FinNext) /\ WF_vars(Tick)
    /\ WF_vars(HandProvisional)
    /\ WF_vars(TerminateAtOnce \/ Complete \/ HandOver)
    /\ \A m \in Msgs : WF_vars(Enqueue(m) \/ DeliveryPanics(m))

FairSpec == Spec /\ Fairness

-----------------------------------------------------------------------------
(* Properties.                                                             *)

ProvRunning == prov \in {"state", "tu", "msg", "send"}
TaskRunning == task \in {"wait", "resend", "confirmed"}

(* The Receiver has one owner at a time and is never lost on its way from  *)
(* the transaction over the provisional task and its JoinHandle to the     *)
(* final task: the two expect(CHANNEL_RECV_BUG) of server.rs:187 and 314   *)
(* cannot fail, and no message is read by two tasks.                       *)
ReceiverOwned ==
    /\ rx = "prov" <=> ProvRunning
    /\ rx = "task" <=> TaskRunning
    /\ rx = "handle" => prov = "done" /\ tu # "gone"
    /\ tu # "gone" => /\ rx # "dropped"
                      /\ prov = "off" => rx = "tsx"

(* While the TU can still send provisional responses the provisional task  *)
(* does not return, so handing it a response never fails with              *)
(* ChannelClosed (server.rs:123).                                          *)
ProvisionalTaskServes == tu \in {"idle", "prov"} => prov # "done"

(* The provisional task takes over every provisional response of the TU,   *)
(* in the order they were sent, and holds no response that was not sent:   *)
(* what it holds and what is queued for it are consecutive up to the last  *)
(* response the TU handed over.                                            *)
ProvisionalsInOrder ==
    prov # "off" =>
        /\ \A i \in 1 .. Len(tuQ) : tuQ[i] = provResp + i
        /\ provResp + Len(tuQ) = IF tu = "prov" THEN nprov - 1 ELSE nprov

(* Once the final task runs, nothing but the final response goes out: the  *)
(* provisional task has really stopped, a send it had begun included.      *)
FinalTaskOnlyFinal == [][task # "off" => lastSent' \in {lastSent, Final}]_vars

(* A final task ends with the transaction Terminated.  It leaves its loop  *)
(* otherwise only if the channel closed under it because a second          *)
(* transaction had the same key (server.rs:219).                           *)
EndsTerminated ==
    [][task # "done" /\ task' = "done"
        => state' = "Terminated" \/ entry \in {"other", "removed"}]_vars

(* A transaction that has sent a final response does not linger: its       *)
(* deadline comes whatever is retransmitted meanwhile, the object is       *)
(* dropped and its entry is gone from TsxPlugin.                           *)
Finishes == final # "none" ~> rx = "dropped" /\ entry # "ours"

(* A delivery task that waits for a slot of the channel of a transaction   *)
(* the TU has let go of does not wait forever (server.rs:201 stops reading *)
(* for T4 while the entry is still in the map).                            *)
DeliveriesResolve ==
    \A m \in Msgs : (tu = "gone" /\ pending[m] > 0) ~> pending[m] = 0

(* TsxPlugin unwraps the result of send (mod.rs:85): the receiver of an    *)
(* entry that was in the map is expected to be alive when send runs.       *)
ReceiverOutlivesLookup ==
    \A m \in Msgs : pending[m] > 0 => rx # "dropped"
=============================================================================
