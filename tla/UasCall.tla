------------------------------- MODULE UasCall -------------------------------
(***************************************************************************)
(* The callee's side of calls in rssip: how Endpoint::on_request hands a   *)
(* request to the plugins (core/endpoint/mod.rs), the dialogs of           *)
(* ua/dialog.rs, the incoming sessions of ua/session.rs, and the entry of  *)
(* the INVITE in TsxPlugin (transaction/mod.rs), which all the calls       *)
(* share that retransmissions of one INVITE have started.                  *)
(*                                                                         *)
(* The plugins are loaded in the order of examples/accept.rs: DialogPlugin *)
(* first, then TsxPlugin, then the application.  Each received message has *)
(* a task of its own, so messages overtake each other whatever the         *)
(* transport; the network may also repeat and drop them.                   *)
(*                                                                         *)
(* What happens inside the INVITE server transaction is ServerTsx's        *)
(* subject; here it is in TsxPlugin, and waits for an ACK, or is gone.     *)
(***************************************************************************)
EXTENDS Integers, Sequences

CONSTANTS
    MaxCalls,     \* bound: calls that copies of the INVITE can start
    MaxMsgs       \* bound: messages the network delivers

ASSUME BoundAssumption == MaxCalls \in Nat /\ MaxMsgs \in Nat

Calls == 1 .. MaxCalls

(* Requests with a To tag that the caller sends in a call, and their CSeq  *)
(* numbers; the INVITE, and so its ACK, has 1.                             *)
Mids == {"ACK", "REINVITE", "BYE"}
CSeq == [m \in Mids |-> CASE m = "ACK"      -> 1
                          [] m = "REINVITE" -> 2
                          [] m = "BYE"      -> 3]

VARIABLES
    phase,     \* where the TU of each call is
    dialogs,   \* the calls whose dialog is in DialogPlugin's map
    dstate,    \* Dialog::state
    rcseq,     \* Dialog::remote_cseq
    queue,     \* Dialog::receiver
    nego,      \* Negotiator::state
    tsx,       \* the INVITE server transaction of each call
    tsxEntry,  \* whose sender TsxPlugin has under the INVITE's key, 0: none
    final,     \* history: class of the final response to the INVITE
    ackTaken,  \* history: the calls whose ACK DialogPlugin took
    byeTsx,    \* the BYE server transaction of each call
    passed,    \* copies of the INVITE no plugin took before the application
    found,     \* delivery tasks between get_dialog and send
    answered,  \* history: status codes sent for each request
    accepted,  \* history: how often a dialog accepted each request
    budget     \* messages the network may still deliver that count

vars == <<phase, dialogs, dstate, rcseq, queue, nego, tsx, tsxEntry, ackTaken,
          final, byeTsx, passed, found, answered, accepted, budget>>

dialogVars == <<dstate, rcseq, nego>>
tsxVars    == <<tsx, tsxEntry>>
histVars   == <<answered, accepted, final>>
netVars    == <<passed, found, budget, ackTaken>>

Phases == {"none", "incoming", "answered", "rejected", "waiting", "setup",
           "established", "deaf", "terminated", "over"}
Held == Phases \ {"none", "over"}

TypeOK ==
    /\ phase \in [Calls -> Phases]
    /\ dialogs \subseteq Calls
    /\ dstate \in [Calls -> {"Init", "Early", "Confirmed", "Terminated"}]
    /\ rcseq \in [Calls -> 1 .. 3]
    /\ queue \in [Calls -> Seq(Mids)]
    /\ nego \in [Calls -> {"Initial", "LocalOffer", "RemoteOffer", "Done"}]
    /\ tsx \in [Calls -> {"none", "proceeding", "completed", "gone"}]
    /\ tsxEntry \in 0 .. MaxCalls
    /\ final \in [Calls -> {"none", "2xx", "refused"}]
    /\ ackTaken \subseteq Calls
    /\ byeTsx \in [Calls -> {"none", "completed", "gone"}]
    /\ passed \in Nat
    /\ found \in [Calls -> [Mids -> Nat]]
    /\ answered \in [Calls -> [Mids -> SUBSET {"200", "481", "500"}]]
    /\ accepted \in [Calls -> [Mids -> Nat]]
    /\ budget \in 0 .. MaxMsgs

Init ==
    /\ phase = [c \in Calls |-> "none"] /\ dialogs = {}
    /\ dstate = [c \in Calls |-> "Init"] /\ rcseq = [c \in Calls |-> 1]
    /\ queue = [c \in Calls |-> <<>>] /\ nego = [c \in Calls |-> "Initial"]
    /\ tsx = [c \in Calls |-> "none"] /\ tsxEntry = 0
    /\ final = [c \in Calls |-> "none"] /\ ackTaken = {}
    /\ byeTsx = [c \in Calls |-> "none"]
    /\ passed = 0 /\ found = [c \in Calls |-> [m \in Mids |-> 0]]
    /\ answered = [c \in Calls |-> [m \in Mids |-> {}]]
    /\ accepted = [c \in Calls |-> [m \in Mids |-> 0]]
    /\ budget = MaxMsgs

-----------------------------------------------------------------------------
(* Delivery tasks: Endpoint::on_request.                                   *)

(* The INVITE has no To tag and passes DialogPlugin.  TsxPlugin takes the  *)
(* copies of it that find an entry; the others go to the application.      *)
ArriveInvite ==
    /\ budget > 0 /\ budget' = budget - 1
    /\ passed' = IF tsxEntry = 0 THEN passed + 1 ELSE passed
    /\ UNCHANGED <<phase, dialogs, dialogVars, queue, tsxVars, ackTaken, byeTsx,
                   found, histVars>>

Stale_OffByOne(c, m) == m # "ACK" /\ CSeq[m] <= rcseq[c] + 1
Stale_Strict(c, m) == m # "ACK" /\ CSeq[m] < rcseq[c]

(* A request other than ACK that is not newer than the last one.           *)
Stale(c, m) == m # "ACK" /\ CSeq[m] <= rcseq[c]

(* What the network delivers counts, except a request that was refused     *)
(* before and will be again, when nothing else is on its way: a peer can   *)
(* go on sending that for ever.                                            *)
OnItsWay(c) == queue[c] # <<>> \/ \E m \in Mids : found[c][m] > 0
Repeated(c, m) == Stale(c, m) /\ "500" \in answered[c][m] /\ ~OnItsWay(c)
Deliverable(c, m) ==
    IF Repeated(c, m) THEN UNCHANGED budget ELSE budget > 0 /\ budget' = budget - 1

(* The caller learns the To tag from a response.  It acknowledges a final  *)
(* one, and may hang up before that.                                       *)
CanArrive(c, m) ==
    /\ m = "ACK" => final[c] # "none"
    /\ m = "REINVITE" => final[c] = "2xx"
    /\ m = "BYE" => final[c] = "2xx" \/ (final[c] = "none" /\ dstate[c] = "Early")

(* DialogPlugin takes every request with a To tag, ACKs included, so that  *)
(* the plugins behind it do not see them.  Without a dialog it answers 481 *)
(* (a failed send is logged); with one, it has a clone of the sender now.  *)
ArriveMid(c, m) ==
    /\ Deliverable(c, m)
    /\ CanArrive(c, m)
    /\ ackTaken' = IF m = "ACK" THEN ackTaken \cup {c} ELSE ackTaken
    /\ IF c \in dialogs
       THEN /\ found' = [found EXCEPT ![c][m] = @ + 1]
            /\ UNCHANGED answered
       ELSE /\ \/ m # "ACK" /\ answered' = [answered EXCEPT ![c][m] = @ \cup {"481"}]
               \/ UNCHANGED answered
            /\ UNCHANGED found
    /\ UNCHANGED <<phase, dialogs, dialogVars, queue, tsxVars, byeTsx, passed,
                   accepted, final>>

(* send on the dialog's unbounded channel fails, and is logged, when the   *)
(* dialog has been dropped meanwhile.                                      *)
SendToDialog(c, m) ==
    /\ found[c][m] > 0
    /\ found' = [found EXCEPT ![c][m] = @ - 1]
    /\ queue' = IF phase[c] \in Held THEN [queue EXCEPT ![c] = Append(@, m)]
                                     ELSE queue
    /\ UNCHANGED <<phase, dialogs, dialogVars, tsxVars, ackTaken, byeTsx, passed,
                   histVars, budget>>

-----------------------------------------------------------------------------
(* The application takes a copy of the INVITE.                             *)

Fresh(c) == phase[c] = "none" /\ \A d \in Calls : d < c => phase[d] # "none"

FromInvite_NoDialog(c) ==
    /\ passed > 0 /\ passed' = passed - 1
    /\ Fresh(c)
    /\ phase' = [phase EXCEPT ![c] = "incoming"]
    /\ \E offer \in {"Initial", "RemoteOffer"} : nego' = [nego EXCEPT ![c] = offer]
    /\ tsx' = [tsx EXCEPT ![c] = "proceeding"] /\ tsxEntry' = c
    /\ UNCHANGED <<dialogs, dstate, rcseq, queue, ackTaken, byeTsx, found,
                   histVars, budget>>

(* Session::from_invite: Dialog::create_uas registers the dialog, the      *)
(* offer, if there is one, is parsed, ServerTransaction::from_request      *)
(* registers the transaction over whatever the key holds.                  *)
FromInvite(c) ==
    /\ passed > 0 /\ passed' = passed - 1
    /\ Fresh(c)
    /\ phase' = [phase EXCEPT ![c] = "incoming"]
    /\ dialogs' = dialogs \cup {c}
    /\ \E offer \in {"Initial", "RemoteOffer"} : nego' = [nego EXCEPT ![c] = offer]
    /\ tsx' = [tsx EXCEPT ![c] = "proceeding"] /\ tsxEntry' = c
    /\ UNCHANGED <<dstate, rcseq, queue, ackTaken, byeTsx, found, histVars, budget>>

(* The offer does not parse: the dialog is dropped, and with it its entry, *)
(* before there is a transaction.                                          *)
FromInviteFails(c) ==
    /\ passed > 0 /\ passed' = passed - 1
    /\ Fresh(c)
    /\ phase' = [phase EXCEPT ![c] = "over"]
    /\ UNCHANGED <<dialogs, dialogVars, queue, tsxVars, ackTaken, byeTsx, found,
                   histVars, budget>>

(* Dialog::provisional_response, of any code but 100.                      *)
Progress(c) ==
    /\ phase[c] = "incoming"
    /\ dstate' = [dstate EXCEPT ![c] = "Early"]
    /\ UNCHANGED <<phase, dialogs, rcseq, queue, nego, tsxVars, byeTsx, histVars,
                   netVars>>

-----------------------------------------------------------------------------
(* Drops.                                                                  *)

DropTsx_KeepsEntry(c) ==
    /\ tsx' = [tsx EXCEPT ![c] = "gone"]
    /\ UNCHANGED tsxEntry

(* Drop of a ServerTransaction removes the entry of its key, whoever's     *)
(* sender is in it.                                                        *)
DropTsx(c) ==
    /\ tsx' = [tsx EXCEPT ![c] = "gone"]
    /\ tsxEntry' = 0

DropHeldTsx(c) ==
    IF tsx[c] = "proceeding" THEN DropTsx(c) ELSE UNCHANGED tsxVars

DropDialog_KeepsEntry(c) ==
    /\ phase' = [phase EXCEPT ![c] = "over"]
    /\ queue' = [queue EXCEPT ![c] = <<>>]
    /\ UNCHANGED dialogs

(* Drop of the Dialog, with what its channel holds.                        *)
DropDialog(c) ==
    /\ phase' = [phase EXCEPT ![c] = "over"]
    /\ dialogs' = dialogs \ {c}
    /\ queue' = [queue EXCEPT ![c] = <<>>]

(* The application drops the session or the future that owns it, or a step *)
(* of accept before the response is sent fails.                            *)
AppDrop(c) ==
    /\ phase[c] \in Held
    /\ DropDialog(c) /\ DropHeldTsx(c)
    /\ UNCHANGED <<dialogVars, byeTsx, histVars, netVars>>

-----------------------------------------------------------------------------
(* Session::accept and Dialog::final_response.                             *)

(* The answer to the caller's offer, or an offer, goes out with the 2xx.   *)
Answer(c) ==
    /\ phase[c] = "incoming"
    /\ phase' = [phase EXCEPT ![c] = "answered"]
    /\ nego' = [nego EXCEPT ![c] = IF @ = "RemoteOffer" THEN "Done" ELSE "LocalOffer"]
    /\ final' = [final EXCEPT ![c] = "2xx"]
    /\ UNCHANGED <<dialogs, dstate, rcseq, queue, tsxVars, byeTsx, answered,
                   accepted, netVars>>

(* The 2xx terminates the transaction, and it is dropped; accept goes on   *)
(* to wait_for_ack.                                                        *)
BeginWaitForAck(c) ==
    /\ phase[c] = "answered"
    /\ phase' = [phase EXCEPT ![c] = "waiting"]
    /\ DropTsx(c)
    /\ UNCHANGED <<dialogs, dialogVars, queue, byeTsx, histVars, netVars>>

(* An application that has a Dialog without a Session refuses the call:    *)
(* over UDP the transaction waits for the ACK in a task of its own.        *)
Reject(c) ==
    /\ phase[c] = "incoming"
    /\ phase' = [phase EXCEPT ![c] = "rejected"]
    /\ tsx' = [tsx EXCEPT ![c] = "completed"]
    /\ final' = [final EXCEPT ![c] = "refused"]
    /\ UNCHANGED <<dialogs, dialogVars, queue, tsxEntry, byeTsx, answered,
                   accepted, netVars>>

(* Timer H: the transaction gives up.                                      *)
RejectedTsxEnds(c) ==
    /\ tsx[c] = "completed"
    /\ DropTsx(c)
    /\ UNCHANGED <<phase, dialogs, dialogVars, queue, byeTsx, histVars, netVars>>

-----------------------------------------------------------------------------
(* Dialog::receive and process_incoming_request.                           *)

Take(c, m) ==
    /\ queue[c] # <<>> /\ m = Head(queue[c])
    /\ queue' = [queue EXCEPT ![c] = Tail(@)]

Refusal(c, m) == IF Stale(c, m) THEN {"500"} ELSE {}

AnswerWith(c, m, codes) ==
    /\ answered' = [answered EXCEPT ![c][m] = @ \cup Refusal(c, m) \cup codes]
    /\ UNCHANGED final

Advance_Counts(c, m) ==
    IF Stale(c, m)
    THEN UNCHANGED <<rcseq, accepted>>
    ELSE /\ rcseq' = [rcseq EXCEPT ![c] = @ + 1]
         /\ accepted' = [accepted EXCEPT ![c][m] = @ + 1]

(* All requests but the stale ones set remote_cseq, an ACK too.            *)
Advance(c, m) ==
    IF Stale(c, m)
    THEN UNCHANGED <<rcseq, accepted>>
    ELSE /\ rcseq' = [rcseq EXCEPT ![c] = CSeq[m]]
         /\ accepted' = [accepted EXCEPT ![c][m] = @ + 1]

(* A stale request is answered 500, and still passed on like any other.    *)
Process(c, m) == Advance(c, m) /\ AnswerWith(c, m, {})

(* wait_for_ack ignores what is not an ACK and starts its timer afresh.    *)
WaitIgnores(c) ==
    /\ phase[c] = "waiting"
    /\ \E m \in Mids \ {"ACK"} : Take(c, m) /\ Process(c, m)
    /\ UNCHANGED <<phase, dialogs, dstate, nego, tsxVars, byeTsx, netVars>>

WaitAck_NoAnswer(c) ==
    /\ phase[c] = "waiting"
    /\ Take(c, "ACK") /\ Process(c, "ACK")
    /\ dstate' = [dstate EXCEPT ![c] = "Confirmed"]
    /\ phase' = [phase EXCEPT ![c] = "setup"]
    /\ UNCHANGED <<dialogs, nego, tsxVars, byeTsx, netVars>>

(* The ACK.  If our 2xx had the offer, the ACK must have the answer.       *)
WaitAck(c) ==
    /\ phase[c] = "waiting"
    /\ Take(c, "ACK") /\ Process(c, "ACK")
    /\ dstate' = [dstate EXCEPT ![c] = "Confirmed"]
    /\ phase' = [phase EXCEPT ![c] = "setup"]
    /\ nego' = [nego EXCEPT ![c] = IF @ = "LocalOffer" THEN "Done" ELSE @]
    /\ UNCHANGED <<dialogs, tsxVars, byeTsx, netVars>>

WaitFails_NoTimer(c) ==
    /\ phase[c] = "waiting"
    /\ \/ queue[c] # <<>> /\ Stale(c, Head(queue[c]))
       \/ queue[c] # <<>> /\ Head(queue[c]) = "ACK" /\ nego[c] = "LocalOffer"
    /\ DropDialog(c)
    /\ UNCHANGED <<dialogVars, tsxVars, byeTsx, histVars, netVars>>

(* wait_for_ack or what follows it fails: no message for 64*T1, a 500 that *)
(* could not be sent, no answer in the ACK where there must be one.        *)
WaitFails(c) ==
    /\ phase[c] = "waiting"
    /\ \/ queue[c] = <<>>
       \/ queue[c] # <<>> /\ Stale(c, Head(queue[c]))
       \/ queue[c] # <<>> /\ Head(queue[c]) = "ACK" /\ nego[c] = "LocalOffer"
    /\ DropDialog(c)
    /\ UNCHANGED <<dialogVars, tsxVars, byeTsx, histVars, netVars>>

(* SessionMedia::setup returns the media or an error.  It is todo!() so    *)
(* far and panics, which drops the session too.                            *)
Setup(c) ==
    /\ phase[c] = "setup"
    /\ phase' = [phase EXCEPT ![c] = "established"]
    /\ UNCHANGED <<dialogs, dialogVars, queue, tsxVars, byeTsx, histVars, netVars>>

SetupFails(c) ==
    /\ phase[c] = "setup"
    /\ DropDialog(c)
    /\ UNCHANGED <<dialogVars, tsxVars, byeTsx, histVars, netVars>>

-----------------------------------------------------------------------------
(* Session::<Established>::next_event.                                     *)

(* A re-INVITE goes to the application.  A BYE whose 200 cannot be sent is *)
(* an error of next_event, and leaves the session as it is.                *)
NextPassedOn(c) ==
    /\ phase[c] = "established"
    /\ \E m \in {"REINVITE", "BYE"} : Take(c, m) /\ Process(c, m)
    /\ UNCHANGED <<phase, dialogs, dstate, nego, tsxVars, byeTsx, netVars>>

(* BYE is answered 200, by a transaction that then waits for timer J.      *)
NextBye(c) ==
    /\ phase[c] = "established"
    /\ Take(c, "BYE") /\ Advance(c, "BYE") /\ AnswerWith(c, "BYE", {"200"})
    /\ byeTsx' = [byeTsx EXCEPT ![c] = "completed"]
    /\ dstate' = [dstate EXCEPT ![c] = "Terminated"]
    /\ phase' = [phase EXCEPT ![c] = "terminated"]
    /\ UNCHANGED <<dialogs, nego, tsxVars, netVars>>

ByeTsxEnds(c) ==
    /\ byeTsx[c] = "completed"
    /\ byeTsx' = [byeTsx EXCEPT ![c] = "gone"]
    /\ UNCHANGED <<phase, dialogs, dialogVars, queue, tsxVars, histVars, netVars>>

(* The 500 cannot be sent: its branch of the select! is disabled, and      *)
(* next_event waits for the media alone.                                   *)
NextDeaf(c) ==
    /\ phase[c] = "established"
    /\ \E m \in Mids : Take(c, m) /\ Stale(c, m)
    /\ phase' = [phase EXCEPT ![c] = "deaf"]
    /\ UNCHANGED <<dialogs, dialogVars, tsxVars, byeTsx, histVars, netVars>>

(* Every other method is unimplemented!(), a repeated ACK among them.      *)
NextPanics(c) ==
    /\ phase[c] = "established"
    /\ queue[c] # <<>> /\ Head(queue[c]) = "ACK"
    /\ DropDialog(c)
    /\ UNCHANGED <<dialogVars, tsxVars, byeTsx, histVars, netVars>>

-----------------------------------------------------------------------------
Deliver == ArriveInvite \/ \E c \in Calls, m \in Mids :
                               ArriveMid(c, m) \/ SendToDialog(c, m)

App(c) == \/ FromInvite(c) \/ FromInviteFails(c) \/ Progress(c) \/ Answer(c)
          \/ Reject(c) \/ AppDrop(c)

(* What the session's own futures and tasks do next, once awaited.         *)
Accepting(c) == BeginWaitForAck(c) \/ WaitIgnores(c) \/ WaitAck(c)
                \/ WaitFails(c) \/ Setup(c) \/ SetupFails(c)
NextEvent(c) == NextPassedOn(c) \/ NextBye(c) \/ NextDeaf(c) \/ NextPanics(c)
TsxEnds(c) == RejectedTsxEnds(c) \/ ByeTsxEnds(c)

Finished == budget = 0 /\ UNCHANGED vars

Next == \/ Deliver \/ Finished
        \/ \E c \in Calls : App(c) \/ Accepting(c) \/ NextEvent(c) \/ TsxEnds(c)

Spec == Init /\ [][Next]_vars

(* The runtime runs the delivery tasks and the future of accept; the timer *)
(* of wait_for_ack, among what WaitFails stands for, fires.                *)
Fairness ==
    /\ \A c \in Calls : WF_vars(Accepting(c)) /\ WF_vars(TsxEnds(c))
    /\ \A c \in Calls, m \in Mids : WF_vars(SendToDialog(c, m))

FairSpec == Spec /\ Fairness

-----------------------------------------------------------------------------
(* Properties.                                                             *)

(* DialogPlugin has an entry exactly for the dialogs that exist: each error *)
(* and panic on the way of a session unregisters its dialog, once.         *)
DialogWhileHeld == \A c \in Calls : c \in dialogs <=> phase[c] \in Held

(* A caller is told 481 only when its call is over: no request overtakes   *)
(* the creation of the dialog its To tag comes from (dialog.rs:70).        *)
GoneMeansOver ==
    \A c \in Calls, m \in Mids : "481" \in answered[c][m] => phase[c] = "over"

(* A session gets its media only after an offer and an answer have been    *)
(* exchanged, whichever side made the offer: answer().expect("a offer") of *)
(* session.rs:296 cannot fail.                                             *)
MediaNeedsAnswer ==
    \A c \in Calls : phase[c] \in {"setup", "established", "deaf", "terminated"}
                          => nego[c] = "Done"

(* A request is refused with 500 only if the dialog accepted it, or a      *)
(* later one, before: a caller whose requests arrive once and in order is  *)
(* never refused.                                                          *)
RefusedIfOvertaken ==
    \A c \in Calls, m \in Mids :
        "500" \in answered[c][m] =>
            \E k \in Mids : accepted[c][k] > 0 /\ CSeq[k] >= CSeq[m]

(* A copy of a request is accepted again only after an ACK has set         *)
(* remote_cseq back (dialog.rs:350).                                       *)
AcceptedAgainAfterAck ==
    \A c \in Calls, m \in Mids \ {"ACK"} : accepted[c][m] <= accepted[c]["ACK"] + 1

(* The sender that TsxPlugin has belongs to a transaction that exists.     *)
EntryOfLiveTsx ==
    tsxEntry # 0 => tsx[tsxEntry] \in {"proceeding", "completed"}

(* Once the peer falls silent, accept does not wait for ever for the ACK,  *)
(* nor does what follows it.  As long as other requests come it may: each  *)
(* of them starts the timer of wait_for_ack afresh.                        *)
AcceptEnds ==
    \A c \in Calls :
        <>[]~OnItsWay(c) => (phase[c] \in {"answered", "waiting", "setup"}
                                ~> phase[c] \in {"established", "over"})

(* "server INVITE must transition to the Confirmed state when receiving    *)
(* the ACK request" (server.rs:483): a transaction that refused its INVITE *)
(* is given up, by timer H, only if no ACK has come.                       *)
AckReachesTsx ==
    [][\A c \in Calls : tsx[c] = "completed" /\ tsx'[c] = "gone"
                            => c \notin ackTaken]_vars
=============================================================================
