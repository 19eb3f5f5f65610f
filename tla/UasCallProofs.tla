---------------------------- MODULE UasCallProofs ----------------------------
(***************************************************************************)
(* What holds of the callee's side for every number of calls and messages. *)
(* The invariants are proved one after the other: types first, then where  *)
(* the TU, the dialog and the negotiator of a call can be (Stages), then   *)
(* the CSeq numbers (Counts).                                              *)
(***************************************************************************)
EXTENDS UasCall, SequenceTheorems, TLAPS

(* What a call that has not begun, or is being accepted, looks like.       *)
Stages ==
    \A c \in Calls :
        /\ phase[c] = "none" => dstate[c] = "Init" /\ final[c] = "none"
        /\ phase[c] \in {"answered", "waiting"} => nego[c] \in {"LocalOffer", "Done"}

(* remote_cseq is that of a request the dialog has accepted, and a request *)
(* that is newer has been accepted at most once per ACK.                   *)
Counts ==
    \A c \in Calls :
        /\ rcseq[c] = 1 \/ \E k \in Mids : accepted[c][k] > 0 /\ CSeq[k] = rcseq[c]
        /\ \A m \in Mids \ {"ACK"} :
               accepted[c][m] <= accepted[c]["ACK"]
                                     + (IF CSeq[m] <= rcseq[c] THEN 1 ELSE 0)

LEMMA CSeqValues ==
    /\ CSeq \in [Mids -> 1 .. 3]
    /\ CSeq["ACK"] = 1 /\ CSeq["REINVITE"] = 2 /\ CSeq["BYE"] = 3
    /\ \A m \in Mids \ {"ACK"} : CSeq[m] \in 2 .. 3
BY DEF CSeq, Mids

LEMMA TypeInit == Init => TypeOK
<1> SUFFICES ASSUME Init PROVE TypeOK
  OBVIOUS
<1>1. <<>> \in Seq(Mids)
  BY EmptySeq
<1>2. 0 \in 0 .. MaxCalls /\ MaxMsgs \in 0 .. MaxMsgs
  BY BoundAssumption
<1> QED
  BY <1>1, <1>2 DEF Init, TypeOK, Phases

(* Taking the first request of a dialog's queue leaves a queue.            *)
LEMMA TakeType ==
    ASSUME TypeOK, NEW c \in Calls, NEW m \in Mids, Take(c, m)
    PROVE  queue' \in [Calls -> Seq(Mids)]
<1>1. queue[c] \in Seq(Mids) /\ queue[c] # <<>>
  BY DEF TypeOK, Take
<1>2. Tail(queue[c]) \in Seq(Mids)
  BY <1>1, HeadTailProperties
<1> QED
  BY <1>2 DEF TypeOK, Take

LEMMA AdvanceType ==
    ASSUME TypeOK, NEW c \in Calls, NEW m \in Mids, Advance(c, m)
    PROVE  rcseq' \in [Calls -> 1 .. 3] /\ accepted' \in [Calls -> [Mids -> Nat]]
<1>1. CASE Stale(c, m)
  BY <1>1 DEF Advance, TypeOK
<1>2. CASE ~Stale(c, m)
  <2>1. /\ rcseq' = [rcseq EXCEPT ![c] = CSeq[m]]
        /\ accepted' = [accepted EXCEPT ![c][m] = @ + 1]
    BY <1>2 DEF Advance
  <2>2. accepted[c][m] + 1 \in Nat /\ CSeq[m] \in 1 .. 3
    BY CSeqValues DEF TypeOK
  <2> QED
    BY <2>1, <2>2 DEF TypeOK
<1> QED
  BY <1>1, <1>2

LEMMA AnswerType ==
    ASSUME TypeOK, NEW c \in Calls, NEW m \in Mids,
           NEW codes \in SUBSET {"200", "481", "500"}, AnswerWith(c, m, codes)
    PROVE  answered' \in [Calls -> [Mids -> SUBSET {"200", "481", "500"}]]
<1>0. answered \in [Calls -> [Mids -> SUBSET {"200", "481", "500"}]]
  BY DEF TypeOK
<1>1. answered[c][m] \cup Refusal(c, m) \cup codes \in SUBSET {"200", "481", "500"}
  <2>1. answered[c][m] \in SUBSET {"200", "481", "500"}
    BY <1>0
  <2>2. Refusal(c, m) \in SUBSET {"200", "481", "500"}
    BY DEF Refusal
  <2> QED
    BY <2>1, <2>2
<1> DEFINE row == [answered[c] EXCEPT ![m] = @ \cup Refusal(c, m) \cup codes]
<1>2. answered' = [answered EXCEPT ![c] = row]
  BY DEF AnswerWith
<1>3. row \in [Mids -> SUBSET {"200", "481", "500"}]
  BY <1>0, <1>1
<1> QED
  BY <1>0, <1>2, <1>3

LEMMA TypeStep == TypeOK /\ [Next]_vars => TypeOK'
<1> SUFFICES ASSUME TypeOK, [Next]_vars PROVE TypeOK'
  OBVIOUS
<1> USE DEF dialogVars, tsxVars, histVars, netVars, Phases, Held
<1>0. \A c \in Calls : c \in 0 .. MaxCalls
  BY BoundAssumption DEF Calls
<1>1. CASE ArriveInvite
  BY <1>1, BoundAssumption DEF ArriveInvite, TypeOK
<1>2. ASSUME NEW c \in Calls, NEW m \in Mids, ArriveMid(c, m) PROVE TypeOK'
  <2>1. found' \in [Calls -> [Mids -> Nat]]
    <3>1. found \in [Calls -> [Mids -> Nat]] /\ found[c][m] + 1 \in Nat
      BY DEF TypeOK
    <3>2. UNCHANGED found \/ found' = [found EXCEPT ![c][m] = @ + 1]
      BY <1>2 DEF ArriveMid
    <3> QED
      BY <3>1, <3>2
  <2>2. answered' \in [Calls -> [Mids -> SUBSET {"200", "481", "500"}]]
    <3>1. answered \in [Calls -> [Mids -> SUBSET {"200", "481", "500"}]]
      BY DEF TypeOK
    <3>2. answered[c][m] \cup {"481"} \in SUBSET {"200", "481", "500"}
      BY <3>1
    <3>3. \/ UNCHANGED answered
          \/ answered' = [answered EXCEPT ![c][m] = @ \cup {"481"}]
      BY <1>2 DEF ArriveMid
    <3> QED
      BY <3>1, <3>2, <3>3
  <2>3. budget' \in 0 .. MaxMsgs /\ ackTaken' \subseteq Calls
    <3>1. budget' = budget \/ (budget > 0 /\ budget' = budget - 1)
      BY <1>2 DEF ArriveMid, Deliverable
    <3>2. budget' \in 0 .. MaxMsgs
      BY <3>1, BoundAssumption DEF TypeOK
    <3> QED
      BY <1>2, <3>2 DEF ArriveMid, TypeOK
  <2>4. UNCHANGED <<phase, dialogs, dstate, rcseq, queue, nego, tsx, tsxEntry, final,
                    byeTsx, passed, accepted>>
    BY <1>2 DEF ArriveMid
  <2> QED
    BY <2>1, <2>2, <2>3, <2>4 DEF TypeOK
<1>3. ASSUME NEW c \in Calls, NEW m \in Mids, SendToDialog(c, m) PROVE TypeOK'
  <2>1. found' \in [Calls -> [Mids -> Nat]]
    BY <1>3 DEF SendToDialog, TypeOK
  <2>2. queue' \in [Calls -> Seq(Mids)]
    <3>1. Append(queue[c], m) \in Seq(Mids)
      BY AppendProperties DEF TypeOK
    <3> QED
      BY <1>3, <3>1 DEF SendToDialog, TypeOK
  <2> QED
    BY <1>3, <2>1, <2>2 DEF SendToDialog, TypeOK
<1>4. ASSUME NEW c \in Calls, App(c) PROVE TypeOK'
  <2>0. DropDialog(c) => queue' \in [Calls -> Seq(Mids)]
    BY EmptySeq DEF DropDialog, TypeOK
  <2>1. CASE FromInvite(c)
    BY <1>0, <2>1 DEF FromInvite, TypeOK
  <2>2. CASE FromInviteFails(c)
    BY <2>2 DEF FromInviteFails, TypeOK
  <2>3. CASE Progress(c)
    BY <2>3 DEF Progress, TypeOK
  <2>4. CASE Answer(c)
    BY <2>4 DEF Answer, TypeOK
  <2>5. CASE Reject(c)
    BY <2>5 DEF Reject, TypeOK
  <2>6. CASE AppDrop(c)
    <3>1. tsx' \in [Calls -> {"none", "proceeding", "completed", "gone"}]
      BY <2>6 DEF AppDrop, DropHeldTsx, DropTsx, TypeOK
    <3>2. tsxEntry' \in 0 .. MaxCalls
      BY <2>6, BoundAssumption DEF AppDrop, DropHeldTsx, DropTsx, TypeOK
    <3> QED
      BY <2>0, <2>6, <3>1, <3>2 DEF AppDrop, DropDialog, TypeOK
  <2> QED
    BY <1>4, <2>1, <2>2, <2>3, <2>4, <2>5, <2>6 DEF App
<1>5. ASSUME NEW c \in Calls, Accepting(c) PROVE TypeOK'
  <2>0. DropDialog(c) => queue' \in [Calls -> Seq(Mids)]
    BY EmptySeq DEF DropDialog, TypeOK
  <2>1. CASE BeginWaitForAck(c)
    BY <2>1, BoundAssumption DEF BeginWaitForAck, DropTsx, TypeOK
  <2>2. CASE WaitIgnores(c)
    <3>1. PICK m \in Mids : Take(c, m) /\ Process(c, m)
      BY <2>2 DEF WaitIgnores
    <3>2. /\ queue' \in [Calls -> Seq(Mids)] /\ rcseq' \in [Calls -> 1 .. 3]
          /\ accepted' \in [Calls -> [Mids -> Nat]]
          /\ answered' \in [Calls -> [Mids -> SUBSET {"200", "481", "500"}]]
      BY <3>1, TakeType, AdvanceType, AnswerType DEF Process
    <3> QED
      BY <2>2, <3>1, <3>2 DEF WaitIgnores, Process, AnswerWith, TypeOK
  <2>3. CASE WaitAck(c)
    <3>1. /\ queue' \in [Calls -> Seq(Mids)] /\ rcseq' \in [Calls -> 1 .. 3]
          /\ accepted' \in [Calls -> [Mids -> Nat]]
          /\ answered' \in [Calls -> [Mids -> SUBSET {"200", "481", "500"}]]
      BY <2>3, TakeType, AdvanceType, AnswerType DEF WaitAck, Process, Mids
    <3> QED
      BY <2>3, <3>1 DEF WaitAck, Process, AnswerWith, TypeOK
  <2>4. CASE WaitFails(c)
    BY <2>0, <2>4 DEF WaitFails, DropDialog, TypeOK
  <2>5. CASE Setup(c)
    BY <2>5 DEF Setup, TypeOK
  <2>6. CASE SetupFails(c)
    BY <2>0, <2>6 DEF SetupFails, DropDialog, TypeOK
  <2> QED
    BY <1>5, <2>1, <2>2, <2>3, <2>4, <2>5, <2>6 DEF Accepting
<1>6. ASSUME NEW c \in Calls, NextEvent(c) PROVE TypeOK'
  <2>1. CASE NextPassedOn(c)
    <3>1. PICK m \in Mids : Take(c, m) /\ Process(c, m)
      BY <2>1 DEF NextPassedOn, Mids
    <3>2. /\ queue' \in [Calls -> Seq(Mids)] /\ rcseq' \in [Calls -> 1 .. 3]
          /\ accepted' \in [Calls -> [Mids -> Nat]]
          /\ answered' \in [Calls -> [Mids -> SUBSET {"200", "481", "500"}]]
      BY <3>1, TakeType, AdvanceType, AnswerType DEF Process
    <3> QED
      BY <2>1, <3>1, <3>2 DEF NextPassedOn, Process, AnswerWith, TypeOK
  <2>2. CASE NextBye(c)
    <3>1. /\ queue' \in [Calls -> Seq(Mids)] /\ rcseq' \in [Calls -> 1 .. 3]
          /\ accepted' \in [Calls -> [Mids -> Nat]]
          /\ answered' \in [Calls -> [Mids -> SUBSET {"200", "481", "500"}]]
      BY <2>2, TakeType, AdvanceType, AnswerType DEF NextBye, Mids
    <3> QED
      BY <2>2, <3>1 DEF NextBye, AnswerWith, TypeOK
  <2>3. CASE NextDeaf(c)
    <3>1. queue' \in [Calls -> Seq(Mids)]
      BY <2>3, TakeType DEF NextDeaf
    <3> QED
      BY <2>3, <3>1 DEF NextDeaf, TypeOK
  <2>4. CASE NextPanics(c)
    <3>1. queue' \in [Calls -> Seq(Mids)]
      BY <2>4, EmptySeq DEF NextPanics, DropDialog, TypeOK
    <3> QED
      BY <2>4, <3>1 DEF NextPanics, DropDialog, TypeOK
  <2> QED
    BY <1>6, <2>1, <2>2, <2>3, <2>4 DEF NextEvent
<1>7. ASSUME NEW c \in Calls, TsxEnds(c) PROVE TypeOK'
  <2>1. CASE RejectedTsxEnds(c)
    BY <2>1, BoundAssumption DEF RejectedTsxEnds, DropTsx, TypeOK
  <2>2. CASE ByeTsxEnds(c)
    BY <2>2 DEF ByeTsxEnds, TypeOK
  <2> QED
    BY <1>7, <2>1, <2>2 DEF TsxEnds
<1>8. CASE UNCHANGED vars
  BY <1>8 DEF vars, TypeOK
<1> QED
  BY <1>1, <1>2, <1>3, <1>4, <1>5, <1>6, <1>7, <1>8 DEF Next, Deliver, Finished

(* The variables of the calls stay in their types (dialog.rs, session.rs). *)
THEOREM TypeCorrect == Spec => []TypeOK
BY TypeInit, TypeStep, PTL DEF Spec

-----------------------------------------------------------------------------
CallInv == DialogWhileHeld /\ GoneMeansOver /\ MediaNeedsAnswer /\ EntryOfLiveTsx /\ Stages

LEMMA CallInit == Init => CallInv
BY DEF Init, CallInv, DialogWhileHeld, GoneMeansOver, MediaNeedsAnswer,
       EntryOfLiveTsx, Stages, Held, Phases

LEMMA CallStep == TypeOK /\ CallInv /\ [Next]_vars => CallInv'
<1> SUFFICES ASSUME TypeOK, CallInv, [Next]_vars PROVE CallInv'
  OBVIOUS
<1> USE DEF CallInv, DialogWhileHeld, GoneMeansOver, MediaNeedsAnswer,
            EntryOfLiveTsx, Stages, Held, Phases, Mids,
            dialogVars, tsxVars, histVars, netVars
<1>0. \A c \in Calls : c # 0
  BY DEF Calls
<1>t. /\ phase \in [Calls -> Phases] /\ dialogs \subseteq Calls
      /\ dstate \in [Calls -> {"Init", "Early", "Confirmed", "Terminated"}]
      /\ nego \in [Calls -> {"Initial", "LocalOffer", "RemoteOffer", "Done"}]
      /\ tsx \in [Calls -> {"none", "proceeding", "completed", "gone"}]
      /\ tsxEntry \in {0} \cup Calls
      /\ final \in [Calls -> {"none", "2xx", "refused"}]
      /\ answered \in [Calls -> [Mids -> SUBSET {"200", "481", "500"}]]
  BY DEF TypeOK, Calls
<1>1. CASE ArriveInvite
  BY <1>t, <1>1 DEF ArriveInvite
<1>2. ASSUME NEW c \in Calls, NEW m \in Mids, ArriveMid(c, m) PROVE CallInv'
  <2>1. /\ UNCHANGED <<phase, dialogs, dialogVars, tsxVars, final>>
        /\ c \in dialogs => UNCHANGED answered
    BY <1>2 DEF ArriveMid
  <2>2. \A d \in Calls, k \in Mids :
          answered'[d][k] # answered[d][k] => d = c /\ CanArrive(c, m) /\ c \notin dialogs
    BY <1>t, <1>2 DEF ArriveMid
  <2>3. CanArrive(c, m) /\ c \notin dialogs => phase[c] = "over"
    BY <1>t DEF CanArrive
  <2> QED
    BY <2>1, <2>2, <2>3
<1>3. ASSUME NEW c \in Calls, NEW m \in Mids, SendToDialog(c, m) PROVE CallInv'
  BY <1>t, <1>3 DEF SendToDialog
<1>4. ASSUME NEW c \in Calls, App(c) PROVE CallInv'
  <2>1. CASE FromInvite(c)
    BY <1>t, <1>0, <2>1 DEF FromInvite, Fresh
  <2>2. CASE FromInviteFails(c)
    BY <1>t, <2>2 DEF FromInviteFails, Fresh
  <2>3. CASE Progress(c)
    BY <1>t, <2>3 DEF Progress
  <2>4. CASE Answer(c)
    BY <1>t, <2>4 DEF Answer
  <2>5. CASE Reject(c)
    BY <1>t, <2>5 DEF Reject
  <2>6. CASE AppDrop(c)
    BY <1>t, <2>6 DEF AppDrop, DropDialog, DropHeldTsx, DropTsx
  <2> QED
    BY <1>t, <1>4, <2>1, <2>2, <2>3, <2>4, <2>5, <2>6 DEF App
<1>5. ASSUME NEW c \in Calls, Accepting(c) PROVE CallInv'
  <2>1. CASE BeginWaitForAck(c)
    BY <1>t, <2>1 DEF BeginWaitForAck, DropTsx
  <2>2. CASE WaitIgnores(c)
    BY <1>t, <2>2 DEF WaitIgnores, Take, Process, AnswerWith, Refusal
  <2>3. CASE WaitAck(c)
    BY <1>t, <2>3 DEF WaitAck, Take, Process, AnswerWith, Refusal
  <2>4. CASE WaitFails(c)
    BY <1>t, <2>4 DEF WaitFails, DropDialog
  <2>5. CASE Setup(c)
    BY <1>t, <2>5 DEF Setup
  <2>6. CASE SetupFails(c)
    BY <1>t, <2>6 DEF SetupFails, DropDialog
  <2> QED
    BY <1>t, <1>5, <2>1, <2>2, <2>3, <2>4, <2>5, <2>6 DEF Accepting
<1>6. ASSUME NEW c \in Calls, NextEvent(c) PROVE CallInv'
  <2>1. CASE NextPassedOn(c)
    BY <1>t, <2>1 DEF NextPassedOn, Take, Process, AnswerWith, Refusal
  <2>2. CASE NextBye(c)
    BY <1>t, <2>2 DEF NextBye, Take, AnswerWith, Refusal
  <2>3. CASE NextDeaf(c)
    BY <1>t, <2>3 DEF NextDeaf, Take
  <2>4. CASE NextPanics(c)
    BY <1>t, <2>4 DEF NextPanics, DropDialog
  <2> QED
    BY <1>t, <1>6, <2>1, <2>2, <2>3, <2>4 DEF NextEvent
<1>7. ASSUME NEW c \in Calls, TsxEnds(c) PROVE CallInv'
  <2>1. CASE RejectedTsxEnds(c)
    BY <1>t, <2>1 DEF RejectedTsxEnds, DropTsx
  <2>2. CASE ByeTsxEnds(c)
    BY <1>t, <2>2 DEF ByeTsxEnds
  <2> QED
    BY <1>t, <1>7, <2>1, <2>2 DEF TsxEnds
<1>8. CASE UNCHANGED vars
  BY <1>t, <1>8 DEF vars
<1> QED
  BY <1>t, <1>1, <1>2, <1>3, <1>4, <1>5, <1>6, <1>7, <1>8 DEF Next, Deliver, Finished

LEMMA CallInvariant == Spec => []CallInv
BY TypeCorrect, CallInit, CallStep, PTL DEF Spec

(* DialogPlugin has an entry for exactly the dialogs that exist.           *)
THEOREM DialogsRegistered == Spec => []DialogWhileHeld
BY CallInvariant, PTL DEF CallInv

(* 481 is sent for calls that are over, and for no others (dialog.rs:70).  *)
THEOREM GoneIsOver == Spec => []GoneMeansOver
BY CallInvariant, PTL DEF CallInv

(* No session sets up media before offer and answer are complete, so the   *)
(* expect of session.rs:296 cannot fail.                                   *)
THEOREM AnswerFirst == Spec => []MediaNeedsAnswer
BY CallInvariant, PTL DEF CallInv

(* The entry of the INVITE belongs to a transaction that exists, whatever  *)
(* order copies of the INVITE, answers and drops come in.                  *)
THEOREM EntryIsLive == Spec => []EntryOfLiveTsx
BY CallInvariant, PTL DEF CallInv

-----------------------------------------------------------------------------
CountInv == Counts /\ RefusedIfOvertaken

LEMMA CountInit == Init => CountInv
BY CSeqValues DEF Init, CountInv, Counts, RefusedIfOvertaken, Mids

(* One request through process_incoming_request keeps the counts.          *)
LEMMA AdvanceCounts ==
    ASSUME TypeOK, CountInv, NEW c \in Calls, NEW m \in Mids, NEW codes,
           "500" \notin codes, Advance(c, m), AnswerWith(c, m, codes)
    PROVE  CountInv'
<1>1. CASE Stale(c, m)
  <2>1. \E k \in Mids : accepted[c][k] > 0 /\ CSeq[k] >= CSeq[m]
    <3>1. m \in Mids \ {"ACK"} /\ CSeq[m] \in 2 .. 3 /\ CSeq[m] <= rcseq[c]
      BY <1>1, CSeqValues DEF Stale
    <3>2. rcseq[c] # 1
      BY <3>1
    <3>3. PICK k \in Mids : accepted[c][k] > 0 /\ CSeq[k] = rcseq[c]
      BY <3>2 DEF CountInv, Counts
    <3> QED
      BY <3>1, <3>3
  <2>2. /\ UNCHANGED <<rcseq, accepted>>
        /\ \A d \in Calls, k \in Mids :
               "500" \in answered'[d][k] =>
                   "500" \in answered[d][k] \/ (d = c /\ k = m)
    BY <1>1 DEF Advance, AnswerWith, Refusal, TypeOK
  <2> QED
    BY <2>1, <2>2 DEF CountInv, Counts, RefusedIfOvertaken
<1>2. CASE ~Stale(c, m)
  <2>1. /\ rcseq' = [rcseq EXCEPT ![c] = CSeq[m]]
        /\ accepted' = [accepted EXCEPT ![c][m] = @ + 1]
        /\ \A d \in Calls, k \in Mids :
               "500" \in answered'[d][k] => "500" \in answered[d][k]
    BY <1>2 DEF Advance, AnswerWith, Refusal, TypeOK
  <2>2. /\ \A d \in Calls : rcseq'[d] = IF d = c THEN CSeq[m] ELSE rcseq[d]
        /\ \A d \in Calls, k \in Mids :
               accepted'[d][k] = IF d = c /\ k = m THEN accepted[c][m] + 1
                                                   ELSE accepted[d][k]
    BY <2>1 DEF TypeOK
  <2>3. /\ \A d \in Calls, k \in Mids : accepted[d][k] \in Nat
        /\ \A d \in Calls : rcseq[d] \in 1 .. 3
    BY DEF TypeOK
  <2>4. RefusedIfOvertaken'
    BY <2>1, <2>2, <2>3, CSeqValues DEF CountInv, RefusedIfOvertaken
  <2>5. \A d \in Calls :
            rcseq'[d] = 1 \/ \E k \in Mids : accepted'[d][k] > 0 /\ CSeq[k] = rcseq'[d]
    BY <2>2, <2>3, CSeqValues DEF CountInv, Counts
  <2>6. ASSUME NEW d \in Calls, NEW k \in Mids \ {"ACK"}
        PROVE  accepted'[d][k] <= accepted'[d]["ACK"]
                                      + (IF CSeq[k] <= rcseq'[d] THEN 1 ELSE 0)
    <3>1. accepted[d][k] <= accepted[d]["ACK"]
                                + (IF CSeq[k] <= rcseq[d] THEN 1 ELSE 0)
      BY DEF CountInv, Counts
    <3>2. "ACK" \in Mids /\ CSeq["ACK"] = 1 /\ CSeq[k] \in 2 .. 3 /\ CSeq[m] \in 1 .. 3
      BY CSeqValues DEF Mids
    <3>3. CASE d # c
      BY <2>2, <3>1, <3>2, <3>3
    <3>4. CASE d = c /\ m = "ACK"
      BY <2>2, <2>3, <3>1, <3>2, <3>4
    <3>5. CASE d = c /\ m # "ACK"
      BY <1>2, <2>2, <2>3, <3>1, <3>2, <3>5 DEF Stale
    <3> QED
      BY <3>3, <3>4, <3>5
  <2> QED
    BY <2>4, <2>5, <2>6 DEF CountInv, Counts
<1> QED
  BY <1>1, <1>2

LEMMA CountStep == TypeOK /\ CountInv /\ [Next]_vars => CountInv'
<1> SUFFICES ASSUME TypeOK, CountInv, [Next]_vars PROVE CountInv'
  OBVIOUS
<1>1. CASE UNCHANGED <<rcseq, accepted, answered>>
  BY <1>1 DEF CountInv, Counts, RefusedIfOvertaken
<1>2. ASSUME NEW c \in Calls, NEW m \in Mids, ArriveMid(c, m) PROVE CountInv'
  <2>1. /\ UNCHANGED <<rcseq, accepted>>
        /\ \A d \in Calls, k \in Mids :
               "500" \in answered'[d][k] => "500" \in answered[d][k]
    <3>1. UNCHANGED <<rcseq, accepted>>
      BY <1>2 DEF ArriveMid, dialogVars
    <3>2. \/ UNCHANGED answered
          \/ answered' = [answered EXCEPT ![c][m] = @ \cup {"481"}]
      BY <1>2 DEF ArriveMid
    <3>3. answered \in [Calls -> [Mids -> SUBSET {"200", "481", "500"}]]
      BY DEF TypeOK
    <3>4. ASSUME NEW d \in Calls, NEW k \in Mids, "500" \in answered'[d][k]
          PROVE  "500" \in answered[d][k]
      BY <3>2, <3>3, <3>4
    <3> QED
      BY <3>1, <3>4
  <2> QED
    BY <2>1 DEF CountInv, Counts, RefusedIfOvertaken
<1>3. ASSUME NEW c \in Calls, WaitIgnores(c) \/ WaitAck(c) \/ NextPassedOn(c)
      PROVE  CountInv'
  <2>1. PICK m \in Mids : Advance(c, m) /\ AnswerWith(c, m, {})
    BY <1>3 DEF WaitIgnores, WaitAck, NextPassedOn, Process, Mids
  <2> QED
    BY <2>1, AdvanceCounts
<1>4. ASSUME NEW c \in Calls, NextBye(c) PROVE CountInv'
  BY <1>4, AdvanceCounts DEF NextBye, Mids
<1> QED
  BY <1>1, <1>2, <1>3, <1>4
     DEF Next, Deliver, App, Accepting, NextEvent, TsxEnds, Finished, vars,
         ArriveInvite, SendToDialog, FromInvite, FromInviteFails, Progress, Answer,
         Reject, AppDrop, BeginWaitForAck, WaitFails, Setup, SetupFails, NextDeaf,
         NextPanics, RejectedTsxEnds, ByeTsxEnds, dialogVars, histVars

LEMMA CountInvariant == Spec => []CountInv
BY TypeCorrect, CountInit, CountStep, PTL DEF Spec

(* A request is refused with 500 only if one that is no older was accepted *)
(* before (dialog.rs:338).                                                 *)
THEOREM RefusalsJustified == Spec => []RefusedIfOvertaken
BY CountInvariant, PTL DEF CountInv

(* Without ACKs no request is accepted twice; each ACK allows one more     *)
(* acceptance, since it sets remote_cseq back (dialog.rs:350).             *)
THEOREM Duplicates == Spec => []AcceptedAgainAfterAck
<1>1. TypeOK /\ CountInv => AcceptedAgainAfterAck
  <2> SUFFICES ASSUME TypeOK, CountInv, NEW c \in Calls, NEW m \in Mids \ {"ACK"}
               PROVE  accepted[c][m] <= accepted[c]["ACK"] + 1
    BY DEF AcceptedAgainAfterAck
  <2>1. accepted[c][m] \in Nat /\ accepted[c]["ACK"] \in Nat
    BY DEF TypeOK, Mids
  <2> QED
    BY <2>1 DEF CountInv, Counts
<1> QED
  BY <1>1, TypeCorrect, CountInvariant, PTL
=============================================================================
