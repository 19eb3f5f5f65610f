--------------------------- MODULE ClientTsxProofs ---------------------------
(***************************************************************************)
(* What holds of a client transaction for every number of messages, every  *)
(* channel capacity and every timer value.  The inductive invariant adds   *)
(* to the properties of ClientTsx how the phases of the TU, the lingering  *)
(* task and the history variables go together (Link).                      *)
(***************************************************************************)
EXTENDS ClientTsx, SequenceTheorems, TLAPS

Link ==
    /\ linger # "off" => tu = "gone"
    /\ tu # "gone" => acks = 0
    /\ tu = "ack" => invite
    /\ invite /\ linger = "on" => outcome = "rejected"
    /\ provSeen => state \notin {"Calling", "Trying"}
    /\ outcome = "timeout" => state = "Terminated" /\ tu \in {"idle", "gone"}

(* The code doubles the interval whatever it is: Backoff, without the      *)
(* exception of T2.                                                        *)
Doubling == Waiting /\ Retransmitting => waited + retrans = 2 * interval - T1

IInv == /\ TypeOK /\ EntryWhileAlive /\ NoResponseLost /\ Doubling
        /\ NoTimeoutWhileRinging /\ AckOnlyRefusals /\ Link

LEMMA InitInv == Init => IInv
<1> SUFFICES ASSUME Init PROVE IInv
  OBVIOUS
<1>1. TypeOK
  <2>1. invite \in BOOLEAN /\ reliable \in BOOLEAN
    BY SubsetAssumption DEF Init
  <2>2. state \in States
    BY <2>1 DEF Init, States
  <2>3. chan \in Seq(Responses) /\ Len(chan) <= Cap
    BY BoundAssumption, EmptySeq DEF Init
  <2>4. /\ pending \in [Responses -> Nat] /\ budget \in 0 .. MaxMsgs
        /\ peeked = None /\ entry = FALSE /\ provSeen = FALSE
    BY BoundAssumption DEF Init
  <2>5. /\ tu = "new" /\ outcome = None /\ linger = "off"
        /\ deadline = 0 /\ retrans = 0 /\ interval = 0 /\ acks = 0
        /\ delivered = 0 /\ taken = 0 /\ waited = 0
    BY DEF Init
  <2> QED
    BY <2>1, <2>2, <2>3, <2>4, <2>5 DEF TypeOK, None
<1>2. /\ EntryWhileAlive /\ NoResponseLost /\ Doubling
      /\ NoTimeoutWhileRinging /\ AckOnlyRefusals /\ Link
  BY DEF Init, EntryWhileAlive, Alive, NoResponseLost, Doubling, Waiting,
         NoTimeoutWhileRinging, AckOnlyRefusals, Link, None
<1> QED
  BY <1>1, <1>2 DEF IInv

(* The queue behind PeekableReceiver, peeked response included.            *)
Queued == Len(chan) + (IF peeked = None THEN 0 ELSE 1)

LEMMA FrontFacts ==
    ASSUME TypeOK, HasFront
    PROVE  /\ Front \in Responses
           /\ RestOfChan \in Seq(Responses) /\ Len(RestOfChan) <= Cap
           /\ Len(RestOfChan) = Queued - 1
<1>1. chan \in Seq(Responses) /\ Len(chan) <= Cap /\ Cap \in Nat
  BY BoundAssumption DEF TypeOK
<1>2. Len(chan) \in Nat
  BY <1>1
<1>3. CASE peeked # None
  BY <1>1, <1>2, <1>3 DEF TypeOK, Front, RestOfChan, Queued
<1>4. CASE peeked = None
  <2>1. chan # <<>>
    BY <1>4 DEF HasFront
  <2>2. /\ Head(chan) \in Responses /\ Tail(chan) \in Seq(Responses)
        /\ Len(Tail(chan)) = Len(chan) - 1
    BY <1>1, <2>1, HeadTailProperties
  <2> QED
    BY <1>1, <1>2, <1>4, <2>2 DEF Front, RestOfChan, Queued
<1> QED
  BY <1>3, <1>4

(* Taking the front and leaving it peeked both keep the account of         *)
(* responses balanced.                                                     *)
LEMMA TakeKeeps ==
    ASSUME TypeOK, NoResponseLost, TakeFront
    PROVE  /\ chan' \in Seq(Responses) /\ Len(chan') <= Cap
           /\ peeked' = None /\ taken' \in Nat
           /\ delivered = taken' + Len(chan')
<1>1. Len(RestOfChan) = Queued - 1 /\ RestOfChan \in Seq(Responses) /\ Len(RestOfChan) <= Cap
  BY FrontFacts DEF TakeFront
<1>2. chan' = RestOfChan /\ peeked' = None /\ taken' = taken + 1 /\ taken \in Nat
  BY DEF TakeFront, TypeOK
<1>3. Queued \in Nat
  BY DEF Queued, TypeOK
<1>4. delivered = taken + Queued
  BY <1>2 DEF NoResponseLost, Queued, TypeOK
<1> QED
  BY <1>1, <1>2, <1>3, <1>4

LEMMA LeaveKeeps ==
    ASSUME TypeOK, NoResponseLost, LeaveFront
    PROVE  /\ chan' \in Seq(Responses) /\ Len(chan') <= Cap
           /\ peeked' \in Responses /\ taken' = taken
           /\ delivered = taken' + Len(chan') + 1
<1>1. /\ Len(RestOfChan) = Queued - 1 /\ RestOfChan \in Seq(Responses)
      /\ Len(RestOfChan) <= Cap /\ Front \in Responses
  BY FrontFacts DEF LeaveFront
<1>2. chan' = RestOfChan /\ peeked' = Front /\ taken' = taken /\ taken \in Nat
  BY DEF LeaveFront, TypeOK
<1>3. Queued \in Nat
  BY DEF Queued, TypeOK
<1>4. delivered = taken + Queued
  BY <1>2 DEF NoResponseLost, Queued, TypeOK
<1> QED
  BY <1>1, <1>2, <1>3, <1>4

(* Every step keeps the account of responses balanced.                     *)
LEMMA AccountStep ==
    ASSUME TypeOK, NoResponseLost, [Next]_vars
    PROVE  NoResponseLost'
<1>1. CASE TakeFront /\ delivered' = delivered
  BY <1>1, TakeKeeps DEF NoResponseLost, TypeOK
<1>2. CASE LeaveFront /\ delivered' = delivered
  <2>1. peeked' # None
    BY <1>2, LeaveKeeps DEF Responses, None
  <2> QED
    BY <1>2, <2>1, LeaveKeeps DEF NoResponseLost
<1>3. CASE UNCHANGED <<delivered, chan, peeked, taken>>
  BY <1>3 DEF NoResponseLost
<1>4. ASSUME NEW r \in Responses, Enqueue(r) PROVE NoResponseLost'
  <2>1. Len(chan') = Len(chan) + 1 /\ Len(chan) \in Nat
    BY <1>4, AppendProperties DEF Enqueue, TypeOK
  <2>2. delivered' = delivered + 1 /\ taken' = taken /\ peeked' = peeked
    BY <1>4 DEF Enqueue
  <2> QED
    BY <2>1, <2>2 DEF NoResponseLost, TypeOK
<1> USE DEF netVars, queueVars
<1>5. ASSUME NEW r \in Responses, Lookup(r) \/ Discard(r)
      PROVE  UNCHANGED <<delivered, chan, peeked, taken>>
  BY <1>5 DEF Lookup, Discard
<1>6. CASE Send \/ Register \/ TuCalls \/ SendAck \/ Retransmit \/ WaitTimesOut
            \/ LingerEnds \/ Tick \/ Finished \/ UNCHANGED vars
  BY <1>3, <1>6 DEF Send, Register, TuCalls, CallProvisional, CallFinal,
       CallFinalPanics, CancelProvisional, TuDrop, SendAck, Retransmit,
       WaitTimesOut, LingerEnds, Tick, Finished, vars
<1>7. CASE ProvReturns \/ FinalEnds \/ FinalToAck \/ FinalCompletes
            \/ FinalRefused \/ LingerReceives
  BY <1>1, <1>2, <1>7 DEF ProvReturns, FinalEnds, FinalToAck, FinalCompletes,
       FinalRefused, LingerReceives
<1> QED
  BY <1>3, <1>4, <1>5, <1>6, <1>7 DEF Next, Deliver, TuReturns, LingerNext

LEMMA StepInv == IInv /\ [Next]_vars => IInv'
<1> SUFFICES ASSUME IInv, [Next]_vars PROVE IInv'
  OBVIOUS
<1>account. NoResponseLost'
  BY AccountStep DEF IInv
<1> USE <1>account, TimerAssumption, BoundAssumption
    DEF IInv, TypeOK, EntryWhileAlive, Alive, Doubling, Waiting,
        Retransmitting, NoTimeoutWhileRinging, AckOnlyRefusals, Link, States,
        cfgVars, netVars, queueVars, timerVars, None
<1>1. ASSUME NEW r \in Responses, Lookup(r) PROVE IInv'
  BY <1>1 DEF Lookup
<1>2. ASSUME NEW r \in Responses, Enqueue(r) PROVE IInv'
  <2>1. chan' \in Seq(Responses) /\ Len(chan') = Len(chan) + 1
    BY <1>2, AppendProperties DEF Enqueue
  <2> QED
    BY <1>2, <2>1 DEF Enqueue
<1>3. ASSUME NEW r \in Responses, Discard(r) PROVE IInv'
  BY <1>3 DEF Discard
<1>4. CASE Send
  BY <1>4 DEF Send
<1>5. CASE Register
  BY <1>5 DEF Register, T64
<1>6. CASE CallProvisional
  BY <1>6 DEF CallProvisional, BeginWait
<1>7. CASE CallFinal
  BY <1>7 DEF CallFinal, BeginWait
<1>8. CASE CallFinalPanics
  <2>1. TypeOK'
    BY <1>8 DEF CallFinalPanics
  <2>2. EntryWhileAlive' /\ Doubling'
    BY <1>8 DEF CallFinalPanics
  <2>3. NoTimeoutWhileRinging' /\ AckOnlyRefusals' /\ Link'
    BY <1>8 DEF CallFinalPanics
  <2> QED
    BY <2>1, <2>2, <2>3
<1>9. CASE CancelProvisional
  BY <1>9 DEF CancelProvisional
<1>10. CASE TuDrop
  <2>1. TypeOK'
    BY <1>10 DEF TuDrop
  <2>2. EntryWhileAlive' /\ Doubling'
    BY <1>10 DEF TuDrop
  <2>3. NoTimeoutWhileRinging' /\ AckOnlyRefusals' /\ Link'
    BY <1>10 DEF TuDrop
  <2> QED
    BY <2>1, <2>2, <2>3
<1>11. CASE ProvReturns
  <2>1. TypeOK'
    BY <1>11, TakeKeeps, LeaveKeeps DEF ProvReturns
  <2>2. EntryWhileAlive' /\ Doubling'
    BY <1>11, TakeKeeps, LeaveKeeps DEF ProvReturns
  <2>3. NoTimeoutWhileRinging' /\ AckOnlyRefusals' /\ Link'
    BY <1>11, TakeKeeps, LeaveKeeps DEF ProvReturns
  <2> QED
    BY <2>1, <2>2, <2>3
<1>12. CASE FinalEnds
  <2>1. TypeOK'
    BY <1>12, TakeKeeps DEF FinalEnds, OutcomeOf
  <2>2. EntryWhileAlive' /\ Doubling'
    BY <1>12, TakeKeeps DEF FinalEnds, OutcomeOf
  <2>3. NoTimeoutWhileRinging' /\ AckOnlyRefusals' /\ Link'
    BY <1>12, TakeKeeps DEF FinalEnds, OutcomeOf
  <2> QED
    BY <2>1, <2>2, <2>3
<1>13. CASE FinalToAck
  BY <1>13, TakeKeeps DEF FinalToAck
<1>14. CASE SendAck
  BY <1>14 DEF SendAck, T64
<1>15. CASE FinalCompletes
  BY <1>15, TakeKeeps DEF FinalCompletes, OutcomeOf
<1>16. CASE FinalRefused
  <2>1. TypeOK'
    BY <1>16, LeaveKeeps DEF FinalRefused
  <2>2. EntryWhileAlive' /\ Doubling'
    BY <1>16, LeaveKeeps DEF FinalRefused
  <2>3. NoTimeoutWhileRinging' /\ AckOnlyRefusals' /\ Link'
    BY <1>16, LeaveKeeps DEF FinalRefused
  <2> QED
    BY <2>1, <2>2, <2>3
<1>17. CASE Retransmit
  BY <1>17 DEF Retransmit
<1>18. CASE WaitTimesOut
  <2>1. TypeOK'
    BY <1>18 DEF WaitTimesOut, HasDeadline
  <2>2. EntryWhileAlive' /\ Doubling'
    BY <1>18 DEF WaitTimesOut, HasDeadline
  <2>3. NoTimeoutWhileRinging' /\ AckOnlyRefusals' /\ Link'
    BY <1>18 DEF WaitTimesOut, HasDeadline
  <2> QED
    BY <2>1, <2>2, <2>3
<1>19. CASE LingerReceives
  BY <1>19, TakeKeeps DEF LingerReceives
<1>20. CASE LingerEnds
  BY <1>20 DEF LingerEnds
<1>21. CASE Tick
  BY <1>21 DEF Tick, TimerExpired, Dec
<1>22. CASE UNCHANGED vars
  BY <1>22 DEF vars
<1> QED
  BY <1>1, <1>2, <1>3, <1>4, <1>5, <1>6, <1>7, <1>8, <1>9, <1>10, <1>11, <1>12,
     <1>13, <1>14, <1>15, <1>16, <1>17, <1>18, <1>19, <1>20, <1>21, <1>22
     DEF Next, Deliver, TuCalls, TuReturns, LingerNext, Finished

(* The transaction's state is well typed in every reachable state.         *)
THEOREM TypeCorrect == Spec => []TypeOK
<1>1. IInv => TypeOK
  BY DEF IInv
<1> QED
  BY InitInv, StepInv, <1>1, PTL DEF Spec

(* The map of TsxPlugin has the transaction exactly while it exists, on    *)
(* every path through the TU's methods and the lingering task.             *)
THEOREM EntryCorrect == Spec => []EntryWhileAlive
<1>1. IInv => EntryWhileAlive
  BY DEF IInv
<1> QED
  BY InitInv, StepInv, <1>1, PTL DEF Spec

(* PeekableReceiver loses no response, whatever the TU cancels.            *)
THEOREM NothingLost == Spec => []NoResponseLost
<1>1. IInv => NoResponseLost
  BY DEF IInv
<1> QED
  BY InitInv, StepInv, <1>1, PTL DEF Spec

(* The waiting time before each retransmission doubles, as long as that    *)
(* does not exceed the maximum documented for the request (client.rs:238). *)
THEOREM BacksOff == Spec => []Backoff
<1>1. IInv => Backoff
  BY DEF IInv, Doubling, Backoff
<1> QED
  BY InitInv, StepInv, <1>1, PTL DEF Spec

(* A TU that has seen a provisional response to its INVITE is never told   *)
(* that the transaction timed out (client.rs:259).                         *)
THEOREM RingingIsPatient == Spec => []NoTimeoutWhileRinging
<1>1. IInv => NoTimeoutWhileRinging
  BY DEF IInv
<1> QED
  BY InitInv, StepInv, <1>1, PTL DEF Spec

(* Only a refused INVITE is acknowledged by the transaction                *)
(* (client.rs:181 and 196).                                                *)
THEOREM AcksRefusals == Spec => []AckOnlyRefusals
<1>1. IInv => AckOnlyRefusals
  BY DEF IInv
<1> QED
  BY InitInv, StepInv, <1>1, PTL DEF Spec

(* No retransmission follows a provisional response that was returned.     *)
THEOREM Quiet == Spec => QuietAfterProvisional
<1>1. IInv /\ [Next]_vars
        => [provSeen => ~(interval > 0 /\ interval' = 2 * interval)]_vars
  <2> SUFFICES ASSUME IInv, Next, provSeen, interval > 0
               PROVE  interval' # 2 * interval
    OBVIOUS
  <2> USE DEF timerVars
  <2>1. ~Retransmitting /\ interval \in Nat
    BY DEF IInv, Link, TypeOK, Retransmitting
  <2>2. CASE CallProvisional \/ CallFinal
    <3>1. BeginWait
      BY <2>2 DEF CallProvisional, CallFinal
    <3>2. interval' = 0
      BY <2>1, <3>1 DEF BeginWait
    <3> QED
      BY <2>1, <3>2
  <2>3. CASE interval' = interval
    BY <2>1, <2>3
  <2>4. CASE Deliver \/ Send \/ Register \/ SendAck \/ LingerNext \/ Tick \/ Finished
    BY <2>3, <2>4 DEF Deliver, Lookup, Enqueue, Discard, Send, Register, SendAck,
         LingerNext, LingerReceives, LingerEnds, Tick, Finished, vars
  <2>5. CASE CallFinalPanics \/ CancelProvisional \/ TuDrop
    BY <2>3, <2>5 DEF CallFinalPanics, CancelProvisional, TuDrop
  <2>6. CASE TuReturns
    BY <2>1, <2>3, <2>6 DEF TuReturns, ProvReturns, FinalEnds, FinalToAck,
         FinalCompletes, FinalRefused, Retransmit, WaitTimesOut
  <2> QED
    BY <2>2, <2>4, <2>5, <2>6 DEF Next, TuCalls
<1> QED
  BY InitInv, StepInv, <1>1, PTL DEF Spec, QuietAfterProvisional

-----------------------------------------------------------------------------
(* The refinement of Mailbox: the queue of the mailbox is the channel      *)
(* behind the peeked response.                                             *)

(* No response is under way to a transaction that is not registered yet.   *)
Unsent == tu \in {"new", "sent"} => \A r \in Responses : pending[r] = 0

(* A list with one more element in front.                                  *)
LEMMA InFront ==
    ASSUME NEW S, NEW e \in S, NEW s \in Seq(S)
    PROVE  /\ <<e>> \o s \in Seq(S) /\ Len(<<e>> \o s) = Len(s) + 1
           /\ <<e>> \o s # <<>>
           /\ (<<e>> \o s)[1] = e
           /\ \A k \in 1..Len(s) : (<<e>> \o s)[k + 1] = s[k]
           /\ Tail(<<e>> \o s) = s
<1> DEFINE one == <<e>>
           t == one \o s
<1>1. one \in Seq(S) /\ Len(one) = 1 /\ one[1] = e /\ Len(s) \in Nat
  OBVIOUS
<1> HIDE DEF one
<1>2. /\ t \in Seq(S) /\ Len(t) = Len(one) + Len(s)
      /\ \A k \in 1..(Len(one) + Len(s)) :
           t[k] = IF k <= Len(one) THEN one[k] ELSE s[k - Len(one)]
  BY <1>1, ConcatProperties
<1> HIDE DEF t
<1>3. Len(t) = Len(s) + 1 /\ t[1] = e
  BY <1>1, <1>2
<1>4. ASSUME NEW k \in 1..Len(s) PROVE t[k + 1] = s[k]
  <2>1. k + 1 \in 1..(Len(one) + Len(s)) /\ ~(k + 1 <= Len(one)) /\ k + 1 - Len(one) = k
    BY <1>1
  <2> QED
    BY <1>2, <2>1
<1>5. t # <<>>
  BY <1>1, <1>3, EmptySeq
<1>6. /\ Tail(t) \in Seq(S) /\ Len(Tail(t)) = Len(t) - 1
      /\ \A k \in 1..Len(Tail(t)) : Tail(t)[k] = t[k + 1]
  BY <1>2, <1>5, HeadTailProperties
<1>7. Tail(t) = s
  <2>1. Len(Tail(t)) = Len(s)
    BY <1>1, <1>3, <1>6
  <2>2. \A k \in 1..Len(s) : Tail(t)[k] = s[k]
    BY <1>4, <1>6, <2>1
  <2> QED
    BY <1>6, <2>1, <2>2, SeqEqual
<1> QED
  BY <1>2, <1>3, <1>4, <1>5, <1>7 DEF t, one

(* A list is its first element and the rest.                               *)
LEMMA HeadFirst == ASSUME NEW S, NEW s \in Seq(S), s # <<>> PROVE <<Head(s)>> \o Tail(s) = s
<1>1. /\ Head(s) \in S /\ Tail(s) \in Seq(S) /\ Len(Tail(s)) = Len(s) - 1
      /\ \A k \in 1..Len(Tail(s)) : Tail(s)[k] = s[k + 1]
  BY HeadTailProperties
<1>2. Len(s) \in Nat \ {0} /\ Head(s) = s[1]
  BY EmptySeq
<1> DEFINE t == <<Head(s)>> \o Tail(s)
<1>3. /\ t \in Seq(S) /\ Len(t) = Len(Tail(s)) + 1 /\ t[1] = Head(s)
      /\ \A k \in 1..Len(Tail(s)) : t[k + 1] = Tail(s)[k]
  BY <1>1, InFront
<1> HIDE DEF t
<1>4. Len(t) = Len(s)
  BY <1>1, <1>2, <1>3
<1>5. ASSUME NEW k \in 1..Len(s) PROVE t[k] = s[k]
  <2>1. CASE k = 1
    BY <1>2, <1>3, <2>1
  <2>2. CASE k # 1
    <3>1. k - 1 \in 1..Len(Tail(s)) /\ (k - 1) + 1 = k
      BY <1>1, <1>2, <2>2
    <3> QED
      BY <1>1, <1>3, <3>1
  <2> QED
    BY <2>1, <2>2
<1>6. t = s
  BY <1>3, <1>4, <1>5, SeqEqual
<1> QED
  BY <1>6 DEF t

(* The queue, and its front.                                               *)
LEMMA QueueFacts ==
    ASSUME TypeOK
    PROVE  /\ Queue \in Seq(Responses) /\ Len(Queue) = Queued
           /\ HasFront => Queue = <<Front>> \o RestOfChan
<1>1. chan \in Seq(Responses) /\ Len(chan) \in Nat
  BY DEF TypeOK
<1>2. CASE peeked = None
  <2>1. chan # <<>> => <<Head(chan)>> \o Tail(chan) = chan
    BY <1>1, HeadFirst
  <2> QED
    BY <1>1, <1>2, <2>1 DEF Queue, Queued, HasFront, Front, RestOfChan
<1>3. CASE peeked # None
  <2>1. peeked \in Responses
    BY <1>3 DEF TypeOK
  <2>2. <<peeked>> \o chan \in Seq(Responses) /\ Len(<<peeked>> \o chan) = Len(chan) + 1
    BY <1>1, <2>1, InFront
  <2> QED
    BY <1>3, <2>2 DEF Queue, Queued, HasFront, Front, RestOfChan
<1> QED
  BY <1>2, <1>3

(* Receiving takes the first response of the queue, peeking changes        *)
(* nothing, and a response that arrives is the last.                       *)
LEMMA TakeIsTail ==
    ASSUME TypeOK, TakeFront
    PROVE  Queue # <<>> /\ Queue' = Tail(Queue) /\ taken' = taken + 1
<1>1. /\ Front \in Responses /\ RestOfChan \in Seq(Responses)
      /\ Queue = <<Front>> \o RestOfChan
  BY FrontFacts, QueueFacts DEF TakeFront
<1>2. Queue # <<>> /\ Tail(Queue) = RestOfChan
  BY <1>1, InFront
<1>3. Queue' = RestOfChan
  BY DEF TakeFront, Queue
<1> QED
  BY <1>2, <1>3 DEF TakeFront

LEMMA LeaveIsNothing == ASSUME TypeOK, LeaveFront PROVE Queue' = Queue /\ taken' = taken
<1>1. Front \in Responses /\ Queue = <<Front>> \o RestOfChan
  BY FrontFacts, QueueFacts DEF LeaveFront
<1>2. peeked' = Front /\ chan' = RestOfChan /\ Front # None
  BY <1>1 DEF LeaveFront, Responses, None
<1> QED
  BY <1>1, <1>2 DEF Queue, LeaveFront

LEMMA EnqueueIsAppend ==
    ASSUME TypeOK, NEW r \in Responses, Enqueue(r)
    PROVE  Queue' = Append(Queue, r) /\ Len(Queue) < Cap + 1
<1>1. /\ chan \in Seq(Responses) /\ Len(chan) \in Nat /\ Len(chan) < Cap /\ Cap \in Nat
      /\ chan' = Append(chan, r) /\ peeked' = peeked
  BY BoundAssumption DEF TypeOK, Enqueue
<1>2. Len(Queue) < Cap + 1
  BY <1>1, QueueFacts DEF Queued
<1>3. CASE peeked = None
  BY <1>1, <1>2, <1>3 DEF Queue
<1>4. CASE peeked # None
  <2> DEFINE one == <<peeked>>
  <2>1. one \in Seq(Responses)
    BY <1>4 DEF TypeOK
  <2> HIDE DEF one
  <2>2. one \o Append(chan, r) = Append(one \o chan, r)
    BY <1>1, <2>1
  <2>3. Queue' = one \o Append(chan, r) /\ Queue = one \o chan
    BY <1>1, <1>4 DEF Queue, one
  <2> QED
    BY <1>2, <2>2, <2>3
<1> QED
  BY <1>3, <1>4

(* Only what is looked up, and so registered, has a delivery task.         *)
LEMMA UnsentStep == IInv /\ Unsent /\ [Next]_vars => Unsent'
<1> SUFFICES ASSUME IInv, Unsent, [Next]_vars, tu' \in {"new", "sent"}
             PROVE  \A r \in Responses : pending'[r] = 0
  BY DEF Unsent
<1> USE DEF netVars
<1>1. ASSUME NEW r \in Responses, Lookup(r) PROVE pending' = pending /\ tu' = tu
  <2>1. tu' = tu
    BY <1>1 DEF Lookup
  <2>2. ~entry
    BY <2>1 DEF IInv, Link, EntryWhileAlive, Alive
  <2> QED
    BY <1>1, <2>1, <2>2 DEF Lookup
<1>2. ASSUME NEW r \in Responses, Enqueue(r) \/ Discard(r) PROVE FALSE
  <2>1. tu' = tu /\ pending[r] > 0
    BY <1>2 DEF Enqueue, Discard
  <2> QED
    BY <2>1 DEF Unsent
<1>3. CASE Send \/ Register \/ TuCalls \/ TuReturns \/ SendAck
  <2>1. pending' = pending
    BY <1>3 DEF Send, Register, TuCalls, CallProvisional, CallFinal, CallFinalPanics,
         CancelProvisional, TuDrop, TuReturns, ProvReturns, FinalEnds, FinalToAck,
         FinalCompletes, FinalRefused, Retransmit, WaitTimesOut, SendAck
  <2>2. tu \in {"new", "sent"}
    BY <1>3 DEF Send, Register, TuCalls, CallProvisional, CallFinal, CallFinalPanics,
         CancelProvisional, TuDrop, TuReturns, ProvReturns, FinalEnds, FinalToAck,
         FinalCompletes, FinalRefused, Retransmit, WaitTimesOut, SendAck
  <2> QED
    BY <2>1, <2>2 DEF Unsent
<1>4. CASE LingerNext \/ Tick \/ Finished \/ UNCHANGED vars
  <2>1. pending' = pending /\ tu' = tu
    BY <1>4 DEF LingerNext, LingerReceives, LingerEnds, Tick, Finished, vars
  <2> QED
    BY <2>1 DEF Unsent
<1> QED
  BY <1>1, <1>2, <1>3, <1>4 DEF Next, Deliver, Unsent

(* A step of the transaction that leaves the queue alone leaves the mailbox *)
(* alone, but that it may close it.                                         *)
Apart == UNCHANGED <<pending, chan, peeked, delivered, taken>>

LEMMA ApartStep ==
    ASSUME Apart, HasReceiver' => HasReceiver
    PROVE  Box!Close \/ UNCHANGED <<pending, Queue, delivered, taken, HasReceiver>>
<1>1. UNCHANGED <<pending, Queue, delivered, taken>>
  BY DEF Apart, Queue
<1>2. HasReceiver \in BOOLEAN /\ HasReceiver' \in BOOLEAN
  BY DEF HasReceiver, Alive
<1>3. CASE HasReceiver /\ ~HasReceiver'
  <2>1. HasReceiver' = FALSE
    BY <1>3 DEF HasReceiver, Alive
  <2> QED
    BY <1>1, <1>3, <2>1 DEF Box!Close
<1>4. CASE HasReceiver = HasReceiver'
  BY <1>1, <1>4
<1> QED
  BY <1>2, <1>3, <1>4

(* It begins as a mailbox does.                                            *)
LEMMA BoxInit == Init => Box!Init
BY DEF Init, Box!Init, Queue, HasReceiver

(* Every step of the transaction is one of the mailbox, or none.           *)
LEMMA BoxStep ==
    IInv /\ Unsent /\ [Next]_vars
      => [Box!Next]_<<pending, Queue, delivered, taken, HasReceiver>>
<1> SUFFICES ASSUME IInv, Unsent, [Next]_vars
             PROVE  Box!Next \/ UNCHANGED <<pending, Queue, delivered, taken, HasReceiver>>
  OBVIOUS
<1> USE DEF netVars, queueVars
<1>type. TypeOK /\ Link
  BY DEF IInv
<1>1. ASSUME NEW r \in Responses, Lookup(r)
      PROVE  Box!Send(r) \/ UNCHANGED <<pending, Queue, delivered, taken, HasReceiver>>
  <2>1. UNCHANGED <<Queue, delivered, taken, HasReceiver>>
    BY <1>1 DEF Lookup, Queue, HasReceiver, Alive
  <2> QED
    BY <1>1, <2>1 DEF Lookup, Box!Send
<1>2. ASSUME NEW r \in Responses, Enqueue(r) PROVE Box!Accept(r)
  <2>1. Queue' = Append(Queue, r) /\ Len(Queue) < Cap + 1
    BY <1>2, <1>type, EnqueueIsAppend
  <2>2. HasReceiver /\ HasReceiver' = HasReceiver
    BY <1>2 DEF Enqueue, HasReceiver, Alive
  <2> QED
    BY <1>2, <2>1, <2>2 DEF Enqueue, Box!Accept
<1>3. ASSUME NEW r \in Responses, Discard(r) PROVE Box!Refuse(r)
  <2>1. ~HasReceiver
    BY <1>3 DEF Discard, HasReceiver, Unsent
  <2>2. UNCHANGED <<Queue, delivered, taken, HasReceiver>>
    BY <1>3 DEF Discard, Queue, HasReceiver, Alive
  <2> QED
    BY <1>3, <2>1, <2>2 DEF Discard, Box!Refuse
<1>4. CASE \/ Send \/ Register \/ TuCalls \/ SendAck \/ Retransmit \/ WaitTimesOut
           \/ LingerEnds \/ Tick \/ Finished \/ UNCHANGED vars
  <2>1. Apart
    BY <1>4 DEF Apart, Send, Register, TuCalls, CallProvisional, CallFinal, CallFinalPanics,
         CancelProvisional, TuDrop, SendAck, Retransmit, WaitTimesOut, LingerEnds, Tick,
         Finished, vars
  <2>2. HasReceiver' => HasReceiver
    BY <1>4, <1>type DEF Link, HasReceiver, Alive, Send, Register, TuCalls, CallProvisional,
         CallFinal, CallFinalPanics, CancelProvisional, TuDrop, SendAck, Retransmit,
         WaitTimesOut, LingerEnds, Tick, Finished, vars
  <2> QED
    BY <2>1, <2>2, ApartStep DEF Box!Next
<1>5. ASSUME TakeFront, delivered' = delivered, pending' = pending, HasReceiver
      PROVE  Box!Take
  <2>1. Queue # <<>> /\ Queue' = Tail(Queue) /\ taken' = taken + 1
    BY <1>5, <1>type, TakeIsTail
  <2>2. HasReceiver' \in BOOLEAN
    BY DEF HasReceiver, Alive
  <2> QED
    BY <1>5, <2>1, <2>2 DEF Box!Take
<1>6. ASSUME LeaveFront, delivered' = delivered, pending' = pending, HasReceiver
      PROVE  Box!Close \/ UNCHANGED <<pending, Queue, delivered, taken, HasReceiver>>
  <2>1. UNCHANGED <<pending, Queue, delivered, taken>>
    BY <1>6, <1>type, LeaveIsNothing
  <2>2. HasReceiver \in BOOLEAN /\ HasReceiver' \in BOOLEAN
    BY DEF HasReceiver, Alive
  <2>3. CASE ~HasReceiver'
    <3>1. HasReceiver' = FALSE
      BY <2>3 DEF HasReceiver, Alive
    <3> QED
      BY <1>6, <2>1, <3>1 DEF Box!Close
  <2>4. CASE HasReceiver' = HasReceiver
    BY <2>1, <2>4
  <2> QED
    BY <1>6, <2>2, <2>3, <2>4
<1>7. CASE ProvReturns \/ FinalEnds \/ FinalToAck \/ FinalCompletes \/ FinalRefused
           \/ LingerReceives
  <2>1. HasReceiver /\ delivered' = delivered /\ pending' = pending
    BY <1>7 DEF HasReceiver, Alive, ProvReturns, FinalEnds, FinalToAck, FinalCompletes,
         FinalRefused, LingerReceives
  <2>2. TakeFront \/ LeaveFront
    BY <1>7 DEF ProvReturns, FinalEnds, FinalToAck, FinalCompletes, FinalRefused,
         LingerReceives
  <2> QED
    BY <1>5, <1>6, <2>1, <2>2 DEF Box!Next
<1> QED
  BY <1>1, <1>2, <1>3, <1>4, <1>7 DEF Next, Deliver, TuReturns, LingerNext, Box!Next

(* The channel of a client transaction and the PeekableReceiver in front of *)
(* it are a mailbox, whatever the TU cancels and however its calls          *)
(* alternate: nothing is lost, returned twice or out of its turn.           *)
THEOREM ImplementsMailbox == Spec => ReceivedInOrder
<1>1. Init => Unsent
  BY DEF Init, Unsent
<1>2. Spec => [](IInv /\ Unsent)
  BY <1>1, InitInv, StepInv, UnsentStep, PTL DEF Spec
<1> QED
  BY <1>2, BoxInit, BoxStep, PTL DEF Spec, ReceivedInOrder, Box!Spec
=============================================================================
