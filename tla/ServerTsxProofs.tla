--------------------------- MODULE ServerTsxProofs ---------------------------
(***************************************************************************)
(* What holds of a server transaction for every number of messages and     *)
(* responses, every channel capacity and every timer value.  The inductive *)
(* invariant adds to the properties of ServerTsx in which phases of the TU *)
(* the two tasks can be (Link).                                            *)
(***************************************************************************)
EXTENDS ServerTsx, SequenceTheorems, TLAPS

Link ==
    /\ task # "off" => tu = "gone" /\ prov \in {"off", "done"}
    /\ task = "done" => rx = "dropped"
    /\ notified => tu \in {"join", "gone"}
    /\ prov = "done" => notified
    /\ prov = "off" => /\ rx # "handle"
                       /\ tuQ = <<>>
                       /\ tu = "idle" => nprov = 0
                       /\ tu = "prov" => nprov = 1
    /\ tu = "prov" => nprov >= 1
    /\ rx = "tsx" => prov = "off" /\ tu # "gone"
    /\ tu # "gone" \/ TaskRunning => entry # "none"

IInv == TypeOK /\ ReceiverOwned /\ ProvisionalsInOrder /\ Link

LEMMA InitInv == Init => IInv
<1> SUFFICES ASSUME Init PROVE IInv
  OBVIOUS
<1> USE DEF Init
<1>1. TypeOK
  <2>1. invite \in BOOLEAN /\ reliable \in BOOLEAN
    BY SubsetAssumption
  <2>2. chan \in Seq(Msgs) /\ tuQ \in Seq(1 .. MaxProv)
    BY EmptySeq
  <2>3. Len(chan) <= Cap
    BY BoundAssumption
  <2>4. state \in States
    BY <2>1 DEF States
  <2>5. pending \in [Msgs -> Nat] /\ budget \in 0 .. MaxMsgs
    BY BoundAssumption
  <2>6. nprov \in 0 .. MaxProv /\ provResp \in 0 .. MaxProv /\ lastSent \in 0 .. Final
    BY BoundAssumption DEF Final
  <2>7. /\ entry \in {"ours", "other", "removed", "none"} /\ rx = "tsx" /\ tu = "idle"
        /\ prov = "off" /\ task = "off" /\ final \in FinalClasses \cup {"none"}
        /\ notified \in BOOLEAN
        /\ deadline \in Nat /\ retrans \in Nat /\ interval \in Nat
    OBVIOUS
  <2> HIDE DEF Init
  <2> QED
    BY <2>1, <2>2, <2>3, <2>4, <2>5, <2>6, <2>7 DEF TypeOK
<1>2. ReceiverOwned /\ ProvisionalsInOrder /\ Link
  BY DEF ReceiverOwned, ProvisionalsInOrder, Link, ProvRunning, TaskRunning
<1> QED
  BY <1>1, <1>2 DEF IInv

(* Handing a response to the running provisional task appends it in order. *)
LEMMA PassKeepsOrder ==
    ASSUME TypeOK, ProvisionalsInOrder, Link, tu = "prov", PassProvisional
    PROVE  /\ tuQ' \in Seq(1 .. MaxProv)
           /\ provResp + Len(tuQ') = nprov
           /\ \A i \in 1 .. Len(tuQ') : tuQ'[i] = provResp + i
<1>1. nprov \in 1 .. MaxProv /\ tuQ \in Seq(1 .. MaxProv) /\ provResp \in Nat
  BY BoundAssumption DEF TypeOK, Link
<1>2. /\ tuQ' \in Seq(1 .. MaxProv) /\ Len(tuQ') = Len(tuQ) + 1
      /\ \A i \in 1 .. Len(tuQ) : tuQ'[i] = tuQ[i]
      /\ tuQ'[Len(tuQ) + 1] = nprov
  BY <1>1, AppendProperties DEF PassProvisional
<1>3. /\ provResp + Len(tuQ) = nprov - 1
      /\ \A i \in 1 .. Len(tuQ) : tuQ[i] = provResp + i
  BY DEF ProvisionalsInOrder, PassProvisional
<1>4. Len(tuQ) \in Nat
  BY <1>1
<1> QED
  BY <1>1, <1>2, <1>3, <1>4

(* Taking the next response from the queue keeps what is left in order.    *)
LEMMA TakeKeepsOrder ==
    ASSUME TypeOK, ProvisionalsInOrder, ProvPollTu, tuQ # <<>>
    PROVE  /\ provResp' = provResp + 1 /\ provResp' \in 1 .. MaxProv
           /\ tuQ' \in Seq(1 .. MaxProv) /\ Len(tuQ') = Len(tuQ) - 1
           /\ \A i \in 1 .. Len(tuQ') : tuQ'[i] = provResp' + i
<1>1. provResp \in Nat /\ tuQ \in Seq(1 .. MaxProv) /\ MaxProv \in Nat
  BY BoundAssumption DEF TypeOK
<1>2. /\ Head(tuQ) \in 1 .. MaxProv /\ Tail(tuQ) \in Seq(1 .. MaxProv)
      /\ Len(Tail(tuQ)) = Len(tuQ) - 1
      /\ \A i \in 1 .. Len(Tail(tuQ)) : Tail(tuQ)[i] = tuQ[i + 1]
  BY <1>1, HeadTailProperties
<1>3. Len(tuQ) \in Nat \ {0} /\ Head(tuQ) = tuQ[1]
  BY <1>1, EmptySeq
<1>4. \A i \in 1 .. Len(tuQ) : tuQ[i] = provResp + i
  BY DEF ProvisionalsInOrder, ProvPollTu
<1>5. provResp' = Head(tuQ) /\ tuQ' = Tail(tuQ)
  BY DEF ProvPollTu
<1>6. \A i \in 1 .. Len(tuQ) - 1 : i + 1 \in 1 .. Len(tuQ)
  BY <1>3
<1> QED
  BY <1>1, <1>2, <1>3, <1>4, <1>5, <1>6

(* A task that takes a message leaves a well-formed channel behind.        *)
LEMMA TakeFromChannel ==
    ASSUME TypeOK, chan # <<>>
    PROVE  Tail(chan) \in Seq(Msgs) /\ Len(Tail(chan)) <= Cap
<1>1. chan \in Seq(Msgs) /\ Len(chan) <= Cap /\ Cap \in Nat
  BY BoundAssumption DEF TypeOK
<1>2. Tail(chan) \in Seq(Msgs) /\ Len(Tail(chan)) = Len(chan) - 1
  BY <1>1, HeadTailProperties
<1> QED
  BY <1>1, <1>2, EmptySeq

LEMMA StepInv == IInv /\ [Next]_vars => IInv'
<1> SUFFICES ASSUME IInv, [Next]_vars PROVE IInv'
  OBVIOUS
<1> USE SubsetAssumption, TimerAssumption, BoundAssumption
    DEF IInv, TypeOK, ReceiverOwned, ProvisionalsInOrder, Link, Msgs, States, ProvRunning,
       TaskRunning, FinalClasses, Final,
    cfgVars, netVars, tuVars, provVars, taskVars
<1>1. ASSUME NEW m \in Msgs, Lookup(m) PROVE IInv'
  BY <1>1 DEF Lookup
<1>2. ASSUME NEW m \in Msgs, Enqueue(m) PROVE IInv'
  BY <1>2 DEF Enqueue
<1>3. ASSUME NEW m \in Msgs, DeliveryPanics(m) PROVE IInv'
  BY <1>3 DEF DeliveryPanics
<1>4. CASE Supersede
  BY <1>4 DEF Supersede
<1>5. CASE SendProvisional
  BY <1>5 DEF SendProvisional
<1>6. CASE HandProvisional
  <2>1. CASE SpawnProvisional
    BY <1>6, <2>1 DEF HandProvisional, SpawnProvisional
  <2>2. CASE PassProvisional
    <3>1. /\ tuQ' \in Seq(1 .. MaxProv)
          /\ provResp + Len(tuQ') = nprov
          /\ \A i \in 1 .. Len(tuQ') : tuQ'[i] = provResp + i
      BY <1>6, <2>2, PassKeepsOrder DEF HandProvisional
    <3> QED
      BY <1>6, <2>2, <3>1 DEF HandProvisional, PassProvisional
  <2> QED
    BY <1>6, <2>1, <2>2 DEF HandProvisional
<1>7. ASSUME NEW class \in FinalClasses, SendFinal(class) PROVE IInv'
  BY <1>7 DEF SendFinal
<1>8. CASE TerminateAtOnce
  BY <1>8 DEF TerminateAtOnce, ReleaseParts, Unregister
<1>9. CASE Complete
  BY <1>9 DEF Complete, TimerHJ, T64
<1>10. CASE HandOver
  BY <1>10 DEF HandOver, ReceiverReady
<1>11. CASE TuDrop
  BY <1>11 DEF TuDrop, ReleaseParts, Unregister
<1>12. CASE ProvPollState
  BY <1>12 DEF ProvPollState
<1>13. CASE ProvPollTu
  <2>1. CASE tuQ # <<>>
    <3>1. /\ provResp' = provResp + 1 /\ provResp' \in 1 .. MaxProv
          /\ tuQ' \in Seq(1 .. MaxProv) /\ Len(tuQ') = Len(tuQ) - 1
          /\ \A i \in 1 .. Len(tuQ') : tuQ'[i] = provResp' + i
      BY <1>13, <2>1, TakeKeepsOrder
    <3>2. /\ prov = "tu" /\ prov' = "state"
          /\ UNCHANGED <<invite, reliable, state, entry, pending, chan, budget, rx,
                         tu, nprov, final, notified, task, deadline, retrans,
                         interval, lastSent>>
      BY <1>13, <2>1 DEF ProvPollTu
    <3>3. TypeOK'
      BY <3>1, <3>2
    <3>4. ProvisionalsInOrder'
      <4>1. Len(tuQ) \in Nat /\ provResp \in Nat /\ nprov \in Nat
        OBVIOUS
      <4>2. provResp + Len(tuQ) = IF tu = "prov" THEN nprov - 1 ELSE nprov
        BY <3>2
      <4>3. provResp' + Len(tuQ') = provResp + Len(tuQ)
        BY <3>1, <4>1
      <4> QED
        BY <3>1, <3>2, <4>2, <4>3
    <3>5. ReceiverOwned' /\ Link'
      BY <3>1, <3>2
    <3> QED
      BY <3>3, <3>4, <3>5
  <2>2. CASE tuQ = <<>>
    BY <1>13, <2>2 DEF ProvPollTu
  <2> QED
    BY <2>1, <2>2
<1>14. CASE ProvPollMsg
  <2>1. CASE chan # <<>>
    <3>1. chan' \in Seq(Msgs) /\ Len(chan') <= Cap
      BY <1>14, <2>1, TakeFromChannel DEF ProvPollMsg
    <3> QED
      BY <1>14, <2>1, <3>1 DEF ProvPollMsg
  <2>2. CASE chan = <<>>
    BY <1>14, <2>2 DEF ProvPollMsg
  <2> QED
    BY <2>1, <2>2
<1>15. CASE ProvSend
  BY <1>15 DEF ProvSend
<1>16. CASE FinAck
  BY <1>16 DEF FinAck
<1>17. CASE FinRequest
  BY <1>17 DEF FinRequest
<1>18. CASE FinTimerG
  BY <1>18 DEF FinTimerG, Smaller
<1>19. CASE FinResend
  BY <1>19 DEF FinResend
<1>20. CASE FinTimeout
  BY <1>20 DEF FinTimeout, EndTask, Unregister
<1>21. CASE FinClosed
  BY <1>21 DEF FinClosed, Closed, EndTask, Unregister
<1>22. CASE FinConfirmedOver
  BY <1>22 DEF FinConfirmedOver, EndTask, Unregister
<1>23. CASE Tick
  BY <1>23 DEF Tick, Dec
<1>24. CASE Finished
  BY <1>24 DEF Finished, vars
<1>25. CASE UNCHANGED vars
  BY <1>25 DEF vars
<1> QED
  BY <1>1, <1>2, <1>3, <1>4, <1>5, <1>6, <1>7, <1>8, <1>9, <1>10, <1>11, <1>12, <1>13,
     <1>14, <1>15, <1>16, <1>17, <1>18, <1>19, <1>20, <1>21, <1>22, <1>23, <1>24, <1>25
     DEF Next, Deliver, TuNext, ProvNext, FinNext

(* ServerTransaction has well-typed state in every reachable state.        *)
THEOREM TypeCorrect == Spec => []TypeOK
<1>1. IInv => TypeOK
  BY DEF IInv
<1> QED
  BY InitInv, StepInv, <1>1, PTL DEF Spec

(* The Receiver has one owner, and each expect(CHANNEL_RECV_BUG) of        *)
(* server.rs finds it in the transaction.                                  *)
THEOREM OneReceiver == Spec => []ReceiverOwned
<1>1. IInv => ReceiverOwned
  BY DEF IInv
<1> QED
  BY InitInv, StepInv, <1>1, PTL DEF Spec

(* send_provisional_response never finds its task gone (server.rs:123).    *)
THEOREM TaskServes == Spec => []ProvisionalTaskServes
<1>1. IInv => ProvisionalTaskServes
  BY DEF IInv, Link, ProvisionalTaskServes
<1> QED
  BY InitInv, StepInv, <1>1, PTL DEF Spec

(* However many provisional responses the TU sends, the provisional task   *)
(* takes each of them over, in order.                                      *)
THEOREM InOrder == Spec => []ProvisionalsInOrder
<1>1. IInv => ProvisionalsInOrder
  BY DEF IInv
<1> QED
  BY InitInv, StepInv, <1>1, PTL DEF Spec

(* After the hand-over to the final task (server.rs:184-188) only the      *)
(* final response is sent.                                                 *)
THEOREM OnlyFinal == Spec => FinalTaskOnlyFinal
<1>1. IInv /\ [Next]_vars => [task # "off" => lastSent' \in {lastSent, Final}]_vars
  <2> SUFFICES ASSUME IInv, Next, task # "off"
               PROVE  lastSent' \in {lastSent, Final}
    OBVIOUS
  <2>1. tu = "gone" /\ prov \in {"off", "done"}
    BY DEF IInv, Link
  <2>2. CASE Deliver \/ Supersede \/ Tick \/ Finished
    BY <2>2 DEF Deliver, Lookup, Enqueue, DeliveryPanics, Supersede, Tick,
                Finished, vars
  <2>3. CASE TuNext
    BY <2>1, <2>3 DEF TuNext, SendProvisional, HandProvisional, SendFinal,
                      TerminateAtOnce, Complete, HandOver, TuDrop
  <2>4. CASE ProvNext
    BY <2>1, <2>4 DEF ProvNext, ProvPollState, ProvPollTu, ProvPollMsg, ProvSend
  <2>5. CASE FinNext
    BY <2>5 DEF FinNext, FinAck, FinRequest, FinTimerG, FinResend, FinTimeout,
                FinClosed, FinConfirmedOver, EndTask
  <2> QED
    BY <2>2, <2>3, <2>4, <2>5 DEF Next
<1> QED
  BY InitInv, StepInv, <1>1, PTL DEF Spec, FinalTaskOnlyFinal

(* Unless a second transaction has the same key, the final task ends in    *)
(* Terminated: its channel is never closed while it waits (server.rs:219). *)
THEOREM Terminates == Spec => EndsTerminated
<1>1. IInv /\ [Next]_vars
        => [task # "done" /\ task' = "done"
              => state' = "Terminated" \/ entry \in {"other", "removed"}]_vars
  <2> SUFFICES ASSUME IInv, Next, task # "done", task' = "done"
               PROVE  state' = "Terminated" \/ entry \in {"other", "removed"}
    OBVIOUS
  <2>1. CASE Deliver \/ Supersede \/ Tick \/ Finished \/ TuNext \/ ProvNext
    BY <2>1 DEF Deliver, Lookup, Enqueue, DeliveryPanics, Supersede, Tick, Finished,
                vars, TuNext, SendProvisional, HandProvisional, SpawnProvisional,
                PassProvisional, SendFinal, TerminateAtOnce, Complete, HandOver,
                TuDrop, ProvNext, ProvPollState, ProvPollTu, ProvPollMsg, ProvSend,
                taskVars
  <2>2. CASE FinNext
    <3>1. CASE FinClosed
      <4>1. entry \in {"ours", "other", "removed", "none"} /\ entry # "none"
        BY <3>1 DEF IInv, TypeOK, Link, FinClosed, TaskRunning
      <4> QED
        BY <3>1, <4>1 DEF FinClosed, Closed
    <3>2. CASE FinTimeout \/ FinConfirmedOver
      BY <3>2 DEF FinTimeout, FinConfirmedOver
    <3>3. CASE FinAck \/ FinRequest \/ FinTimerG \/ FinResend
      BY <3>3 DEF FinAck, FinRequest, FinTimerG, FinResend
    <3> QED
      BY <2>2, <3>1, <3>2, <3>3 DEF FinNext
  <2> QED
    BY <2>1, <2>2 DEF Next
<1> QED
  BY InitInv, StepInv, <1>1, PTL DEF Spec, EndsTerminated
=============================================================================
