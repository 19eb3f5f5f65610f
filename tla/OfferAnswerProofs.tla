-------------------------- MODULE OfferAnswerProofs --------------------------
(***************************************************************************)
(* What holds of the offer and the answer for every set of parameters,     *)
(* offers and circumstances.  A session whose messages could be sent and   *)
(* received comes to its media exactly when the two descriptions can be    *)
(* negotiated (CallInv).  Two endpoints of     *)
(* rssip: what they write is not taken in (Untaken), so that neither       *)
(* negotiator gets an answer.  The direction of an answer: the table of    *)
(* create_answer.  The streams of an answer, and which descriptions can be *)
(* displayed and read again: negotiators have descriptions, and messages   *)
(* texts (TextsInv).                                                       *)
(***************************************************************************)
EXTENDS OfferAnswer, SdpProofs, TLAPS

(* What the two sides have come to is what their messages and circumstances *)
(* say.  The messages first: one of each kind is ever written, in an order  *)
(* that the states of the two sides show.                                   *)
Written(kind) == kind \in DOMAIN sent
MessagesOnce ==
    /\ \A m \in wire : Written(m.kind) /\ sent[m.kind] = m
    /\ \A kind \in DOMAIN sent : sent[kind].kind = kind
    /\ Written("INVITE") => sent["INVITE"].typed = TRUE
OneByOne ==
    /\ caller.at = "idle" => ~Written("INVITE")
    /\ ~Written("INVITE") => callee.at = "idle" /\ caller.at \in {"idle", "failed"}
    /\ callee.at \in {"idle", "incoming"} => ~Written("2xx") /\ ~Written("refusal")
    /\ Written("refusal") => ~Written("2xx")
    /\ Written("ACK") => Written("2xx") /\ caller.at # "calling"

(* The caller of rssip: what it has offered while it waits, and how it ends. *)
Ends == {"media", "error", "panic"}
CallerConnects ==
    caller.at = "media" <=>
        LET m == sent["2xx"] IN
        IF Given(call.offer) THEN CanTakeAnswer(caller.n, m)
        ELSE Given(call.late) /\ Kept(m) /\ CanAnswer(call.late, m)
CallerInv ==
    Is(1, "rssip") =>
        /\ caller.at \in {"idle", "calling", "failed"} \cup Ends
        /\ caller.at = "calling" =>
             caller.n = IF Given(call.offer) THEN OfferLocal(Fresh, call.offer).n ELSE Fresh
        /\ caller.at \in Ends =>
             IF Written("2xx") THEN CallerConnects
             ELSE caller.at # "media" /\ Written("refusal")

(* The callee of rssip: with an offer in the INVITE, and without.            *)
CalleeWithOffer ==
    LET m == sent["INVITE"] IN
    /\ callee.at = "incoming" => Parse(m.body) # {} /\ callee.n = SetRemote(Fresh, Parsed(m.body)).n
    /\ callee.at = "waiting" => callee.n.state = "Done" /\ CanAnswer(call.accept, m)
    /\ callee.at \in Ends => (callee.at = "media" <=> CanAnswer(call.accept, m))
CalleeOffers ==
    /\ callee.at = "incoming" => callee.n = Fresh
    /\ callee.at = "waiting" => callee.n = OfferLocal(Fresh, call.accept).n
    /\ callee.at \in Ends =>
         Written("ACK") /\ (callee.at = "media" <=> CanTakeAnswer(callee.n, sent["ACK"]))
CalleeInv ==
    Is(2, "rssip") =>
        /\ callee.at \in {"idle", "incoming", "waiting", "failed"} \cup Ends
        /\ callee.at = "idle" => callee.n = Fresh
        /\ callee.at # "idle" => IF Bodied(sent["INVITE"]) THEN CalleeWithOffer ELSE CalleeOffers

CallInv == MessagesOnce /\ OneByOne /\ CallerInv /\ CalleeInv

(* The messages of both kinds of endpoints. *)
LEMMA Headers ==
    /\ \A text : Invite(text).kind = "INVITE" /\ Invite(text).typed = TRUE /\ Invite(text).body = text
    /\ \A text, typed : Final(text, typed).kind = "2xx"
    /\ \A text, typed, whole : Ack(text, typed, whole).kind = "ACK"
    /\ Msg("refusal", NoBody, FALSE).kind = "refusal"
BY DEF Invite, Final, Ack, Msg, Put

(* The step writes x, which is the first message of its kind.               *)
Writes(kind, x) ==
    /\ x.kind = kind /\ ~Written(kind)
    /\ wire' \subseteq wire \cup {x}
    /\ DOMAIN sent' = DOMAIN sent \cup {kind}
    /\ sent'[kind] = x /\ \A k \in DOMAIN sent : sent'[k] = sent[k]
(* Emit writes. *)
LEMMA EmitWrites ==
    ASSUME NEW gone, NEW x, NEW kind, x.kind = kind, ~Written(kind), Emit(gone, x)
    PROVE  Writes(kind, x)
BY DEF Emit, Put, Writes, Written
(* A message taken in or lost, and a first message of a kind, change nothing. *)
LEMMA DiscardKeeps ==
    ASSUME MessagesOnce, wire' \subseteq wire, sent' = sent PROVE MessagesOnce'
BY DEF MessagesOnce, Written
LEMMA OneKeeps ==
    ASSUME MessagesOnce, NEW x, NEW kind, Writes(kind, x), kind = "INVITE" => x.typed = TRUE
    PROVE  MessagesOnce'
BY DEF MessagesOnce, Writes, Written

(* How an operation of a negotiator may end. *)
Hows == {"ok", "error", "panic"}
LEMMA HowTheyEnd ==
    /\ \A n, m : Take2xx(n, m).how \in Hows /\ TakeAck(n, m).how \in Hows
    /\ \A n : Accepted(n).how \in Hows
<1>1. \A how, n : Ended(how, n).how = how
  BY DEF Ended
<1>2. \A n, sd : ProcessAnswer(n, sd).how \in Hows /\ CreateAnswer(n).how \in Hows
  BY <1>1 DEF ProcessAnswer, CreateAnswer, Hows
<1>3. \A n, m : Take2xx(n, m).how \in Hows /\ TakeAck(n, m).how \in Hows
  BY <1>1, <1>2 DEF Take2xx, TakeBody, TakeAck, Hows
<1>4. \A n : Accepted(n).how \in Hows
  BY <1>1, <1>2 DEF Accepted, Hows
<1> QED
  BY <1>3, <1>4

(* How receive_answer and accept end, and what they send. *)
LEMMA ReceiveEnds ==
    ASSUME NEW m, ReceiveAnswer(m), NEW r, r = Take2xx(caller.n, m)
    PROVE  /\ Is(1, "rssip") /\ caller.at = "calling" /\ UNCHANGED <<call, callee>>
           /\ caller'.n = r.n
           /\ \/ caller'.at = IF r.how # "ok" THEN r.how ELSE IF "answer" \in DOMAIN r.n THEN "media" ELSE "panic"
              \/ caller'.at = "failed"
<1>1. /\ Is(1, "rssip") /\ caller.at = "calling" /\ UNCHANGED <<call, callee>>
      /\ \/ r.how # "ok" /\ caller' = [at |-> r.how, n |-> r.n]
         \/ r.how = "ok" /\ caller' = [at |-> IF "answer" \in DOMAIN r.n THEN "media" ELSE "panic", n |-> r.n]
         \/ r.how = "ok" /\ caller' = [at |-> "failed", n |-> r.n]
  BY Zenon DEF ReceiveAnswer
<1> QED
  BY <1>1
LEMMA AcceptEnds ==
    ASSUME Accept, NEW r, r = Accepted(callee.n)
    PROVE  /\ Is(2, "rssip") /\ callee.at = "incoming" /\ UNCHANGED <<call, caller>>
           /\ callee'.n = r.n
           /\ callee'.at = (IF r.how = "ok" THEN "waiting" ELSE r.how) \/ callee'.at = "failed"
<1>1. /\ Is(2, "rssip") /\ callee.at = "incoming" /\ UNCHANGED <<call, caller>>
      /\ \/ r.how # "ok" /\ callee' = [at |-> r.how, n |-> r.n]
         \/ r.how = "ok" /\ callee' = [at |-> "waiting", n |-> r.n]
         \/ r.how = "ok" /\ callee' = [at |-> "failed", n |-> r.n]
  BY Zenon DEF Accept
<1> QED
  BY <1>1

(* Nothing has been said yet. *)
LEMMA CallInit == Init => CallInv
BY DEF Init, CallInv, MessagesOnce, OneByOne, CallerInv, CalleeInv, Written, Ends, Is

(* A step of the caller that writes an INVITE, an ACK, or nothing.          *)
LEMMA InviteKeeps ==
    ASSUME MessagesOnce, OneByOne, NEW text, Emit({}, Invite(text)),
           caller.at = "idle", caller'.at = "calling", UNCHANGED callee
    PROVE  MessagesOnce' /\ OneByOne'
<1>1. Writes("INVITE", Invite(text)) /\ ~Written("ACK")
  BY EmitWrites, Headers DEF OneByOne
<1> QED
  BY <1>1, OneKeeps, Headers DEF Writes, OneByOne, Written
LEMMA AckKeeps ==
    ASSUME MessagesOnce, OneByOne, NEW m \in Arrived("2xx"), caller.at = "calling", UNCHANGED callee,
           caller'.at \in Ends \cup {"failed"},
           NEW text, NEW typed, NEW whole, Emit({m}, Ack(text, typed, whole))
    PROVE  MessagesOnce' /\ OneByOne'
<1>1. Written("2xx") /\ ~Written("ACK") /\ Written("INVITE")
  BY DEF Arrived, MessagesOnce, OneByOne
<1>2. Writes("ACK", Ack(text, typed, whole))
  BY <1>1, EmitWrites, Headers
<1> QED
  BY <1>1, <1>2, OneKeeps DEF Writes, OneByOne, Written, Ends

(* Every step: a side writes a kind of message in one state only, and leaves it. *)
LEMMA OnceStep == CallInv /\ [Next]_vars => MessagesOnce' /\ OneByOne'
<1> SUFFICES ASSUME MessagesOnce, OneByOne, [Next]_vars PROVE MessagesOnce' /\ OneByOne'
  BY DEF CallInv
<1>1. CASE SendInvite
  BY <1>1, InviteKeeps DEF SendInvite
<1>2. CASE SendInviteFails \/ NoFinalResponse \/ NoAck \/ UNCHANGED vars
  BY <1>2 DEF SendInviteFails, NoFinalResponse, NoAck, vars, MessagesOnce, OneByOne, Written
<1>3. ASSUME NEW m \in Arrived("2xx"), ReceiveAnswer(m) PROVE MessagesOnce' /\ OneByOne'
  <2>1. caller.at = "calling" /\ UNCHANGED callee
    BY <1>3 DEF ReceiveAnswer
  <2>2. caller'.at \in Ends \cup {"failed"}
    <3>1. Take2xx(caller.n, m).how \in Hows
      BY HowTheyEnd
    <3> QED
      BY <1>3, <3>1, ReceiveEnds DEF Hows, Ends
  <2>3. CASE Discard({m})
    BY <2>1, <2>2, <2>3, DiscardKeeps DEF Discard, OneByOne, MessagesOnce, Arrived, Written, Ends
  <2>4. Discard({m}) \/ \E text : Emit({m}, Ack(text, FALSE, FALSE))
    BY <1>3 DEF ReceiveAnswer
  <2> QED
    BY <2>1, <2>2, <2>3, <2>4, AckKeeps
<1>4. ASSUME NEW m \in Arrived("refusal"), ReceiveRefusal(m) PROVE MessagesOnce' /\ OneByOne'
  BY <1>4, DiscardKeeps DEF ReceiveRefusal, Discard, OneByOne, MessagesOnce, Arrived, Written
<1>5. ASSUME NEW m \in Arrived("INVITE"), FromInvite(m) PROVE MessagesOnce' /\ OneByOne'
  <2>1. Discard({m}) /\ callee.at = "idle" /\ callee'.at \in {"incoming", "error"} /\ UNCHANGED caller
    BY <1>5 DEF FromInvite
  <2> QED
    BY <2>1, DiscardKeeps DEF Discard, OneByOne, MessagesOnce, Arrived, Written
<1>6. CASE Accept
  <2>1. callee.at = "incoming" /\ callee'.at \notin {"idle", "incoming"} /\ UNCHANGED caller
    <3>1. Accepted(callee.n).how \in Hows
      BY HowTheyEnd
    <3> QED
      BY <1>6, <3>1, AcceptEnds DEF Hows
  <2>2. CASE Discard({})
    BY <2>1, <2>2, DiscardKeeps DEF Discard, OneByOne, Written
  <2>3. ASSUME NEW text, Emit({}, Final(text, FALSE)) PROVE MessagesOnce' /\ OneByOne'
    <3>1. Writes("2xx", Final(text, FALSE))
      BY <2>1, <2>3, EmitWrites, Headers DEF OneByOne
    <3> QED
      BY <2>1, <3>1, OneKeeps DEF Writes, OneByOne, Written
  <2> QED
    BY <1>6, <2>2, <2>3 DEF Accept
<1>7. ASSUME NEW m \in Arrived("ACK"), WaitForAck(m) PROVE MessagesOnce' /\ OneByOne'
  <2>1. Discard({m}) /\ callee.at = "waiting" /\ UNCHANGED caller
    BY <1>7 DEF WaitForAck
  <2>2. callee'.at \notin {"idle", "incoming"}
    BY <1>7, HowTheyEnd DEF WaitForAck, Hows
  <2> QED
    BY <2>1, <2>2, DiscardKeeps DEF Discard, OneByOne, MessagesOnce, Arrived, Written
<1>8. ASSUME NEW m \in wire, Lose(m) PROVE MessagesOnce' /\ OneByOne'
  BY <1>8, DiscardKeeps DEF Lose, Discard, OneByOne, Written
<1>9. ASSUME NEW text, OtherInvites(text) PROVE MessagesOnce' /\ OneByOne'
  BY <1>9, InviteKeeps DEF OtherInvites
<1>10. ASSUME NEW m \in Arrived("2xx"), OtherAcks(m) PROVE MessagesOnce' /\ OneByOne'
  BY <1>10, AckKeeps DEF OtherAcks, Ends
<1>11. ASSUME NEW m \in Arrived("INVITE"), OtherAnswersCall(m) PROVE MessagesOnce' /\ OneByOne'
  <2>1. PICK x \in OtherFinals(m) : Emit({m}, x)
    BY <1>11 DEF OtherAnswersCall
  <2>2. ~Written("refusal") /\ ~Written("2xx") /\ Written("INVITE")
    BY <1>11 DEF OtherAnswersCall, OneByOne, Arrived, MessagesOnce
  <2>3. PICK kind \in {"refusal", "2xx"} : x.kind = kind
    <3>1. CASE x = Msg("refusal", NoBody, FALSE)
      <4>1. Msg("refusal", NoBody, FALSE).kind = "refusal"
        BY Headers
      <4> QED
        BY <3>1, <4>1
    <3>2. CASE \E text, typed : x = Final(text, typed)
      <4>1. PICK text, typed : x = Final(text, typed)
        BY <3>2
      <4>2. Final(text, typed).kind = "2xx"
        BY Headers
      <4> QED
        BY <4>1, <4>2
    <3> QED
      BY <3>1, <3>2 DEF OtherFinals
  <2>4. Writes(kind, x)
    BY <2>1, <2>2, <2>3, EmitWrites
  <2>5. callee'.at = "media" /\ UNCHANGED caller
    BY <1>11 DEF OtherAnswersCall
  <2> QED
    BY <2>2, <2>3, <2>4, <2>5, OneKeeps DEF Writes, OneByOne, Written
<1> QED
  BY <1>1, <1>2, <1>3, <1>4, <1>5, <1>6, <1>7, <1>8, <1>9, <1>10, <1>11
     DEF Next, Caller, Callee, Other

(* What the operations of a negotiator come to.                             *)
LEMMA OfferedFacts ==
    ASSUME NEW params
    PROVE  /\ DOMAIN OfferLocal(Fresh, params).n = {"state", "local"}
           /\ OfferLocal(Fresh, params).n.state = "LocalOffer"
           /\ OfferLocal(Fresh, params).n.local = CreateOffer(params)
<1>1. OfferLocal(Fresh, params) = SetLocal(Fresh, CreateOffer(params))
  BY DEF OfferLocal, Fresh
<1>2. SetLocal(Fresh, CreateOffer(params)).n
        = Put(Put(Fresh, "state", "LocalOffer"), "local", CreateOffer(params))
  BY DEF SetLocal, Fresh, Ended
<1> QED
  BY <1>1, <1>2 DEF Put, Fresh

(* A negotiator that has both descriptions, and what makes the answer fail. *)
LEMMA NegotiableIff ==
    ASSUME NEW x, NEW y PROVE Negotiable(x, y) <=> Matches(x, y) /\ Static(x, y)
BY DEF Negotiable, Matches, Static, ActivePairs

(* process_answer, and what makes it fail. *)
LEMMA ProcessFacts ==
    ASSUME NEW n, NEW sd, n.state = "LocalOffer", {"state", "local"} \subseteq DOMAIN n
    PROVE  /\ ProcessAnswer(n, sd).how = IF Matches(n.local, sd) THEN "ok" ELSE "panic"
           /\ ProcessAnswer(n, sd).how = "ok" => "answer" \in DOMAIN ProcessAnswer(n, sd).n
           /\ ProcessAnswer(n, sd).n.local = n.local
<1>1. CASE Matches(n.local, sd)
  <2>1. ProcessAnswer(n, sd) = Ended("ok", Put(Put(n, "state", "Done"), "answer", sd))
    BY <1>1 DEF ProcessAnswer, Matches
  <2> QED
    BY <1>1, <2>1 DEF Ended, Put
<1>2. CASE ~Matches(n.local, sd)
  <2>1. ProcessAnswer(n, sd) = Ended("panic", n)
    BY <1>2 DEF ProcessAnswer, Matches
  <2> QED
    BY <1>2, <2>1 DEF Ended
<1> QED
  BY <1>1, <1>2

(* CreateAnswer on a negotiator with both descriptions. *)
LEMMA CreateFacts ==
    ASSUME NEW n, n.state = "Ready"
    PROVE  /\ CreateAnswer(n).how = IF Matches(n.local, n.remote) /\ Static(n.local, n.remote) THEN "ok" ELSE "panic"
           /\ CreateAnswer(n).how = "ok" =>
                "answer" \in DOMAIN CreateAnswer(n).n /\ CreateAnswer(n).n.state = "Done"
<1>1. CASE Negotiable(n.local, n.remote)
  <2>1. CreateAnswer(n) = Ended("ok", Put(Put(n, "state", "Done"), "answer", Answer(n.local, n.remote)))
    BY <1>1 DEF CreateAnswer
  <2> QED
    BY <1>1, <2>1, NegotiableIff DEF Ended, Put
<1>2. CASE ~Negotiable(n.local, n.remote)
  <2>1. CreateAnswer(n) = Ended("panic", n)
    BY <1>2 DEF CreateAnswer
  <2> QED
    BY <1>2, <2>1, NegotiableIff DEF Ended
<1> QED
  BY <1>1, <1>2

(* Both ways to have both descriptions: the offer of the other side comes   *)
(* first (the callee), or its own (the caller whose INVITE had no offer).   *)
LEMMA RemoteFirst ==
    ASSUME NEW params, NEW sd, NEW n, n = OfferLocal(SetRemote(Fresh, sd).n, params).n
    PROVE  n.state = "Ready" /\ n.local = CreateOffer(params) /\ n.remote = sd
<1>1. SetRemote(Fresh, sd).n = Put(Put(Fresh, "state", "RemoteOffer"), "remote", sd)
  BY DEF SetRemote, Fresh, Ended
<1> DEFINE m == Put(Put(Fresh, "state", "RemoteOffer"), "remote", sd)
<1>2. m.state = "RemoteOffer" /\ m.remote = sd /\ DOMAIN m = {"state", "remote"}
  BY DEF Fresh, Put
<1> HIDE DEF m
<1>3. n = Put(Put(m, "state", "Ready"), "local", CreateOffer(params))
  BY <1>1, <1>2 DEF OfferLocal, SetLocal, Ended, m
<1> QED
  BY <1>2, <1>3 DEF Put
LEMMA LocalFirst ==
    ASSUME NEW params, NEW sd, NEW n, n = SetRemote(OfferLocal(Fresh, params).n, sd).n
    PROVE  n.state = "Ready" /\ n.local = CreateOffer(params) /\ n.remote = sd
<1> DEFINE m == OfferLocal(Fresh, params).n
<1>1. m.state = "LocalOffer" /\ m.local = CreateOffer(params) /\ DOMAIN m = {"state", "local"}
  BY OfferedFacts
<1> HIDE DEF m
<1>2. n = Put(Put(m, "state", "Ready"), "remote", sd)
  BY <1>1 DEF SetRemote, Ended, m
<1> QED
  BY <1>1, <1>2 DEF Put

(* accept with and without an offer. *)
LEMMA AcceptFacts ==
    /\ Accepted(Fresh) = Ended("ok", OfferLocal(Fresh, call.accept).n)
    /\ \A sd : LET result == Accepted(SetRemote(Fresh, sd).n)
                   mine == CreateOffer(call.accept)
               IN  /\ result.how = IF Matches(mine, sd) /\ Static(mine, sd) THEN "ok" ELSE "panic"
                   /\ result.how = "ok" => result.n.state = "Done"
<1>1. Accepted(Fresh) = Ended("ok", OfferLocal(Fresh, call.accept).n)
  BY OfferedFacts DEF Accepted
<1>2. ASSUME NEW sd
      PROVE  LET result == Accepted(SetRemote(Fresh, sd).n)
                 mine == CreateOffer(call.accept)
             IN  /\ result.how = IF Matches(mine, sd) /\ Static(mine, sd) THEN "ok" ELSE "panic"
                 /\ result.how = "ok" => result.n.state = "Done"
  <2> DEFINE n == OfferLocal(SetRemote(Fresh, sd).n, call.accept).n
  <2>1. n.state = "Ready" /\ n.local = CreateOffer(call.accept) /\ n.remote = sd
    BY RemoteFirst
  <2>2. Accepted(SetRemote(Fresh, sd).n) = CreateAnswer(n)
    BY <2>1 DEF Accepted
  <2> HIDE DEF n
  <2> QED
    BY <2>1, <2>2, CreateFacts
<1> QED
  BY <1>1, <1>2

(* The invariant of each side, one action after the other. *)
LEMMA CallerStep == CallInv /\ [Next]_vars => CallerInv'
<1> SUFFICES ASSUME MessagesOnce, OneByOne, CallerInv, CalleeInv, [Next]_vars PROVE CallerInv'
  BY DEF CallInv
<1>1. CASE SendInvite
  <2>1. Is(1, "rssip") /\ caller'.at = "calling" /\ caller'.n = Offering /\ call' = call
    BY <1>1 DEF SendInvite
  <2> QED
    BY <2>1 DEF CallerInv, Ends, Offering, Is
<1>2. CASE SendInviteFails
  <2>1. caller'.at = "failed" /\ UNCHANGED <<call, sent>>
    BY <1>2 DEF SendInviteFails
  <2> QED
    BY <2>1 DEF CallerInv, Ends, Is
<1>3. CASE NoFinalResponse
  <2>1. caller'.at = "failed" /\ UNCHANGED <<call, sent>>
    BY <1>3 DEF NoFinalResponse
  <2> QED
    BY <2>1 DEF CallerInv, Ends, Is
<1>4. ASSUME NEW m \in Arrived("2xx"), ReceiveAnswer(m) PROVE CallerInv'
  <2> DEFINE r == Take2xx(caller.n, m)
  <2>1. /\ Is(1, "rssip") /\ caller.at = "calling" /\ UNCHANGED call
        /\ \/ caller'.at = IF r.how # "ok" THEN r.how ELSE IF "answer" \in DOMAIN r.n THEN "media" ELSE "panic"
           \/ caller'.at = "failed"
        /\ caller'.n = r.n
    <3> HIDE DEF r
    <3> QED
      BY <1>4, ReceiveEnds DEF r
  <2>2. Written("2xx") /\ sent["2xx"] = m /\ ~Written("ACK")
    BY <2>1 DEF Arrived, MessagesOnce, OneByOne
  <2>3. Written("2xx")' /\ sent'["2xx"] = m
    <3>1. CASE Discard({m})
      BY <2>2, <3>1 DEF Discard, Written
    <3>2. ASSUME NEW text, Emit({m}, Ack(text, FALSE, FALSE)) PROVE Written("2xx")' /\ sent'["2xx"] = m
      <4>1. Writes("ACK", Ack(text, FALSE, FALSE))
        <5>1. ~Written("ACK")
          BY <2>2
        <5>2. Emit({m}, Ack(text, FALSE, FALSE))
          BY <3>2
        <5>3. Ack(text, FALSE, FALSE).kind = "ACK"
          BY DEF Ack, Put, Msg
        <5> HIDE DEF r
        <5> QED
          BY <5>1, <5>2, <5>3, EmitWrites
      <4> QED
        BY <2>2, <4>1 DEF Writes, Written
    <3> QED
      BY <1>4, <3>1, <3>2 DEF ReceiveAnswer
  <2>4. caller.n = IF Given(call.offer) THEN OfferLocal(Fresh, call.offer).n ELSE Fresh
    BY <2>1 DEF CallerInv
  <2>5. r.how \in Hows
    BY HowTheyEnd
  <2>6. caller'.at # "failed" =>
          (caller'.at = "media" <=> IF Given(call.offer) THEN CanTakeAnswer(r.n, m)
                               ELSE Given(call.late) /\ Kept(m) /\ CanAnswer(call.late, m))
    <3>1. CASE ~Kept(m)
      <4>1. r = Ended("ok", caller.n)
        BY <3>1 DEF Take2xx
      <4>2. "answer" \notin DOMAIN caller.n
        BY <2>4, OfferedFacts DEF Fresh
      <4> QED
        BY <2>1, <3>1, <4>1, <4>2 DEF Ended, CanTakeAnswer
    <3>2. CASE Kept(m) /\ Parse(m.body) = {}
      <4>1. r = Ended("error", caller.n)
        BY <3>2 DEF Take2xx
      <4> QED
        BY <2>1, <3>2, <4>1 DEF Ended, CanTakeAnswer, CanAnswer
    <3>3. CASE Kept(m) /\ Parse(m.body) # {} /\ Given(call.offer)
      <4>0. caller.n = OfferLocal(Fresh, call.offer).n
        BY <2>4, <3>3
      <4>1. r = ProcessAnswer(caller.n, Parsed(m.body))
        BY <4>0, <3>3, OfferedFacts DEF Take2xx, TakeBody
      <4>2. /\ r.how = IF Matches(caller.n.local, Parsed(m.body)) THEN "ok" ELSE "panic"
            /\ r.how = "ok" => "answer" \in DOMAIN r.n
            /\ r.n.local = caller.n.local
        <5>1. caller.n.state = "LocalOffer" /\ {"state", "local"} \subseteq DOMAIN caller.n
          BY <4>0, OfferedFacts
        <5> HIDE DEF r
        <5> QED
          BY <4>1, <5>1, ProcessFacts
      <4> HIDE DEF r
      <4> QED
        BY <2>1, <3>3, <4>2 DEF CanTakeAnswer
    <3>4. CASE Kept(m) /\ Parse(m.body) # {} /\ ~Given(call.offer) /\ ~Given(call.late)
      <4>1. r = Ended("error", caller.n)
        BY <2>4, <3>4 DEF Take2xx, TakeBody, Fresh
      <4> QED
        BY <2>1, <3>4, <4>1 DEF Ended
    <3>5. CASE Kept(m) /\ Parse(m.body) # {} /\ ~Given(call.offer) /\ Given(call.late)
      <4> DEFINE n == SetRemote(OfferLocal(Fresh, call.late).n, Parsed(m.body)).n
      <4>1. r = CreateAnswer(n)
        BY <2>4, <3>5 DEF Take2xx, TakeBody, Fresh
      <4>2. n.state = "Ready" /\ n.local = CreateOffer(call.late) /\ n.remote = Parsed(m.body)
        BY LocalFirst
      <4> HIDE DEF n, r
      <4> QED
        BY <2>1, <3>5, <4>1, <4>2, CreateFacts DEF CanAnswer
    <3> QED
      BY <3>1, <3>2, <3>3, <3>4, <3>5
  <2>7. caller'.at \in Ends \cup {"failed"}
    BY <2>1, <2>5 DEF Hows, Ends
  <2> QED
    BY <2>1, <2>3, <2>6, <2>7 DEF CallerInv, CallerConnects, Ends, Is
<1>5. ASSUME NEW m \in Arrived("refusal"), ReceiveRefusal(m) PROVE CallerInv'
  <2>1. caller'.at = "panic" /\ UNCHANGED <<call, sent>>
    BY <1>5 DEF ReceiveRefusal, Discard
  <2>2. Written("refusal") /\ ~Written("2xx")
    BY DEF MessagesOnce, OneByOne, Arrived
  <2> QED
    BY <2>1, <2>2 DEF CallerInv, Ends, Is, Written
<1>6. CASE Accept
  <2>1. callee.at = "incoming" /\ UNCHANGED <<call, caller>>
    BY <1>6 DEF Accept
  <2>2. caller.at \in Ends => ~Is(1, "rssip")
    BY <2>1 DEF OneByOne, CallerInv
  <2> QED
    BY <2>1, <2>2 DEF CallerInv, Is
<1>7. ASSUME NEW m \in Arrived("INVITE"), OtherAnswersCall(m) PROVE CallerInv'
  <2>1. callee.at = "idle" /\ Written("INVITE") /\ UNCHANGED <<call, caller>>
    BY <1>7 DEF OtherAnswersCall, MessagesOnce, Arrived
  <2>2. caller.at \in Ends => ~Is(1, "rssip")
    BY <2>1 DEF OneByOne, CallerInv
  <2> QED
    BY <2>1, <2>2 DEF CallerInv, Is
<1>8. ASSUME UNCHANGED <<call, caller, sent>> PROVE CallerInv'
  BY <1>8 DEF CallerInv, CallerConnects, Written, Is
<1>9. CASE UNCHANGED vars \/ NoAck
  BY <1>8, <1>9 DEF vars, NoAck
<1>10. ASSUME NEW m, FromInvite(m) \/ WaitForAck(m) \/ Lose(m) PROVE CallerInv'
  BY <1>8, <1>10 DEF FromInvite, WaitForAck, Lose, Discard
<1>11. ASSUME NEW m, (\E text : OtherInvites(text)) \/ OtherAcks(m) PROVE CallerInv'
  BY <1>11 DEF OtherInvites, OtherAcks, CallerInv, Is
<1> QED
  BY <1>1, <1>2, <1>3, <1>4, <1>5, <1>6, <1>7, <1>9, <1>10, <1>11
     DEF Next, Caller, Callee, Other

(* The same for the callee. *)
LEMMA CalleeStep == CallInv /\ [Next]_vars => CalleeInv'
<1> SUFFICES ASSUME MessagesOnce, OneByOne, CallerInv, CalleeInv, [Next]_vars PROVE CalleeInv'
  BY DEF CallInv
(* What the callee has come to is about the INVITE and the ACK. *)
<1>1. ASSUME UNCHANGED <<call, callee>>, \A k \in DOMAIN sent : k \in DOMAIN sent' /\ sent'[k] = sent[k]
      PROVE  CalleeInv'
  <2>1. callee.at # "idle" => Written("INVITE")
    BY DEF OneByOne
  <2>2. callee.at # "idle" => sent'["INVITE"] = sent["INVITE"]
    BY <1>1, <2>1 DEF Written
  <2>3. Written("ACK") => Written("ACK")' /\ sent'["ACK"] = sent["ACK"]
    BY <1>1 DEF Written
  <2>4. CalleeWithOffer /\ callee.at # "idle" => CalleeWithOffer'
    BY <1>1, <2>2 DEF CalleeWithOffer
  <2>5. CalleeOffers /\ callee.at # "idle" => CalleeOffers'
    BY <1>1, <2>3 DEF CalleeOffers
  <2> QED
    BY <1>1, <2>2, <2>4, <2>5 DEF CalleeInv, Is
<1>2. ASSUME UNCHANGED <<call, callee, sent>> PROVE CalleeInv'
  BY <1>1, <1>2
<1>3. ASSUME NEW kind, NEW x, Writes(kind, x), UNCHANGED <<call, callee>> PROVE CalleeInv'
  BY <1>1, <1>3 DEF Writes
<1>4. CASE UNCHANGED vars \/ SendInviteFails \/ NoFinalResponse
  BY <1>2, <1>4 DEF vars, SendInviteFails, NoFinalResponse
<1>5. ASSUME NEW m, Lose(m) \/ ReceiveRefusal(m) PROVE CalleeInv'
  BY <1>2, <1>5 DEF Lose, ReceiveRefusal, Discard
<1>6. ASSUME NEW text, Emit({}, Invite(text)), caller.at = "idle", UNCHANGED <<call, callee>> PROVE CalleeInv'
  <2>1. Writes("INVITE", Invite(text))
    BY <1>6, EmitWrites, Headers DEF OneByOne
  <2> QED
    BY <1>3, <1>6, <2>1
<1>7. ASSUME NEW m \in Arrived("2xx"), caller.at = "calling", UNCHANGED <<call, callee>>,
             NEW text, NEW typed, NEW whole, Emit({m}, Ack(text, typed, whole))
      PROVE  CalleeInv'
  <2>1. Writes("ACK", Ack(text, typed, whole))
    BY <1>7, EmitWrites, Headers DEF OneByOne
  <2> QED
    BY <1>3, <1>7, <2>1
<1>8. CASE SendInvite
  BY <1>6, <1>8 DEF SendInvite
<1>9. ASSUME NEW m \in Arrived("2xx"), ReceiveAnswer(m) PROVE CalleeInv'
  <2>1. caller.at = "calling" /\ UNCHANGED <<call, callee>>
    BY <1>9 DEF ReceiveAnswer
  <2>2. Discard({m}) \/ \E text : Emit({m}, Ack(text, FALSE, FALSE))
    BY <1>9 DEF ReceiveAnswer
  <2> QED
    BY <1>2, <1>7, <2>1, <2>2 DEF Discard
<1>10. ASSUME NEW text, OtherInvites(text) PROVE CalleeInv'
  BY <1>6, <1>10 DEF OtherInvites
<1>11. ASSUME NEW m \in Arrived("2xx"), OtherAcks(m) PROVE CalleeInv'
  BY <1>7, <1>11 DEF OtherAcks
<1>12. ASSUME NEW m, OtherAnswersCall(m) PROVE CalleeInv'
  BY <1>12 DEF OtherAnswersCall, CalleeInv, Is
<1>13. ASSUME NEW m \in Arrived("INVITE"), FromInvite(m) PROVE CalleeInv'
  <2>1. /\ Is(2, "rssip") /\ callee.at = "idle" /\ UNCHANGED <<call, sent>>
        /\ callee' = IF ~Kept(m) THEN [at |-> "incoming", n |-> callee.n]
                     ELSE IF Parse(m.body) = {} THEN [at |-> "error", n |-> callee.n]
                     ELSE [at |-> "incoming", n |-> SetRemote(callee.n, Parsed(m.body)).n]
    BY <1>13 DEF FromInvite, Discard
  <2>2. callee.n = Fresh
    BY <2>1 DEF CalleeInv
  <2>3. sent["INVITE"] = m /\ (Kept(m) <=> Bodied(m))
    BY DEF Arrived, MessagesOnce, Kept
  <2>4. CASE ~Bodied(m)
    <3>1. callee'.at = "incoming" /\ callee'.n = Fresh
      BY <2>1, <2>2, <2>3, <2>4
    <3> QED
      BY <2>1, <2>3, <2>4, <3>1 DEF CalleeInv, CalleeOffers, Ends, Is
  <2>5. CASE Bodied(m) /\ Parse(m.body) = {}
    <3>1. callee'.at = "error" /\ ~CanAnswer(call.accept, m)
      BY <2>1, <2>3, <2>5 DEF CanAnswer
    <3> QED
      BY <2>1, <2>3, <2>5, <3>1 DEF CalleeInv, CalleeWithOffer, Ends, Is
  <2>6. CASE Bodied(m) /\ Parse(m.body) # {}
    <3>1. callee'.at = "incoming" /\ callee'.n = SetRemote(Fresh, Parsed(m.body)).n
      BY <2>1, <2>2, <2>3, <2>6
    <3> QED
      BY <2>1, <2>3, <2>6, <3>1 DEF CalleeInv, CalleeWithOffer, Ends, Is
  <2> QED
    BY <2>4, <2>5, <2>6
<1>14. CASE Accept
  <2> DEFINE r == Accepted(callee.n)
             m == sent["INVITE"]
  <2>0. CASE callee'.at = "failed"
    BY <2>0 DEF CalleeInv, CalleeOffers, CalleeWithOffer, Ends
  <2> SUFFICES ASSUME callee'.at # "failed" PROVE CalleeInv'
    BY <2>0
  <2>1. /\ Is(2, "rssip") /\ callee.at = "incoming" /\ UNCHANGED call
        /\ callee'.at = IF r.how = "ok" THEN "waiting" ELSE r.how
        /\ callee'.n = r.n
    <3>1. /\ Is(2, "rssip") /\ callee.at = "incoming" /\ UNCHANGED call /\ callee'.n = r.n
          /\ callee'.at = (IF r.how = "ok" THEN "waiting" ELSE r.how) \/ callee'.at = "failed"
      BY <1>14, AcceptEnds
    <3> QED
      BY <3>1
  <2>2. Written("INVITE") /\ ~Written("2xx")
    BY <2>1 DEF OneByOne
  <2>3. sent'["INVITE"] = m
    <3>1. CASE Discard({})
      BY <3>1 DEF Discard
    <3>2. ASSUME NEW text, Emit({}, Final(text, FALSE)) PROVE sent'["INVITE"] = m
      <4>1. Writes("2xx", Final(text, FALSE))
        BY <2>2, <3>2, EmitWrites, Headers
      <4> QED
        BY <2>2, <4>1 DEF Writes, Written
    <3> QED
      BY <1>14, <3>1, <3>2 DEF Accept
  <2>4. CASE Bodied(m)
    <3>1. callee.n = SetRemote(Fresh, Parsed(m.body)).n /\ Parse(m.body) # {}
      BY <2>1, <2>4 DEF CalleeInv, CalleeWithOffer
    <3>2. /\ r.how = IF CanAnswer(call.accept, m) THEN "ok" ELSE "panic"
          /\ r.how = "ok" => r.n.state = "Done"
      BY <3>1, AcceptFacts DEF CanAnswer
    <3> HIDE DEF r
    <3> QED
      BY <2>1, <2>3, <2>4, <3>2 DEF CalleeInv, CalleeWithOffer, Ends, Is
  <2>5. CASE ~Bodied(m)
    <3>1. r = Ended("ok", OfferLocal(Fresh, call.accept).n)
      BY <2>1, <2>5, AcceptFacts DEF CalleeInv, CalleeOffers
    <3>2. callee'.at = "waiting" /\ callee'.n = OfferLocal(Fresh, call.accept).n
      BY <2>1, <3>1 DEF Ended
    <3> QED
      BY <2>1, <2>3, <2>5, <3>2 DEF CalleeInv, CalleeOffers, Ends, Is
  <2> QED
    BY <2>4, <2>5
<1>15. CASE NoAck
  <2>1. callee'.at = "failed" /\ UNCHANGED <<call, sent>>
    BY <1>15 DEF NoAck
  <2> QED
    BY <2>1 DEF CalleeInv, CalleeOffers, CalleeWithOffer, Ends, Is
<1>16. ASSUME NEW m \in Arrived("ACK"), WaitForAck(m) PROVE CalleeInv'
  <2> DEFINE r == TakeAck(callee.n, m)
             i == sent["INVITE"]
  <2>1. /\ Is(2, "rssip") /\ callee.at = "waiting" /\ UNCHANGED <<call, sent>>
        /\ callee'.at = IF r.how = "ok" THEN "media" ELSE r.how
        /\ callee'.n = r.n
    BY <1>16 DEF WaitForAck, Discard
  <2>2. Written("ACK") /\ sent["ACK"] = m
    BY DEF Arrived, MessagesOnce
  <2>3. r.how \in Hows
    BY HowTheyEnd
  <2>4. CASE Bodied(i)
    <3>1. callee.n.state = "Done" /\ CanAnswer(call.accept, i)
      BY <2>1, <2>4 DEF CalleeInv, CalleeWithOffer
    <3>2. callee'.at = "media"
      BY <2>1, <3>1 DEF TakeAck, Ended
    <3> QED
      BY <2>1, <2>4, <3>1, <3>2 DEF CalleeInv, CalleeWithOffer, Ends, Is
  <2>5. CASE ~Bodied(i)
    <3>1. callee.n = OfferLocal(Fresh, call.accept).n
      BY <2>1, <2>5 DEF CalleeInv, CalleeOffers
    <3>2. callee.n.state = "LocalOffer" /\ {"state", "local"} \subseteq DOMAIN callee.n
      BY <3>1, OfferedFacts
    <3>3. callee'.at = "media" <=> CanTakeAnswer(callee'.n, m)
      <4>1. CASE ~Kept(m) \/ Parse(m.body) = {}
        <5>1. r = Ended("error", callee.n)
          BY <3>2, <4>1 DEF TakeAck
        <5> QED
          BY <2>1, <4>1, <5>1 DEF Ended, CanTakeAnswer
      <4>2. CASE Kept(m) /\ Parse(m.body) # {}
        <5>1. r = ProcessAnswer(callee.n, Parsed(m.body))
          BY <3>2, <4>2 DEF TakeAck
        <5> HIDE DEF r
        <5> QED
          BY <2>1, <3>2, <4>2, <5>1, ProcessFacts DEF CanTakeAnswer
      <4> QED
        BY <4>1, <4>2
    <3>4. callee'.at \in Ends
      BY <2>1, <2>3 DEF Hows, Ends
    <3> QED
      BY <2>1, <2>2, <2>5, <3>3, <3>4 DEF CalleeInv, CalleeOffers, Ends, Is, Written
  <2> QED
    BY <2>4, <2>5
<1> QED
  BY <1>4, <1>5, <1>8, <1>9, <1>10, <1>11, <1>12, <1>13, <1>14, <1>15, <1>16
     DEF Next, Caller, Callee, Other

(* A session whose messages could be sent and received comes to its media   *)
(* exactly when the two descriptions can be read and negotiated, for every  *)
(* set of parameters and every text of the other side: receive_answer and   *)
(* accept (ua/session.rs), the error exits of the transport included.       *)
THEOREM ConnectsExactlyWhenNegotiable == Spec => []ConnectsIff
<1>1. CallInv /\ [Next]_vars => CallInv'
  BY OnceStep, CallerStep, CalleeStep DEF CallInv
<1>2. CallInv => ConnectsIff
  BY DEF CallInv, OneByOne, CallerInv, CallerConnects, CalleeInv, CalleeWithOffer, CalleeOffers,
         ConnectsIff, Ends, Written
<1> QED
  BY CallInit, <1>1, <1>2, PTL DEF Spec

-----------------------------------------------------------------------------
(* The rest of what is needed, when both sides are rssip: no body of accept *)
(* has a Content-Type, no ACK has a Via, the caller's negotiator has no     *)
(* answer, and no side has its media.                                       *)
Untaken ==
    /\ \A m \in wire : m.kind = "2xx" => ~m.typed
    /\ \A m \in wire : m.kind = "ACK" => ~m.via
    /\ "answer" \notin DOMAIN caller.n
    /\ caller.at # "media" /\ callee.at # "media"
Both == call.sides = <<"rssip", "rssip">>
BothInv == Both => Untaken

(* Before the call. *)
LEMMA BothInit == Init => BothInv
BY DEF Init, BothInv, Untaken, Fresh

(* rssip is no other implementation. *)
LEMMA SidesDiffer == ASSUME Both PROVE Is(1, "rssip") /\ Is(2, "rssip") /\ ~Is(1, "other") /\ ~Is(2, "other")
BY DEF Both, Is

(* A message that changes nothing of the rest: what rssip writes.          *)
LEMMA UntakenKeeps ==
    ASSUME Untaken, NEW x, wire' \subseteq wire \cup {x},
           x.kind = "2xx" => ~x.typed, x.kind = "ACK" => ~x.via,
           "answer" \notin DOMAIN caller'.n, caller'.at # "media", callee'.at # "media"
    PROVE  Untaken'
BY DEF Untaken

(* Every step between two endpoints of rssip. *)
LEMMA BothStep == BothInv /\ [Next]_vars => BothInv'
<1> SUFFICES ASSUME BothInv, [Next]_vars, Both' PROVE Untaken'
  BY DEF BothInv
<1> Both /\ Untaken
  BY DEF BothInv, Both, Next, Caller, Callee, Other, vars, SendInvite, SendInviteFails,
         ReceiveAnswer, ReceiveRefusal, NoFinalResponse, FromInvite, Accept, WaitForAck, NoAck,
         OtherInvites, OtherAcks, OtherAnswersCall, Lose
<1>1. CASE SendInvite
  <2>1. PICK text : Emit({}, Invite(text))
    BY <1>1 DEF SendInvite
  <2>2. "answer" \notin DOMAIN caller'.n /\ caller'.at = "calling" /\ UNCHANGED callee
    BY <1>1, OfferedFacts DEF SendInvite, Offering, Fresh
  <2>3. wire' = wire \cup {Invite(text)}
    BY <2>1 DEF Emit
  <2>4. callee'.at # "media"
    BY <2>2 DEF Untaken
  <2> QED
    BY <2>2, <2>3, <2>4, Headers, UntakenKeeps
<1>2. CASE SendInviteFails \/ NoFinalResponse \/ NoAck \/ UNCHANGED vars
  BY <1>2 DEF SendInviteFails, NoFinalResponse, NoAck, vars, Untaken
<1>3. ASSUME NEW m \in Arrived("2xx"), ReceiveAnswer(m) PROVE Untaken'
  <2>1. ~Kept(m)
    BY DEF Untaken, Arrived, Kept
  <2>2. Take2xx(caller.n, m) = Ended("ok", caller.n)
    BY <2>1 DEF Take2xx
  <2>3. caller'.at \in {"panic", "failed"} /\ caller'.n = caller.n /\ UNCHANGED callee
    BY <1>3, <2>2, ReceiveEnds DEF Ended, Untaken
  <2>4. Discard({m}) \/ \E text : Emit({m}, Ack(text, FALSE, FALSE))
    BY <1>3 DEF ReceiveAnswer
  <2>5. CASE Discard({m})
    BY <2>3, <2>5 DEF Discard, Untaken
  <2>6. ASSUME NEW text, Emit({m}, Ack(text, FALSE, FALSE)) PROVE Untaken'
    <3>1. wire' \subseteq wire \cup {Ack(text, FALSE, FALSE)}
      BY <2>6 DEF Emit
    <3>2. Ack(text, FALSE, FALSE).kind = "ACK" /\ Ack(text, FALSE, FALSE).via = FALSE
      BY DEF Ack, Put, Msg
    <3>3. "answer" \notin DOMAIN caller'.n /\ caller'.at # "media" /\ callee'.at # "media"
      BY <2>3 DEF Untaken
    <3> QED
      BY <3>1, <3>2, <3>3, UntakenKeeps
  <2> QED
    BY <2>4, <2>5, <2>6
<1>4. ASSUME NEW m, ReceiveRefusal(m) \/ FromInvite(m) \/ Lose(m) PROVE Untaken'
  BY <1>4 DEF ReceiveRefusal, FromInvite, Lose, Discard, Untaken
<1>5. CASE Accept
  <2>1. /\ Accepted(callee.n).how # "media"
        /\ callee'.at \in {"waiting", "failed", Accepted(callee.n).how}
        /\ UNCHANGED caller
    <3>1. Accepted(callee.n).how \in Hows
      BY HowTheyEnd
    <3> QED
      BY <1>5, <3>1, AcceptEnds DEF Hows
  <2>2. Discard({}) \/ \E text : Emit({}, Final(text, FALSE))
    BY <1>5 DEF Accept
  <2>3. "answer" \notin DOMAIN caller'.n /\ caller'.at # "media" /\ callee'.at # "media"
    BY <2>1 DEF Untaken
  <2>4. CASE Discard({})
    BY <2>3, <2>4 DEF Discard, Untaken
  <2>5. ASSUME NEW text, Emit({}, Final(text, FALSE)) PROVE Untaken'
    <3>1. wire' \subseteq wire \cup {Final(text, FALSE)}
      BY <2>5 DEF Emit
    <3>2. Final(text, FALSE).kind = "2xx" /\ Final(text, FALSE).typed = FALSE
      BY DEF Final, Msg
    <3> QED
      BY <2>3, <3>1, <3>2, UntakenKeeps
  <2> QED
    BY <2>2, <2>4, <2>5
<1>6. ASSUME NEW m \in Arrived("ACK"), WaitForAck(m) PROVE Untaken'
  BY <1>6 DEF WaitForAck, Arrived, Reaches, Untaken
<1>7. CASE Other
  BY <1>7, SidesDiffer DEF Other, OtherInvites, OtherAcks, OtherAnswersCall
<1> QED
  BY <1>1, <1>2, <1>3, <1>4, <1>5, <1>6, <1>7 DEF Next, Caller, Callee

(* What the defect that AnswerIsThere shows comes to for every call: two    *)
(* endpoints of rssip never come to their media with each other, whatever   *)
(* they want, and whatever is lost.  accept and receive_answer              *)
(* (ua/session.rs) write bodies that the parser of the other side drops,    *)
(* and the ACK of receive_answer has no Via.                                *)
RssipNeedsOther ==
    call.sides = <<"rssip", "rssip">> => "media" \notin {caller.at, callee.at}

(* It holds always.                                                         *)
THEOREM NoMediaBetweenRssip == Spec => []RssipNeedsOther
<1>1. BothInv => RssipNeedsOther
  BY DEF BothInv, Both, Untaken, RssipNeedsOther
<1> QED
  BY BothInit, BothStep, <1>1, PTL DEF Spec

(* The direction that create_answer gives a stream is what both sides want *)
(* of it, unless the offer is sendrecv and the answering side wants less.  *)
THEOREM AnswerDirectionFits ==
    ASSUME NEW local \in Directions, NEW remote \in Directions,
           remote = "sendrecv" => local = "sendrecv"
    PROVE  Flow(AnswerDirection(remote, local)) = Flow(local) \cap Mirror(remote)
BY DEF Directions, AnswerDirection, Willing, Ways, Flow, Mirror

-----------------------------------------------------------------------------
(* What flows: the streams of an answer against those of both sides.        *)

(* The table of create_answer, where a side may have no direction.          *)
LEMMA FlowCommon ==
    ASSUME NEW rd \in Directions \cup {"none"}, NEW ld \in Directions \cup {"none"},
           ~(rd \in {"sendonly", "recvonly"} /\ ld = "none"),
           ~(rd = "sendrecv" /\ ld \notin {"none", "sendrecv"})
    PROVE  Flow(IF rd = "none" THEN ld ELSE AnswerDirection(rd, ld)) = Flow(ld) \cap Mirror(rd)
BY DEF Directions, AnswerDirection, Willing, Ways, Flow, Mirror

LEMMA AnswerCommon ==
    ASSUME NEW n, IsDescription(n.local), IsDescription(n.remote),
           n.answer = Answer(n.local, n.remote), NEW k \in DOMAIN n.remote.media
    PROVE  Found(n, k) = Common(n, k) \/ (k \in Paired(n.local, n.remote) /\ Misleading(n, k))
<1> DEFINE L == n.local.media
           R == n.remote.media
           A == n.answer.media
<1>1. /\ IsSeq(L) /\ \A i \in 1..Len(L) : IsMedium(L[i])
      /\ IsSeq(R) /\ \A i \in 1..Len(R) : IsMedium(R[i])
  BY DEF IsDescription
<1>2. k \in 1..Len(R) /\ k \in Nat
  <2>1. DOMAIN R = 1..Len(R) /\ Len(R) \in Nat
    BY <1>1, Elements
  <2> QED
    BY <2>1
<1>3. PICK p \in Nat : /\ Paired(n.local, n.remote) = 1..p /\ p <= Len(L) /\ p <= Len(R)
                       /\ (p = Len(L) \/ p = Len(R))
  <2>1. \E p \in Nat : /\ Paired(n.local, n.remote) = 1..p
                       /\ p <= Len(n.local.media) /\ p <= Len(n.remote.media)
                       /\ (p = Len(n.local.media) \/ p = Len(n.remote.media))
    BY <1>1, PairedRange
  <2> QED
    BY <2>1
<1>4. /\ \A j \in Paired(n.local, n.remote) : (\A i \in 1..j : Active(n.local, n.remote, i)) =>
           j <= Len(A) /\ A[j] = AnswerMedia(L[j], R[j])
      /\ \A j \in Nat : j > Len(L) => j > Len(A)
  <2> DEFINE B == Answer(n.local, n.remote).media
  <2>1. /\ \A j \in Paired(n.local, n.remote) : (\A i \in 1..j : Active(n.local, n.remote, i)) =>
             j <= Len(B) /\ B[j] = AnswerMedia(n.local.media[j], n.remote.media[j])
        /\ \A j \in Nat : j > Len(n.local.media) => j > Len(B)
    BY AnswerStreams
  <2>2. A = B
    OBVIOUS
  <2> HIDE DEF A, B
  <2> QED
    BY <2>1, <2>2
<1>5. Len(L) \in Nat /\ Len(R) \in Nat
  BY <1>1 DEF IsSeq
<1>6. CASE k \notin Paired(n.local, n.remote)
  <2>1. k > Len(L)
    BY <1>2, <1>3, <1>5, <1>6
  <2>2. k > Len(A)
    BY <1>2, <1>4, <2>1
  <2>3. Found(n, k) = {} /\ Common(n, k) = {}
    BY <1>6, <2>2 DEF Found, Common
  <2> QED
    BY <2>3
<1>7. CASE k \in Paired(n.local, n.remote) /\ ~Misleading(n, k)
  <2> DEFINE rd == DirectionOf(R[k])
             ld == DirectionOf(L[k])
             d == AnswerDirection(rd, ld)
  <2>1. \A j \in 1..k : j \in Paired(n.local, n.remote) /\ Active(n.local, n.remote, j)
    <3>1. \A j \in 1..k : j \in 1..p
      BY <1>3, <1>7
    <3> QED
      BY <1>3, <1>7, <3>1 DEF Misleading
  <2>2. k \in 1..k /\ Active(n.local, n.remote, k)
    BY <1>2, <2>1
  <2>3. k <= Len(A) /\ A[k] = AnswerMedia(L[k], R[k])
    BY <1>4, <1>7, <2>1
  <2>4. IsMedium(L[k]) /\ IsMedium(R[k])
    BY <1>1, <1>2, <1>3, <1>5, <1>7
  <2>5. /\ A[k].fmts = <<>> <=> ToSet(L[k].fmts) \cap ToSet(R[k].fmts) = {}
        /\ DirectionOf(A[k]) = IF rd = "none" THEN ld ELSE d
    <3> DEFINE x == L[k]
               y == R[k]
               m == AnswerMedia(x, y)
    <3>1. IsMedium(x) /\ IsMedium(y) /\ A[k] = m
      BY <2>3, <2>4
    <3> HIDE DEF x, y
    <3>2. /\ m.fmts = <<>> <=> ToSet(x.fmts) \cap ToSet(y.fmts) = {}
          /\ DirectionOf(m) = IF DirectionOf(y) = "none" THEN DirectionOf(x)
                              ELSE AnswerDirection(DirectionOf(y), DirectionOf(x))
      BY <3>1, AnswerMediaFacts
    <3> HIDE DEF m
    <3> QED
      BY <3>1, <3>2 DEF x, y
  <2>6. rd \in Directions \cup {"none"} /\ ld \in Directions \cup {"none"}
    BY <2>4, DirectionFacts DEF IsMedium
  <2>7. ~(rd \in {"sendonly", "recvonly"} /\ ld = "none") /\ ~(rd = "sendrecv" /\ ld \notin {"none", "sendrecv"})
    BY <1>7 DEF Misleading
  <2>8. Flow(DirectionOf(A[k])) = Flow(ld) \cap Mirror(rd)
    <3> HIDE DEF rd, ld, A
    <3> QED
      BY <2>5, <2>6, <2>7, FlowCommon
  <2>0. ~(k > Len(A))
    <3>1. IsSeq(A)
      BY AnswerStreams
    <3> HIDE DEF A
    <3>2. Len(A) \in Nat
      BY <3>1 DEF IsSeq
    <3> QED
      BY <1>2, <2>3, <3>2
  <2>10. Found(n, k) = IF A[k].fmts = <<>> THEN {} ELSE Flow(DirectionOf(A[k]))
    BY <2>0 DEF Found
  <2>11. Common(n, k) = IF ToSet(L[k].fmts) \cap ToSet(R[k].fmts) = {} THEN {} ELSE Flow(ld) \cap Mirror(rd)
    BY <1>7, <2>2 DEF Common
  <2> HIDE DEF A, L, R, rd, ld
  <2> QED
    BY <2>5, <2>8, <2>10, <2>11
<1> QED
  BY <1>6, <1>7

-----------------------------------------------------------------------------
(* The negotiators have descriptions, and one that has an answer of its own *)
(* has the one that create_answer makes; the messages have texts.           *)
SoundNegotiator(n) ==
    /\ \A f \in DOMAIN n \ {"state"} : IsDescription(n[f])
    /\ {"local", "remote", "answer"} \subseteq DOMAIN n => n.answer = Answer(n.local, n.remote)
    /\ "answer" \in DOMAIN n => n.state = "Done"
    /\ n.state \in {"Initial", "LocalOffer"} => "remote" \notin DOMAIN n
    /\ n.state = "Ready" => {"local", "remote"} \subseteq DOMAIN n
    /\ n.state = "RemoteOffer" => "remote" \in DOMAIN n
TextsInv ==
    /\ call.offer \in Params \cup {None} /\ call.late \in Params \cup {None} /\ call.accept \in Params
    /\ \A m \in wire : Bodied(m) => IsText(m.body)
    /\ SoundNegotiator(caller.n) /\ SoundNegotiator(callee.n)

LEMMA SoundFresh == SoundNegotiator(Fresh) /\ SoundNegotiator(Put(Fresh, "state", "LocalOffer"))
BY DEF SoundNegotiator, Fresh, Put

LEMMA SoundRemote ==
    ASSUME NEW n, SoundNegotiator(n), n.state = "LocalOffer" => "local" \in DOMAIN n,
           NEW sd, IsDescription(sd)
    PROVE  SoundNegotiator(SetRemote(n, sd).n)
<1>1. CASE n.state = "Initial"
  <2> DEFINE r == Put(Put(n, "state", "RemoteOffer"), "remote", sd)
  <2>1. SetRemote(n, sd).n = r
    BY <1>1 DEF SetRemote, Ended
  <2>2. /\ DOMAIN r = DOMAIN n \cup {"state", "remote"} /\ r.state = "RemoteOffer" /\ r.remote = sd
        /\ \A f \in DOMAIN n \ {"state", "remote"} : r[f] = n[f]
    BY DEF Put
  <2>3. "answer" \notin DOMAIN n
    BY <1>1 DEF SoundNegotiator
  <2> HIDE DEF r
  <2>4. SoundNegotiator(r)
    BY <2>2, <2>3 DEF SoundNegotiator
  <2> QED
    BY <2>1, <2>4
<1>2. CASE n.state = "LocalOffer"
  <2> DEFINE r == Put(Put(n, "state", "Ready"), "remote", sd)
  <2>1. SetRemote(n, sd).n = r
    BY <1>2 DEF SetRemote, Ended
  <2>2. /\ DOMAIN r = DOMAIN n \cup {"state", "remote"} /\ r.state = "Ready" /\ r.remote = sd
        /\ \A f \in DOMAIN n \ {"state", "remote"} : r[f] = n[f]
    BY DEF Put
  <2>3. "answer" \notin DOMAIN n
    BY <1>2 DEF SoundNegotiator
  <2> HIDE DEF r
  <2>4. SoundNegotiator(r)
    BY <1>2, <2>2, <2>3 DEF SoundNegotiator
  <2> QED
    BY <2>1, <2>4
<1>3. CASE n.state \notin {"Initial", "LocalOffer"}
  BY <1>3 DEF SetRemote, Ended
<1> QED
  BY <1>1, <1>2, <1>3

LEMMA SoundOffer ==
    ASSUME NEW n, SoundNegotiator(n), NEW params \in Params
    PROVE  SoundNegotiator(OfferLocal(n, params).n)
<1> DEFINE sd == CreateOffer(params)
<1>1. IsDescription(sd)
  BY ParamsAssumption, OfferDescription
<1>2. CASE n.state = "Initial"
  <2> DEFINE r == Put(Put(n, "state", "LocalOffer"), "local", sd)
  <2>1. OfferLocal(n, params).n = r
    BY <1>2 DEF OfferLocal, SetLocal, Ended
  <2>2. /\ DOMAIN r = DOMAIN n \cup {"state", "local"} /\ r.state = "LocalOffer" /\ r.local = sd
        /\ \A f \in DOMAIN n \ {"state", "local"} : r[f] = n[f]
    BY DEF Put
  <2>3. "answer" \notin DOMAIN n /\ "remote" \notin DOMAIN n
    BY <1>2 DEF SoundNegotiator
  <2> HIDE DEF r, sd
  <2>4. SoundNegotiator(r)
    BY <1>1, <2>2, <2>3 DEF SoundNegotiator
  <2> QED
    BY <2>1, <2>4
<1>3. CASE n.state = "RemoteOffer"
  <2> DEFINE r == Put(Put(n, "state", "Ready"), "local", sd)
  <2>1. OfferLocal(n, params).n = r
    BY <1>3 DEF OfferLocal, SetLocal, Ended
  <2>2. /\ DOMAIN r = DOMAIN n \cup {"state", "local"} /\ r.state = "Ready" /\ r.local = sd
        /\ \A f \in DOMAIN n \ {"state", "local"} : r[f] = n[f]
    BY DEF Put
  <2>3. "answer" \notin DOMAIN n /\ "remote" \in DOMAIN n
    BY <1>3 DEF SoundNegotiator
  <2> HIDE DEF r, sd
  <2>4. SoundNegotiator(r)
    BY <1>1, <2>2, <2>3 DEF SoundNegotiator
  <2> QED
    BY <2>1, <2>4
<1>4. CASE n.state \notin {"Initial", "RemoteOffer"}
  BY <1>4 DEF OfferLocal, Ended
<1> QED
  BY <1>2, <1>3, <1>4

LEMMA SoundCreate ==
    ASSUME NEW n, SoundNegotiator(n) PROVE SoundNegotiator(CreateAnswer(n).n)
<1>1. CASE n.state = "Ready" /\ Negotiable(n.local, n.remote)
  <2> DEFINE sd == Answer(n.local, n.remote)
             r == Put(Put(n, "state", "Done"), "answer", sd)
  <2>1. CreateAnswer(n).n = r
    BY <1>1 DEF CreateAnswer, Ended
  <2>2. /\ DOMAIN r = DOMAIN n \cup {"state", "answer"} /\ r.state = "Done" /\ r.answer = sd
        /\ \A f \in DOMAIN n \ {"state", "answer"} : r[f] = n[f]
    BY DEF Put
  <2>3. {"local", "remote"} \subseteq DOMAIN n
    BY <1>1 DEF SoundNegotiator
  <2>4. IsDescription(n.local) /\ IsDescription(n.remote)
    BY <2>3 DEF SoundNegotiator
  <2>5. IsDescription(sd)
    BY <2>4, AnswerDescription
  <2>6. sd = Answer(r.local, r.remote)
    BY <2>2, <2>3
  <2> HIDE DEF r, sd
  <2>7. SoundNegotiator(r)
    BY <2>2, <2>5, <2>6 DEF SoundNegotiator
  <2> QED
    BY <2>1, <2>7
<1>2. CASE ~(n.state = "Ready" /\ Negotiable(n.local, n.remote))
  BY <1>2 DEF CreateAnswer, Ended
<1> QED
  BY <1>1, <1>2

LEMMA SoundProcess ==
    ASSUME NEW n, SoundNegotiator(n), NEW sd, IsDescription(sd)
    PROVE  SoundNegotiator(ProcessAnswer(n, sd).n)
<1>1. CASE n.state = "LocalOffer" /\ Matches(n.local, sd)
  <2> DEFINE r == Put(Put(n, "state", "Done"), "answer", sd)
  <2>1. ProcessAnswer(n, sd).n = r
    BY <1>1 DEF ProcessAnswer, Ended, Matches
  <2>2. /\ DOMAIN r = DOMAIN n \cup {"state", "answer"} /\ r.state = "Done" /\ r.answer = sd
        /\ \A f \in DOMAIN n \ {"state", "answer"} : r[f] = n[f]
    BY DEF Put
  <2>3. "remote" \notin DOMAIN n
    BY <1>1 DEF SoundNegotiator
  <2> HIDE DEF r
  <2>4. SoundNegotiator(r)
    BY <2>2, <2>3 DEF SoundNegotiator
  <2> QED
    BY <2>1, <2>4
<1>2. CASE ~(n.state = "LocalOffer" /\ Matches(n.local, sd))
  BY <1>2 DEF ProcessAnswer, Ended, Matches
<1> QED
  BY <1>1, <1>2

(* What the bodies of the others do to them.                                *)
LEMMA ParsedDescription ==
    ASSUME NEW text, IsText(text), Parse(text) # {} PROVE IsDescription(Parsed(text))
BY ParseDescription DEF Parsed

LEMMA SoundTake2xx ==
    ASSUME NEW n, SoundNegotiator(n), NEW m, Bodied(m) => IsText(m.body),
           call.late \in Params \cup {None}
    PROVE  SoundNegotiator(Take2xx(n, m).n)
<1>1. CASE Kept(m) /\ Parse(m.body) # {}
  <2> DEFINE sd == Parsed(m.body)
  <2>1. IsDescription(sd)
    BY <1>1, ParsedDescription DEF Kept
  <2>2. Take2xx(n, m) = TakeBody(n, sd)
    BY <1>1 DEF Take2xx
  <2> HIDE DEF sd
  <2>3. CASE n.state # "Initial"
    BY <2>1, <2>2, <2>3, SoundProcess DEF TakeBody
  <2>4. CASE n.state = "Initial" /\ Given(call.late)
    <3> DEFINE x == OfferLocal(n, call.late).n
               y == SetRemote(x, sd).n
    <3>1. SoundNegotiator(x)
      BY <2>4, SoundOffer DEF Given
    <3>2. "local" \in DOMAIN x
      BY <2>4 DEF OfferLocal, SetLocal, Ended, Put
    <3> HIDE DEF x
    <3>3. SoundNegotiator(y)
      BY <2>1, <3>1, <3>2, SoundRemote
    <3>4. Take2xx(n, m) = CreateAnswer(y)
      BY <2>2, <2>4 DEF TakeBody, x
    <3> HIDE DEF y
    <3> QED
      BY <3>3, <3>4, SoundCreate
  <2>5. CASE n.state = "Initial" /\ ~Given(call.late)
    BY <2>2, <2>5 DEF TakeBody, Ended
  <2> QED
    BY <2>3, <2>4, <2>5
<1>2. CASE ~(Kept(m) /\ Parse(m.body) # {})
  BY <1>2 DEF Take2xx, Ended
<1> QED
  BY <1>1, <1>2

LEMMA SoundAccepted ==
    ASSUME NEW n, SoundNegotiator(n), call.accept \in Params PROVE SoundNegotiator(Accepted(n).n)
<1> DEFINE mine == OfferLocal(n, call.accept).n
<1>1. SoundNegotiator(mine)
  BY SoundOffer
<1>2. SoundNegotiator(CreateAnswer(mine).n)
  <2> HIDE DEF mine
  <2> QED
    BY <1>1, SoundCreate
<1> QED
  BY <1>1, <1>2 DEF Accepted, Ended

LEMMA SoundTakeAck ==
    ASSUME NEW n, SoundNegotiator(n), NEW m, Bodied(m) => IsText(m.body)
    PROVE  SoundNegotiator(TakeAck(n, m).n)
<1>1. CASE n.state = "LocalOffer" /\ Kept(m) /\ Parse(m.body) # {}
  <2>1. IsDescription(Parsed(m.body))
    BY <1>1, ParsedDescription DEF Kept
  <2>2. TakeAck(n, m) = ProcessAnswer(n, Parsed(m.body))
    BY <1>1 DEF TakeAck
  <2> QED
    BY <2>1, <2>2, SoundProcess
<1>2. CASE ~(n.state = "LocalOffer" /\ Kept(m) /\ Parse(m.body) # {})
  BY <1>2 DEF TakeAck, Ended
<1> QED
  BY <1>1, <1>2

(* A list of media, of one and of none. *)
AreMedia(s) == IsSeq(s) /\ \A j \in 1..Len(s) : IsMedium(s[j])
LEMMA OneMedium == ASSUME NEW x, IsMedium(x) PROVE AreMedia(<<x>>)
<1> DEFINE s == <<x>>
<1>1. IsSeq(s) /\ Len(s) = 1 /\ s[1] = x
  BY IsSeqOne
<1> HIDE DEF s
<1>2. AreMedia(s)
  BY <1>1 DEF AreMedia
<1> QED
  BY <1>2 DEF s
LEMMA NoMedia == AreMedia(<<>>)
<1> DEFINE s == <<>>
<1>1. IsSeq(s) /\ Len(s) = 0
  BY IsSeqEmpty
<1> HIDE DEF s
<1>2. AreMedia(s)
  BY <1>1 DEF AreMedia
<1> QED
  BY <1>2 DEF s

(* What others answer is a text.                                            *)
LEMMA SameMedium ==
    ASSUME NEW m, IsMedium(m), NEW x, DOMAIN x = DOMAIN m, x = [f \in DOMAIN x |-> x[f]],
           x.proto = m.proto, "c" \in DOMAIN x => x.c = m.c, IsSeq(x.fmts), IsSeq(x.a)
    PROVE  IsMedium(x)
BY DEF IsMedium, HasFields
LEMMA OtherMediaFacts ==
    ASSUME NEW m, IsMedium(m), NEW how \in {"taken", "refused", "left out"}
    PROVE  AreMedia(OtherMedia(m, how))
<1>1. {"type", "port", "proto", "fmts", "a"} \subseteq DOMAIN m
  BY DEF IsMedium, HasFields
<1>2. CASE how = "taken"
  <2> DEFINE f == IF m.fmts = <<>> THEN m.fmts ELSE <<m.fmts[1]>>
             a == <<Reverse3264(DirectionOf(m))>>
             x == Taken(m)
  <2>1. /\ DOMAIN x = DOMAIN m /\ x = [g \in DOMAIN x |-> x[g]]
        /\ x.proto = m.proto /\ ("c" \in DOMAIN x => x.c = m.c) /\ x.fmts = f /\ x.a = a
    BY <1>1 DEF Taken
  <2>2. IsSeq(f)
    BY IsSeqOne DEF IsMedium
  <2>3. IsSeq(a)
    BY IsSeqOne
  <2> HIDE DEF x, f, a
  <2>4. IsMedium(x)
    BY <2>1, <2>2, <2>3, SameMedium
  <2>5. OtherMedia(m, how) = <<x>>
    BY <1>2 DEF OtherMedia, x
  <2> QED
    BY <2>4, <2>5, OneMedium
<1>3. CASE how = "refused"
  <2> DEFINE x == [m EXCEPT !.port = "0"]
  <2>1. /\ DOMAIN x = DOMAIN m /\ x = [g \in DOMAIN x |-> x[g]]
        /\ x.proto = m.proto /\ ("c" \in DOMAIN x => x.c = m.c)
        /\ x.fmts = m.fmts /\ x.a = m.a
    BY <1>1
  <2>2. OtherMedia(m, how) = <<x>>
    BY <1>3 DEF OtherMedia
  <2> HIDE DEF x
  <2>3. IsMedium(x)
    BY <2>1, SameMedium DEF IsMedium
  <2> QED
    BY <2>2, <2>3, OneMedium
<1>4. CASE how = "left out"
  <2>1. OtherMedia(m, how) = <<>>
    BY <1>4 DEF OtherMedia
  <2> QED
    BY <2>1, NoMedia
<1> QED
  BY <1>2, <1>3, <1>4

(* As FlattenText, of media.                                                *)
LEMMA FlattenMedia ==
    ASSUME NEW ss, IsSeq(ss),
           \A i \in 1..Len(ss) : AreMedia(ss[i])
    PROVE  AreMedia(FlattenSeq(ss))
<1> DEFINE S == {ss[p[1]][p[2]] : p \in {q \in (1..Len(ss)) \X Nat : q[2] \in 1..Len(ss[q[1]])}}
<1>0. \A i \in 1..Len(ss) : IsSeq(ss[i]) /\ \A k \in 1..Len(ss[i]) : IsMedium(ss[i][k])
  BY DEF AreMedia
<1>1. ASSUME NEW i \in 1..Len(ss), NEW k \in 1..Len(ss[i]) PROVE ss[i][k] \in S
  <2>1. <<i, k>> \in {q \in (1..Len(ss)) \X Nat : q[2] \in 1..Len(ss[q[1]])}
    OBVIOUS
  <2> QED
    BY <2>1
<1>2. ASSUME NEW x \in S PROVE IsMedium(x)
  BY <1>0
<1> HIDE DEF S
<1>3. IsSeq(FlattenSeq(ss)) /\ \A k \in 1..Len(FlattenSeq(ss)) : FlattenSeq(ss)[k] \in S
  BY <1>0, <1>1, FlattenOver
<1> QED
  BY <1>2, <1>3 DEF AreMedia

LEMMA OtherText ==
    ASSUME NEW text, IsText(text), NEW t \in OtherAnswers(text) PROVE IsText(t)
<1>0. PICK sd \in Parse(text) :
        \E answer \in OtherDescriptions(sd), extra \in OtherExtras : t = Write(answer) \o extra
  BY DEF OtherAnswers
<1>1. PICK answer \in OtherDescriptions(sd), extra \in OtherExtras : t = Write(answer) \o extra
  BY <1>0
<1>2. PICK how \in [DOMAIN sd.media -> {"taken", "refused", "left out"}] :
        answer = [sd EXCEPT !.media = FlattenSeq([k \in DOMAIN sd.media |-> OtherMedia(sd.media[k], how[k])])]
  BY DEF OtherDescriptions
<1>3. IsDescription(sd)
  BY ParseDescription
<1> DEFINE n == Len(sd.media)
           Of(k) == OtherMedia(sd.media[k], how[k])
           ss == [k \in DOMAIN sd.media |-> Of(k)]
           media == FlattenSeq(ss)
<1>4. n \in Nat /\ DOMAIN sd.media = 1..n /\ \A k \in 1..n : IsMedium(sd.media[k])
  BY <1>3, Elements DEF IsDescription
<1>5. \A k \in 1..n : AreMedia(Of(k))
  BY <1>4, OtherMediaFacts
<1>6. answer = [sd EXCEPT !.media = media]
  BY <1>2
<1> HIDE DEF Of
<1>7. ss = [k \in 1..n |-> ss[k]] /\ \A k \in 1..n : ss[k] = Of(k)
  BY <1>4
<1> HIDE DEF ss, n
<1>8. IsSeq(ss) /\ Len(ss) = n
  BY <1>4, <1>7, IsSeqMap
<1>9. AreMedia(media)
  BY <1>5, <1>7, <1>8, FlattenMedia
<1> HIDE DEF media
<1>10. IsDescription(answer)
  BY <1>3, <1>6, <1>9, MediaDescription DEF AreMedia
<1>11. IsText(Write(answer)) /\ IsText(extra)
  BY <1>10, WriteText, TextAssumption
<1> QED
  BY <1>1, <1>11, ConcatText

-----------------------------------------------------------------------------
(* Every step keeps them.                                                   *)

LEMMA Bodies ==
    /\ \A text : Invite(text).body = text
    /\ \A text, typed : Final(text, typed).body = text /\ Msg("refusal", text, typed).body = text
    /\ \A text, typed, whole : Ack(text, typed, whole).body = text
BY DEF Invite, Final, Ack, Msg, Put

(* The step puts a message with the body x on the wire, or none.            *)
LEMMA TextsKeep ==
    ASSUME TextsInv, UNCHANGED call, NEW gone, NEW m, Discard(gone) \/ Emit(gone, m),
           Bodied(m) => IsText(m.body), SoundNegotiator(caller'.n), SoundNegotiator(callee'.n)
    PROVE  TextsInv'
<1>1. wire' \subseteq wire \cup {m}
  BY DEF Discard, Emit
<1> QED
  BY <1>1 DEF TextsInv, Bodied
LEMMA TextsLess ==
    ASSUME TextsInv, UNCHANGED call, wire' \subseteq wire,
           SoundNegotiator(caller'.n), SoundNegotiator(callee'.n)
    PROVE  TextsInv'
BY DEF TextsInv, Bodied

LEMMA TextsInit == Init => TextsInv
BY SoundFresh DEF Init, TextsInv, Circumstances

(* What the callee has of a 2xx to write. *)
LEMMA AcceptWrites ==
    ASSUME CallInv, TextsInv, Is(2, "rssip"), callee.at = "incoming", Accepted(callee.n).how = "ok"
    PROVE  \/ "answer" \in DOMAIN Accepted(callee.n).n
           \/ "local" \in DOMAIN Accepted(callee.n).n
<1>1. CASE Bodied(sent["INVITE"])
  <2>1. callee.n = SetRemote(Fresh, Parsed(sent["INVITE"].body)).n
    BY <1>1 DEF CallInv, CalleeInv, CalleeWithOffer
  <2> DEFINE mine == OfferLocal(callee.n, call.accept).n
  <2>2. mine.state = "Ready"
    BY <2>1, RemoteFirst
  <2>3. Accepted(callee.n) = CreateAnswer(mine)
    BY <2>2 DEF Accepted
  <2> HIDE DEF mine
  <2> QED
    BY <2>2, <2>3, CreateFacts
<1>2. CASE ~Bodied(sent["INVITE"])
  <2>1. callee.n = Fresh
    BY <1>2 DEF CallInv, CalleeInv, CalleeOffers
  <2>2. Accepted(callee.n) = Ended("ok", OfferLocal(Fresh, call.accept).n)
    BY <2>1, AcceptFacts
  <2> QED
    BY <2>2, OfferedFacts DEF Ended
<1> QED
  BY <1>1, <1>2

LEMMA TextsStep == CallInv /\ TextsInv /\ [Next]_vars => TextsInv'
<1> SUFFICES ASSUME CallInv, TextsInv, [Next]_vars PROVE TextsInv'
  OBVIOUS
<1>1. SoundNegotiator(caller.n) /\ SoundNegotiator(callee.n)
  BY DEF TextsInv
<1>2. CASE SendInvite
  <2> DEFINE n == Offering
             text == IF Given(call.offer) THEN Write(n.local) ELSE NoBody
  <2>1. caller'.n = n /\ UNCHANGED <<call, callee>> /\ Emit({}, Invite(text))
    BY <1>2 DEF SendInvite
  <2>2. SoundNegotiator(n)
    BY SoundFresh, SoundOffer DEF Offering, TextsInv, Given
  <2>3. Given(call.offer) => IsText(text)
    <3> SUFFICES ASSUME Given(call.offer) PROVE IsText(Write(n.local))
      OBVIOUS
    <3>1. n.local = CreateOffer(call.offer)
      BY OfferedFacts DEF Offering
    <3>2. IsDescription(n.local)
      BY <3>1, ParamsAssumption, OfferDescription DEF TextsInv, Given
    <3> QED
      BY <3>2, WriteText
  <2>4. Bodied(Invite(text)) => IsText(Invite(text).body)
    BY <2>3, Bodies DEF Bodied
  <2> HIDE DEF text, n
  <2> QED
    BY <1>1, <2>1, <2>2, <2>4, TextsKeep
<1>3. CASE SendInviteFails \/ NoFinalResponse \/ NoAck \/ UNCHANGED vars
  <2>1. caller'.n = caller.n /\ callee'.n = callee.n /\ UNCHANGED <<call, wire>>
    BY <1>3 DEF SendInviteFails, NoFinalResponse, NoAck, vars
  <2> QED
    BY <1>1, <2>1, TextsLess
<1>4. ASSUME NEW m \in Arrived("2xx"), ReceiveAnswer(m) PROVE TextsInv'
  <2> DEFINE r == Take2xx(caller.n, m)
             answers == Kept(m) /\ caller.n.state = "Initial"
             text == IF answers THEN Write(r.n.answer) ELSE NoBody
             ack == Ack(text, FALSE, FALSE)
  <2>1. caller'.n = r.n /\ UNCHANGED <<call, callee>>
    BY <1>4, ReceiveEnds
  <2>0. (r.how = "ok" /\ Emit({m}, ack)) \/ Discard({m})
    BY <1>4, Zenon DEF ReceiveAnswer
  <2>2. SoundNegotiator(r.n)
    BY <1>1, SoundTake2xx DEF TextsInv, Arrived
  <2>3. r.how = "ok" /\ answers => IsText(text)
    <3> SUFFICES ASSUME r.how = "ok", answers PROVE IsText(Write(r.n.answer))
      OBVIOUS
    <3>1. "answer" \in DOMAIN r.n
      <4>1. r = TakeBody(caller.n, Parsed(m.body))
        BY DEF Take2xx, Ended
      <4>2. Given(call.late) /\ r = CreateAnswer(SetRemote(OfferLocal(caller.n, call.late).n, Parsed(m.body)).n)
        BY <4>1 DEF TakeBody, Ended
      <4> DEFINE x == SetRemote(OfferLocal(caller.n, call.late).n, Parsed(m.body)).n
      <4>3. r = CreateAnswer(x)
        BY <4>2
      <4> HIDE DEF x
      <4>4. CreateAnswer(x).how = "ok" => "answer" \in DOMAIN CreateAnswer(x).n
        BY DEF CreateAnswer, Ended, Put
      <4> QED
        BY <4>3, <4>4
    <3>2. IsDescription(r.n.answer)
      BY <2>2, <3>1 DEF SoundNegotiator
    <3> QED
      BY <3>2, WriteText
  <2>4. r.how = "ok" => (Bodied(ack) => IsText(ack.body))
    <3>1. ack.body = text
      BY DEF Ack, Msg, Put
    <3> HIDE DEF ack, r
    <3> QED
      BY <2>3, <3>1 DEF Bodied
  <2> HIDE DEF r, ack
  <2>5. CASE r.how = "ok" /\ Emit({m}, ack)
    BY <1>1, <2>1, <2>2, <2>4, <2>5, TextsKeep
  <2>6. CASE Discard({m})
    BY <1>1, <2>1, <2>2, <2>6, TextsLess DEF Discard
  <2> QED
    BY <2>0, <2>5, <2>6
<1>5. ASSUME NEW m, ReceiveRefusal(m) \/ Lose(m) PROVE TextsInv'
  <2>1. caller'.n = caller.n /\ callee'.n = callee.n /\ UNCHANGED call /\ wire' \subseteq wire
    BY <1>5 DEF ReceiveRefusal, Lose, Discard
  <2> QED
    BY <1>1, <2>1, TextsLess
<1>6. ASSUME NEW m \in Arrived("INVITE"), FromInvite(m) PROVE TextsInv'
  <2>1. UNCHANGED <<call, caller>> /\ wire' \subseteq wire
    BY <1>6 DEF FromInvite, Discard
  <2>2. SoundNegotiator(callee'.n)
    <3>1. CASE Kept(m) /\ Parse(m.body) # {}
      <4>1. callee'.n = SetRemote(callee.n, Parsed(m.body)).n /\ callee.n = Fresh
        BY <1>6, <3>1 DEF FromInvite, CallInv, CalleeInv
      <4>2. IsDescription(Parsed(m.body))
        BY <3>1, ParsedDescription DEF TextsInv, Arrived, Kept
      <4>3. callee.n.state # "LocalOffer"
        BY <4>1 DEF Fresh
      <4> QED
        BY <1>1, <4>1, <4>2, <4>3, SoundRemote
    <3>2. CASE ~(Kept(m) /\ Parse(m.body) # {})
      <4>1. callee'.n = callee.n
        BY <1>6, <3>2 DEF FromInvite
      <4> QED
        BY <1>1, <4>1
    <3> QED
      BY <3>1, <3>2
  <2> QED
    BY <1>1, <2>1, <2>2, TextsLess
<1>7. CASE Accept
  <2> DEFINE r == Accepted(callee.n)
             text == Write(IF "answer" \in DOMAIN r.n THEN r.n.answer ELSE r.n.local)
             final == Final(text, FALSE)
  <2>1. /\ Is(2, "rssip") /\ callee.at = "incoming"
        /\ callee'.n = r.n /\ UNCHANGED <<call, caller>>
    BY <1>7, AcceptEnds
  <2>0. (r.how = "ok" /\ Emit({}, final)) \/ Discard({})
    BY <1>7, Zenon DEF Accept
  <2>2. SoundNegotiator(r.n)
    BY <1>1, SoundAccepted DEF TextsInv
  <2>3. r.how = "ok" => IsText(text)
    <3> SUFFICES ASSUME r.how = "ok" PROVE IsText(text)
      OBVIOUS
    <3>1. "answer" \in DOMAIN r.n \/ "local" \in DOMAIN r.n
      BY <2>1, AcceptWrites
    <3>2. IsDescription(IF "answer" \in DOMAIN r.n THEN r.n.answer ELSE r.n.local)
      <4> HIDE DEF r
      <4> QED
        BY <2>2, <3>1 DEF SoundNegotiator
    <3> QED
      BY <3>2, WriteText
  <2>4. r.how = "ok" => (Bodied(final) => IsText(final.body))
    BY <2>3, Bodies
  <2> HIDE DEF r, final
  <2>5. CASE r.how = "ok" /\ Emit({}, final)
    BY <1>1, <2>1, <2>2, <2>4, <2>5, TextsKeep
  <2>6. CASE Discard({})
    BY <1>1, <2>1, <2>2, <2>6, TextsLess DEF Discard
  <2> QED
    BY <2>0, <2>5, <2>6
<1>8. ASSUME NEW m \in Arrived("ACK"), WaitForAck(m) PROVE TextsInv'
  <2>1. callee'.n = TakeAck(callee.n, m).n /\ UNCHANGED <<call, caller>> /\ wire' \subseteq wire
    BY <1>8 DEF WaitForAck, Discard
  <2>2. SoundNegotiator(callee'.n)
    BY <1>1, <2>1, SoundTakeAck DEF TextsInv, Arrived
  <2> QED
    BY <1>1, <2>1, <2>2, TextsLess
<1>9. ASSUME NEW text \in OtherOffers \cup {NoBody}, OtherInvites(text) PROVE TextsInv'
  <2>1. UNCHANGED <<call, callee>> /\ Emit({}, Invite(text)) /\ SoundNegotiator(caller'.n)
    BY <1>9, SoundFresh DEF OtherInvites
  <2>2. Bodied(Invite(text)) => IsText(Invite(text).body)
    BY TextAssumption, Bodies DEF Bodied
  <2> QED
    BY <1>1, <2>1, <2>2, TextsKeep
<1>10. ASSUME NEW m \in Arrived("2xx"), OtherAcks(m) PROVE TextsInv'
  <2>1. PICK text \in {NoBody} \cup
                 (IF caller.n.state = "Initial" /\ Bodied(m) THEN OtherAnswers(m.body) ELSE {}) :
               Emit({m}, Ack(text, TRUE, TRUE))
    BY <1>10 DEF OtherAcks
  <2>2. text = NoBody \/ IsText(text)
    BY OtherText DEF TextsInv, Arrived
  <2>3. Bodied(Ack(text, TRUE, TRUE)) => IsText(Ack(text, TRUE, TRUE).body)
    <3>1. Ack(text, TRUE, TRUE).body = text
      BY DEF Ack, Msg, Put
    <3> QED
      BY <2>2, <3>1 DEF Bodied
  <2>4. caller'.n = caller.n /\ UNCHANGED <<call, callee>>
    BY <1>10 DEF OtherAcks
  <2> QED
    BY <1>1, <2>1, <2>3, <2>4, TextsKeep
<1>11. ASSUME NEW m \in Arrived("INVITE"), OtherAnswersCall(m) PROVE TextsInv'
  <2>1. PICK x \in OtherFinals(m) : Emit({m}, x)
    BY <1>11 DEF OtherAnswersCall
  <2>2. \/ \E text \in OtherOffers : x = Final(text, TRUE)
        \/ Bodied(m) /\ \E text \in OtherAnswers(m.body) : x = Final(text, TRUE)
        \/ x = Final(NoBody, FALSE) \/ x = Msg("refusal", NoBody, FALSE)
    BY DEF OtherFinals
  <2>3. x.body = NoBody \/ IsText(x.body)
    <3>1. ASSUME NEW text PROVE Final(text, TRUE).body = text
      BY DEF Final, Msg
    <3>2. Final(NoBody, FALSE).body = NoBody /\ Msg("refusal", NoBody, FALSE).body = NoBody
      BY DEF Final, Msg
    <3>3. Bodied(m) => IsText(m.body)
      BY DEF TextsInv, Arrived
    <3> QED
      BY <2>2, <3>1, <3>2, <3>3, OtherText, TextAssumption
  <2>4. callee'.n = callee.n /\ UNCHANGED <<call, caller>>
    BY <1>11 DEF OtherAnswersCall
  <2> QED
    BY <1>1, <2>1, <2>3, <2>4, TextsKeep DEF Bodied
<1> QED
  BY <1>2, <1>3, <1>4, <1>5, <1>6, <1>7, <1>8, <1>9, <1>10, <1>11
     DEF Next, Caller, Callee, Other

LEMMA TextsAlways == Spec => []TextsInv
<1>1. CallInv /\ [Next]_vars => CallInv'
  BY OnceStep, CallerStep, CalleeStep DEF CallInv
<1> QED
  BY CallInit, TextsInit, TextsStep, <1>1, PTL DEF Spec

(* Both sides end with the same idea of what flows in each stream, whatever *)
(* the parameters and the texts of the other side, but for the streams that *)
(* Misleading names: create_answer.                                         *)
THEOREM AnswersFit == Spec => []AnswerFits
<1>1. TextsInv => AnswerFits
  <2> SUFFICES ASSUME TextsInv, NEW n \in Answering, NEW k \in DOMAIN n.remote.media
               PROVE  Found(n, k) = Common(n, k) \/ (k \in Paired(n.local, n.remote) /\ Misleading(n, k))
    BY DEF AnswerFits
  <2>1. SoundNegotiator(n) /\ {"local", "remote", "answer"} \subseteq DOMAIN n
    BY DEF Answering, TextsInv
  <2>2. IsDescription(n.local) /\ IsDescription(n.remote) /\ n.answer = Answer(n.local, n.remote)
    BY <2>1 DEF SoundNegotiator
  <2> QED
    BY <2>2, AnswerCommon
<1> QED
  BY TextsAlways, <1>1, PTL

(* What a negotiator of rssip holds of a call, its own description or the   *)
(* peer's, can be written and read again as what was negotiated, exactly    *)
(* when it has no application, no title of a medium and no medium without   *)
(* formats, which create_answer makes where the sides have none in common.  *)
THEOREM DescriptionsSurvive == Spec => []DescriptionSurvives
<1>1. TextsInv => DescriptionSurvives
  <2> SUFFICES ASSUME TextsInv, NEW sd \in Held
               PROVE  (Parse(Write(sd)) = {sd})
                        <=> \A k \in DOMAIN sd.media : Legible(sd.media[k])
    BY DEF DescriptionSurvives
  <2>1. SoundNegotiator(caller.n) /\ SoundNegotiator(callee.n)
    BY DEF TextsInv
  <2>2. IsDescription(sd)
    BY <2>1 DEF Held, SoundNegotiator
  <2> QED
    BY <2>2, WrittenIsReadBack
<1> QED
  BY TextsAlways, <1>1, PTL

=============================================================================
