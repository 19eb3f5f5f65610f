----------------------------- MODULE OfferAnswer -----------------------------
(***************************************************************************)
(* The offer and the answer of one call, from the INVITE to the media: the *)
(* sessions of ua/session.rs on both sides, the requests and responses     *)
(* that Dialog makes for them, the negotiators of Sdp, and what of their   *)
(* messages the parser of the other side takes in.                         *)
(*                                                                         *)
(* Each side is rssip or another implementation of SIP, which writes what  *)
(* it likes within RFC 3264.  Messages may be lost, and arrive at any      *)
(* time; their repetition is ServerTsx's, ClientTsx's and UasCall's.  A    *)
(* side has failed when the layers below could not send or receive a       *)
(* message for it, at all or in time; error and panic are what a message   *)
(* that did arrive, or its own parameters, come to.                        *)
(***************************************************************************)
EXTENDS Sdp

CONSTANTS
    Sides,          \* pairs: who calls, who is called ("rssip" or "other")
    Params,         \* the SdpOfferParams of applications of rssip
    OtherOffers,    \* the texts of others' offers
    OtherExtras     \* lines others add to their answers

ASSUME ParamsAssumption ==
    \A params \in Params :
        /\ params.ip \in Addresses /\ IsSeq(params.streams)
        /\ \A k \in 1..Len(params.streams) :
             params.streams[k].proto \in Transports /\ IsSeq(params.streams[k].codecs)
ASSUME TextAssumption == \A text \in OtherOffers \cup OtherExtras : IsText(text)

VARIABLES
    call,       \* the circumstances of the call, fixed when it begins
    caller,     \* where it is, its negotiator
    callee,     \* where it is, its negotiator
    wire,       \* the messages on their way
    sent        \* history: the messages written, by their kind

vars == <<call, caller, callee, wire, sent>>

(* No parameters: the INVITE has no offer, or the application gives none   *)
(* to receive_answer.  contact: the parameter of send_invite, or the       *)
(* caller's own address in its absence.                                    *)
None == [streams |-> "none"]
Given(params) == params # None
Circumstances ==
    {c \in [sides : Sides, contact : {"callee", "own"}, offer : Params \cup {None},
            late : Params \cup {None}, accept : Params] :
        /\ c.sides[1] = "rssip" \/ (c.contact = "callee" /\ c.offer = None)
        /\ Given(c.offer) \/ c.sides[1] = "other" => c.late = None
        /\ c.sides[2] = "other" => c.accept = CHOOSE p \in Params : TRUE}

Init ==
    /\ call \in Circumstances
    /\ caller = [at |-> "idle", n |-> Fresh]
    /\ callee = [at |-> "idle", n |-> Fresh]
    /\ wire = {} /\ sent = <<>>

(* A message: its body is none, or a text with or without a Content-Type.  *)
Msg(kind, text, typed) == [kind |-> kind, body |-> text, typed |-> typed]
NoBody == <<"none">>
Bodied(m) == m.body # NoBody
\* What Parse has read, when it has.
Parsed(text) == CHOOSE sd \in Parse(text) : TRUE
\* parse_sip_msg keeps a body only below a Content-Type.
Kept(m) == Bodied(m) /\ m.typed

Invite(text) == Put(Msg("INVITE", text, TRUE), "to", call.contact)
Final(text, typed) == Msg("2xx", text, typed)
\* The ACK of receive_answer is sent through the endpoint: create_request puts
\* the From and To of create_uac in it, and the Via that ClientTransaction
\* puts into requests is missing.
Ack(text, typed, whole) == Put(Put(Msg("ACK", text, typed), "via", whole), "tag", whole)

Is(side, who) == call.sides[side] = who
Arrived(kind) == {m \in wire : m.kind = kind}
Discard(gone) == wire' = wire \ gone /\ UNCHANGED sent
Emit(gone, m) == wire' = (wire \ gone) \cup {m} /\ sent' = Put(sent, m.kind, m)
Lose(m) == Discard({m}) /\ UNCHANGED <<call, caller, callee>>

-----------------------------------------------------------------------------
(* The caller: send_invite and receive_answer.                             *)

\* create_offer and set_local_offer, when there are parameters.
Offering == IF Given(call.offer) THEN OfferLocal(Fresh, call.offer).n ELSE Fresh
SendInvite ==
    /\ Is(1, "rssip") /\ caller.at = "idle"
    /\ caller' = [at |-> "calling", n |-> Offering]
    /\ Emit({}, Invite(IF Given(call.offer) THEN Write(Offering.local) ELSE NoBody))
    /\ UNCHANGED <<call, callee>>
\* No transport leads to the request-URI.
SendInviteFails ==
    /\ Is(1, "rssip") /\ caller.at = "idle"
    /\ caller' = [at |-> "failed", n |-> caller.n]
    /\ UNCHANGED <<call, callee, wire, sent>>

\* What a 2xx and its body do to the negotiator.
TakeBody(n, sd) ==
    IF n.state # "Initial" THEN ProcessAnswer(n, sd)
    ELSE IF ~Given(call.late) THEN Ended("error", n)
    ELSE CreateAnswer(SetRemote(OfferLocal(n, call.late).n, sd).n)
Take2xx(n, m) ==
    IF ~Kept(m) THEN Ended("ok", n)
    ELSE IF Parse(m.body) = {} THEN Ended("error", n)
    ELSE TakeBody(n, Parsed(m.body))

\* The ACK has a body when the 2xx has made the offer, and no Content-Type.
\* It is not sent when the 2xx cannot be used; it is when the 2xx has no body,
\* and the unwrap of the answer that is not there comes after it.  When no
\* transport leads to the target or the transport refuses the ACK, that is the
\* end, whatever the negotiator has come to.
ReceiveAnswer(m) ==
    LET result == Take2xx(caller.n, m)
        answers == Kept(m) /\ caller.n.state = "Initial"
        text == IF answers THEN Write(result.n.answer) ELSE NoBody
    IN  /\ Is(1, "rssip") /\ caller.at = "calling"
        /\ \/ /\ result.how # "ok" /\ Discard({m})
              /\ caller' = [at |-> result.how, n |-> result.n]
           \/ /\ result.how = "ok" /\ Emit({m}, Ack(text, FALSE, FALSE))
              /\ caller' = [at |-> IF "answer" \in DOMAIN result.n THEN "media" ELSE "panic",
                            n |-> result.n]
           \/ /\ result.how = "ok" /\ Discard({m})
              /\ caller' = [at |-> "failed", n |-> result.n]
        /\ UNCHANGED <<call, callee>>
\* Every other final response is todo!().
ReceiveRefusal(m) ==
    /\ Is(1, "rssip") /\ caller.at = "calling"
    /\ Discard({m})
    /\ caller' = [at |-> "panic", n |-> caller.n]
    /\ UNCHANGED <<call, callee>>
\* receive_final_response is an error: Timer B, a retransmission that cannot be
\* sent, a closed channel, or a provisional response that waits to be received.
NoFinalResponse ==
    /\ Is(1, "rssip") /\ caller.at = "calling"
    /\ caller' = [at |-> "failed", n |-> caller.n]
    /\ UNCHANGED <<call, callee, wire, sent>>

-----------------------------------------------------------------------------
(* The callee: from_invite and accept.                                     *)

\* An offer that does not parse is an error before there is a transaction.
FromInvite(m) ==
    /\ Is(2, "rssip") /\ callee.at = "idle" /\ m.to = "callee"
    /\ callee' =
         IF ~Kept(m) THEN [at |-> "incoming", n |-> callee.n]
         ELSE IF Parse(m.body) = {} THEN [at |-> "error", n |-> callee.n]
         ELSE [at |-> "incoming", n |-> SetRemote(callee.n, Parsed(m.body)).n]
    /\ Discard({m})
    /\ UNCHANGED <<call, caller>>
\* An offer is answered; without one, the 2xx makes it.  When the transport
\* refuses the 2xx, accept is an error.
Accepted(n) ==
    LET mine == OfferLocal(n, call.accept).n
    IN  IF mine.state = "Ready" THEN CreateAnswer(mine) ELSE Ended("ok", mine)
Accept ==
    LET result == Accepted(callee.n)
        text == Write(IF "answer" \in DOMAIN result.n THEN result.n.answer ELSE result.n.local)
    IN  /\ Is(2, "rssip") /\ callee.at = "incoming"
        /\ \/ /\ result.how # "ok" /\ Discard({})
              /\ callee' = [at |-> result.how, n |-> result.n]
           \/ /\ result.how = "ok" /\ Emit({}, Final(text, FALSE))
              /\ callee' = [at |-> "waiting", n |-> result.n]
           \/ /\ result.how = "ok" /\ Discard({})
              /\ callee' = [at |-> "failed", n |-> result.n]
        /\ UNCHANGED <<call, caller>>

\* process_message asks for a Via, DialogPlugin for a To tag.
Reaches(m) == m.via /\ m.tag
TakeAck(n, m) ==
    IF n.state # "LocalOffer" THEN Ended("ok", n)
    ELSE IF ~Kept(m) \/ Parse(m.body) = {} THEN Ended("error", n)
    ELSE ProcessAnswer(n, Parsed(m.body))
WaitForAck(m) ==
    LET result == TakeAck(callee.n, m)
    IN  /\ Is(2, "rssip") /\ callee.at = "waiting" /\ Reaches(m)
        /\ callee' = [at |-> IF result.how = "ok" THEN "media" ELSE result.how, n |-> result.n]
        /\ Discard({m})
        /\ UNCHANGED <<call, caller>>
NoAck ==
    /\ Is(2, "rssip") /\ callee.at = "waiting"
    /\ callee' = [at |-> "failed", n |-> callee.n]
    /\ UNCHANGED <<call, caller, wire, sent>>

-----------------------------------------------------------------------------
(* Another implementation.  It types its bodies, and answers each stream:  *)
(* it takes the first format, or it refuses the stream with port 0 or, as  *)
(* rssip does, by leaving it out.  It reads SDP as rssip does.             *)

Reverse3264(d) == CASE d = "sendonly" -> "recvonly" [] d = "recvonly" -> "sendonly" [] OTHER -> d
Taken(m) ==
    [m EXCEPT !.fmts = IF @ = <<>> THEN @ ELSE <<@[1]>>, !.a = <<Reverse3264(DirectionOf(m))>>]
OtherMedia(m, how) ==
    CASE how = "taken" -> <<Taken(m)>>
      [] how = "refused" -> <<[m EXCEPT !.port = "0"]>>
      [] how = "left out" -> <<>>
OtherDescriptions(sd) ==
    {[sd EXCEPT !.media = FlattenSeq([k \in DOMAIN @ |-> OtherMedia(@[k], how[k])])] :
        how \in [DOMAIN sd.media -> {"taken", "refused", "left out"}]}
OtherAnswers(text) ==
    {Write(answer) \o extra :
        answer \in UNION {OtherDescriptions(sd) : sd \in Parse(text)}, extra \in OtherExtras}

OtherInvites(text) ==
    /\ Is(1, "other") /\ caller.at = "idle"
    /\ Emit({}, Invite(text))
    /\ caller' = [at |-> "calling",
                  n |-> IF text = NoBody THEN Fresh ELSE Put(Fresh, "state", "LocalOffer")]
    /\ UNCHANGED <<call, callee>>
OtherAcks(m) ==
    /\ Is(1, "other") /\ caller.at = "calling"
    /\ caller' = [at |-> "media", n |-> caller.n]
    /\ \E text \in {NoBody} \cup
            (IF caller.n.state = "Initial" /\ Bodied(m) THEN OtherAnswers(m.body) ELSE {}) :
         Emit({m}, Ack(text, TRUE, TRUE))
    /\ UNCHANGED <<call, callee>>
OtherFinals(m) ==
    {Final(text, TRUE) : text \in IF Bodied(m) THEN OtherAnswers(m.body) ELSE OtherOffers}
        \cup {Final(NoBody, FALSE), Msg("refusal", NoBody, FALSE)}
OtherAnswersCall(m) ==
    /\ Is(2, "other") /\ callee.at = "idle" /\ m.to = "callee"
    /\ callee' = [at |-> "media", n |-> callee.n]
    /\ \E final \in OtherFinals(m) : Emit({m}, final)
    /\ UNCHANGED <<call, caller>>

-----------------------------------------------------------------------------
Caller ==
    \/ SendInvite \/ SendInviteFails \/ NoFinalResponse
    \/ \E m \in Arrived("2xx") : ReceiveAnswer(m)
    \/ \E m \in Arrived("refusal") : ReceiveRefusal(m)
Callee ==
    \/ Accept \/ NoAck
    \/ \E m \in Arrived("INVITE") : FromInvite(m)
    \/ \E m \in Arrived("ACK") : WaitForAck(m)
Other ==
    \/ \E text \in OtherOffers \cup {NoBody} : OtherInvites(text)
    \/ \E m \in Arrived("2xx") : OtherAcks(m)
    \/ \E m \in Arrived("INVITE") : OtherAnswersCall(m)
Next == Caller \/ Callee \/ Other \/ \E m \in wire : Lose(m)

Spec == Init /\ [][Next]_vars

-----------------------------------------------------------------------------
(* Properties.                                                             *)

Held == UNION {{n[f] : f \in DOMAIN n \ {"state"}} : n \in {caller.n, callee.n}}

\* A description that a negotiator has, its own or the peer's, is read back
\* from its text as the same description, unless one of its media has a title,
\* is an application, or has no format left, as create_answer leaves a stream
\* for which the sides have none in common (negotiator.rs:320): what Session
\* sends, and an application displays or stores, is what was negotiated.
DescriptionSurvives ==
    \A sd \in Held :
        (Parse(Write(sd)) = {sd}) <=> \A k \in DOMAIN sd.media : Legible(sd.media[k])

(* What flows, seen from the side that answers.                            *)
Ways(d, send, recv) ==
    (IF d \in {"recvonly", "inactive"} THEN {} ELSE {send})
        \cup (IF d \in {"sendonly", "inactive"} THEN {} ELSE {recv})
Flow(d) == Ways(d, "send", "recv")
Mirror(d) == Ways(d, "recv", "send")
Answering == {n \in {caller.n, callee.n} : {"local", "remote", "answer"} \subseteq DOMAIN n}
\* What both sides can have of the k-th stream of the offer.
Common(n, k) ==
    IF ~(k \in Paired(n.local, n.remote) /\ Active(n.local, n.remote, k)) THEN {}
    ELSE IF ToSet(n.local.media[k].fmts) \cap ToSet(n.remote.media[k].fmts) = {} THEN {}
    ELSE Flow(DirectionOf(n.local.media[k])) \cap Mirror(DirectionOf(n.remote.media[k]))
\* What the offerer, which counts the streams, finds for it in the answer.
Found(n, k) ==
    IF k > Len(n.answer.media) \/ n.answer.media[k].fmts = <<>> THEN {}
    ELSE Flow(DirectionOf(n.answer.media[k]))
\* The answers that may say something else: a stream before it was passed over,
\* the offer is explicit where the answering side has no direction, or the
\* other way round says sendrecv to a side that wants less.
Misleading(n, k) ==
    \/ \E j \in 1..k : j \in Paired(n.local, n.remote) /\ ~Active(n.local, n.remote, j)
    \/ DirectionOf(n.remote.media[k]) \in {"sendonly", "recvonly"} /\ DirectionOf(n.local.media[k]) = "none"
    \/ DirectionOf(n.remote.media[k]) = "sendrecv"
       /\ DirectionOf(n.local.media[k]) \notin {"none", "sendrecv"}

\* Both sides end with the same idea of what flows in each stream: what they
\* both want and have a format for.  This is about what the answer says; whether
\* the offerer can read it is DescriptionSurvives' to tell.
AnswerFits ==
    \A n \in Answering : \A k \in DOMAIN n.remote.media :
        Found(n, k) = Common(n, k) \/ (k \in Paired(n.local, n.remote) /\ Misleading(n, k))

(* Whether two descriptions can be negotiated at all.                      *)
Matches(x, y) == \A k \in Paired(x, y) : Alike(x.media[k], y.media[k])
Static(x, y) == \A k \in Paired(x, y) : Active(x, y, k) => ToSet(x.media[k].fmts) \cap Dynamic = {}
CanAnswer(params, m) ==
    LET mine == CreateOffer(params)
        theirs == Parsed(m.body)
    IN  Parse(m.body) # {} /\ Matches(mine, theirs) /\ Static(mine, theirs)
CanTakeAnswer(n, m) == Kept(m) /\ Parse(m.body) # {} /\ Matches(n.local, Parsed(m.body))

\* A session whose messages could be sent and received comes to its media exactly
\* when the two descriptions can be read and negotiated: over a description that
\* both sides could live with, receive_answer and accept do not end in an error
\* of their own or a panic, and over any other they do.
ConnectsIff ==
    /\ (Is(1, "rssip") /\ caller.at \in {"media", "error", "panic"} /\ "2xx" \in DOMAIN sent) =>
         (caller.at = "media" <=>
            LET m == sent["2xx"] IN
            IF Given(call.offer) THEN CanTakeAnswer(caller.n, m)
            ELSE Given(call.late) /\ Kept(m) /\ CanAnswer(call.late, m))
    /\ (Is(2, "rssip") /\ callee.at \in {"media", "error", "panic"}) =>
         (callee.at = "media" <=>
            IF Bodied(sent["INVITE"]) THEN CanAnswer(call.accept, sent["INVITE"])
            ELSE "ACK" \in DOMAIN sent /\ CanTakeAnswer(callee.n, sent["ACK"]))

\* Expected to be violated.  receive_answer takes its answer for granted once it
\* has sent the ACK, `self.negotiator.answer().unwrap()` (session.rs:184), and the
\* table at session.rs:16 has the answer to an offer of the INVITE in the 2xx:
\* a call between two endpoints of rssip that was offered and answered so does not
\* panic.  accept writes the answer without a Content-Type.
AnswerIsThere ==
    (call.sides = <<"rssip", "rssip">> /\ Given(call.offer) /\ "ACK" \in DOMAIN sent)
        => caller.at # "panic"

=============================================================================
