-------------------------------- MODULE Wire --------------------------------
(***************************************************************************)
(* A peer's messages on their way into rssip (Inbound) and back out.  What *)
(* the parser accepts of what has come in may be answered, or sent on      *)
(* along its route set by an application that passes on what it has read.  *)
(* The peer writes SIP in its own style: it need not be rssip.             *)
(***************************************************************************)
EXTENDS SipMessage, Inbound

CONSTANTS
    Ports,          \* the ports a datagram may come from
    Codes           \* the codes of the answers

Source == <<"10", ".", "0", ".", "0", ".", "7">>

VARIABLES
    port        \* the port of the peer

vars == <<inbound, port, out>>

Init ==
    /\ Idle
    /\ port \in IF carrier = "udp" THEN Ports ELSE {<<"0">>}
    /\ out = Nothing

-----------------------------------------------------------------------------
(* process_message, and what the endpoint does with the message.            *)

Incoming == IF got = <<>> THEN {} ELSE {m \in ParseMsg(Last(got)) : Complete(m)}

Answer(code) ==
    /\ carrier = "udp" /\ out = Nothing
    /\ \E m \in Incoming :
         /\ m.kind = "request"
         /\ LET r == Response(m, Source, code)
            IN  Emit("answer", m, r, Encode(r), Destination(m, Source))
    /\ UNCHANGED <<inbound, port>>
PassOn ==
    /\ out = Nothing
    /\ \E m \in Incoming :
         IF m.kind = "request" THEN Forward(m, Encode(Routed(m).m))
         ELSE Emit("response", m, m, Encode(m), Destination(m, Source))
    /\ UNCHANGED <<inbound, port>>

Next ==
    \/ \E text \in StreamItems \cup Datagrams : Send(text) /\ UNCHANGED <<port, out>>
    \/ Arrive /\ UNCHANGED <<port, out>>
    \/ TakeFrame /\ UNCHANGED <<port, out>>
    \/ GiveUp /\ UNCHANGED <<port, out>>
    \/ (TakeDatagram \/ Lose) /\ UNCHANGED <<port, out>>
    \/ \E code \in Codes : Answer(code)
    \/ PassOn

\* The runtime polls the reading task, and TCP delivers what was written.
Spec == Init /\ [][Next]_vars /\ WF_vars(Reading /\ UNCHANGED <<port, out>>)

-----------------------------------------------------------------------------
(* What of a message is lost when it is written.                           *)

Plain(x, stop) == ToSet(x) \cap stop = {}
PlainParams(ps, stop) ==
    \A k \in DOMAIN ps : "x" \in DOMAIN ps[k] => Plain(ps[k].x, stop)
NoColon(v) == ":" \notin ToSet(v.host)
UriSurvives(u) ==
    /\ NoColon(u)
    /\ PlainParams(u.params, ParamStop)
    /\ "headers" \in DOMAIN u =>
         \A k \in DOMAIN u.headers :
            "x" \in DOMAIN u.headers[k] /\ Plain(u.headers[k].x, UriHdrStop)
SipUriSurvives(a) == IF "bare" \in DOMAIN a THEN UriSurvives(a.bare) ELSE UriSurvives(a.addr)

\* The fields that are written as tokens, whatever they were read from.
TokenFields ==
    {"token", "coding", "mtype", "subtype", "tag", "nextnonce", "qop", "rspauth", "cnonce",
     "nc", "realm", "domain", "nonce", "opaque", "stale", "algorithm", "username", "uri",
     "response"}
ValueSurvives(n, v) ==
    /\ \A f \in DOMAIN v \cap (TokenFields \ {"uri"}) : Plain(v[f], TokenStop)
    /\ "uri" \in DOMAIN v => IF "scheme" \in DOMAIN v THEN Plain(v.uri, TokenStop)
                             ELSE SipUriSurvives(v.uri)
    /\ "params" \in DOMAIN v => PlainParams(v.params, IF n = "Via" THEN ViaStop ELSE TokenStop)
    /\ n = "Via" => NoColon(v)
    /\ "method" \in DOMAIN v => v.method # UnknownMethod
    /\ DOMAIN v \cap (IF n = "Via" THEN {} ELSE {"expires", "delay", "comment"}) = {}
HeaderSurvives(h) ==
    /\ ~Panics(h)
    /\ h.name \notin {"Error-Info", "In-Reply-To", "Content-Disposition", "Warning"}
    /\ ValueSurvives(h.name, h.v)
    /\ "list" \in DOMAIN h.v => \A k \in DOMAIN h.v.list : ValueSurvives(h.name, h.v.list[k])
Survives(m) ==
    /\ m.kind = "request" => UriSurvives(m.uri)
    /\ \A k \in DOMAIN m.headers : HeaderSurvives(m.headers[k])
NoLength(m) == [m EXCEPT !.headers = SelectSeq(@, LAMBDA h : h.name # "Content-Length")]

\* A message that is written, as an answer or by an application that passes on
\* what it has read, is read back as the same message exactly when no value in
\* it is of the kinds above: Display and parse() of a header are written apart,
\* and no test prints what another has parsed.
WrittenIsRead ==
    out # Nothing =>
        (Survives(out.m) <=> NoLength(out.m) \in {NoLength(m) : m \in ParseMsg(out.text)})

-----------------------------------------------------------------------------
(* Answers.                                                                *)

Copied == {"Record-Route", "Call-ID", "From", "CSeq"}
Unstamped(via) == Without(via, "received")

\* The peer takes the answer for one to its request: it arrives where the
\* request came from, and nothing that identifies the request has changed.
Accepted(o) ==
    /\ o.to = [host |-> Source, port |-> port]
    /\ \E r \in ParseMsg(o.text) :
         /\ r.kind = "response" /\ Complete(r)
         /\ \A n \in Copied : Pick(r, n) = Pick(o.of, n)
         /\ Tail(Pick(r, "Via")) = Tail(Pick(o.of, "Via"))
         /\ Unstamped(Extract(r, "Via")) = Unstamped(Extract(o.of, "Via"))
         /\ Extract(r, "To").uri = Extract(o.of, "To").uri
         /\ r.code = "100" \/ "tag" \in DOMAIN Extract(r, "To")
Answerable(m, code) ==
    LET via == Extract(m, "Via") IN
    /\ \A k \in DOMAIN m.headers :
         m.headers[k].name \in Copied \cup {"Via", "To"} => HeaderSurvives(m.headers[k])
    /\ code = "100" \/ "tag" \in DOMAIN Extract(m, "To") \/ "branch" \in DOMAIN via
    /\ "maddr" \notin DOMAIN via
    /\ (IF "port" \in DOMAIN via THEN via.port ELSE <<"5060">>) = port

\* An answer is accepted exactly when its request is one that can be answered:
\* one whose Via, From, To, CSeq and Record-Route survive being written, and
\* which was sent from the port its Via names (rport is not used).
AnswerAccepted ==
    (out # Nothing /\ out.kind = "answer") => (Accepted(out) <=> Answerable(out.of, out.m.code))

=============================================================================
