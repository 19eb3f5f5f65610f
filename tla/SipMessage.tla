----------------------------- MODULE SipMessage -----------------------------
(***************************************************************************)
(* SIP messages as rssip reads, writes, answers and routes them: the       *)
(* message parser, the encoder and the construction of a response.         *)
(*                                                                         *)
(* A message is a record: kind, the fields of its first line, headers (a   *)
(* sequence of [name, v]) and, when there is one, body.  A header that the *)
(* parser has no arm for is a "raw" one, with its name as written.         *)
(***************************************************************************)
EXTENDS SipText, Routes

\* status_code.rs: the codes that a status line may hold; any other code is
\* an error.  The phrase of a code is one word of its own.
StatusCodes ==
    {"100", "180", "181", "182", "183", "199", "200", "202", "204", "300", "301", "302",
     "305", "380", "400", "401", "402", "403", "404", "405", "406", "407", "408", "409",
     "410", "411", "412", "413", "414", "415", "416", "417", "420", "421", "422", "423",
     "424", "428", "429", "430", "433", "436", "437", "438", "439", "440", "469", "470",
     "480", "481", "482", "483", "484", "485", "486", "487", "488", "489", "490", "491",
     "493", "494", "500", "501", "502", "503", "504", "505", "513", "555", "580", "600",
     "603", "604", "606", "607", "608"}
Reason(code) == <<"reason" \o code>>

\* The name Display writes, and the header.
Grammar ==
    ("Accept" :> Accept) @@ ("Accept-Encoding" :> AcceptEncoding) @@
    ("Accept-Language" :> AcceptLanguage) @@ ("Alert-Info" :> AlertInfo) @@
    ("Allow" :> Allow) @@ ("Authentication-Info" :> AuthenticationInfo) @@
    ("Authorization" :> Authorization) @@ ("Call-ID" :> CallId) @@
    ("Call-Info" :> CallInfo) @@ ("Contact" :> Contact) @@
    ("Content-Disposition" :> ContentDisposition) @@
    ("Content-Encoding" :> ContentEncoding) @@ ("Content-Language" :> ContentLanguage) @@
    ("Content-Length" :> ContentLength) @@ ("Content-Type" :> ContentType) @@
    ("CSeq" :> CSeq) @@ ("Date" :> Date) @@ ("Error-Info" :> ErrorInfo) @@
    ("Expires" :> Expires) @@ ("From" :> From) @@ ("In-Reply-To" :> InReplyTo) @@
    ("Max-Forwards" :> MaxForwards) @@ ("Min-Expires" :> MinExpires) @@
    ("MIME-Version" :> MimeVersion) @@ ("Organization" :> Organization) @@
    ("Priority" :> Priority) @@ ("Proxy-Authenticate" :> ProxyAuthenticate) @@
    ("Proxy-Authorization" :> ProxyAuthorization) @@ ("Proxy-Require" :> ProxyRequire) @@
    ("Retry-After" :> RetryAfter) @@ ("Route" :> Route) @@
    ("Record-Route" :> RecordRoute) @@ ("Reply-To" :> ReplyTo) @@ ("Require" :> Require) @@
    ("Server" :> Server) @@ ("Subject" :> Subject) @@ ("Supported" :> Supported) @@
    ("Timestamp" :> Timestamp) @@ ("To" :> To) @@ ("Unsupported" :> Unsupported) @@
    ("User-Agent" :> UserAgent) @@ ("Via" :> Via) @@ ("Warning" :> Warning) @@
    ("WWW-Authenticate" :> WWWAuthenticate)

Raw(n, data) == Field("raw", [name |-> n, data |-> data])
Pick(m, n) == SelectSeq(m.headers, LAMBDA h : h.name = n)

-----------------------------------------------------------------------------
(* Writing: Display of Headers, encode, write_body.                        *)

WriteHeader(h) ==
    IF h.name = "raw" THEN h.v.name \o <<":", " ">> \o h.v.data
    ELSE Write(Grammar[h.name].print, h.v)
FirstLine(m) ==
    IF m.kind = "request" THEN m.method \o <<" ">> \o PrintUri(m.uri) \o <<" ">> \o SipVersion
    ELSE SipVersion \o <<" ", m.code, " ">> \o m.reason
\* The last header is always the length of the body that follows it.
WriteBody(body) == <<"Content-Length", ":", " ", ToString(Len(body))>> \o CRLF \o CRLF \o body
\* Display of a challenge or a credential that is not Digest is todo!().
Panics(h) == "scheme" \in DOMAIN h.v /\ h.v.scheme # <<"Digest">>
Encode(m) ==
    IF \E i \in DOMAIN m.headers : Panics(m.headers[i]) THEN <<>> ELSE
    FirstLine(m) \o CRLF \o
    FlattenSeq([i \in DOMAIN m.headers |-> WriteHeader(m.headers[i]) \o CRLF]) \o
    WriteBody(IF "body" \in DOMAIN m THEN m.body ELSE <<>>)

-----------------------------------------------------------------------------
(* Reading: parse_sip_msg.  A step of it returns the text ahead in s, what *)
(* it has built in v, and ok.                                              *)

NewLineAfter(st) ==
    IF Peek(st.s) \notin NewLine THEN Fail(st)
    ELSE Ahead(st, IF Len(st.s) > 1 /\ SubSeq(st.s, 1, 2) = CRLF THEN Drop(st.s, 2) ELSE Tail(st.s))

StatusLine(s) ==
    LET a == Ahead(At(s), SkipAll(Drop(s, Len(SipVersion)), Blank))
        code == Number(a.s)
        t == SkipAll(Drop(a.s, Len(code)), Blank)
        reason == Run(t, NewLine)
    IN  IF Len(code) # 1 \/ ~ToSet(code) \subseteq StatusCodes THEN Fail(a)
        ELSE [a EXCEPT !.s = SkipAll(Drop(t, Len(reason)), NewLine),
                       !.v = [kind |-> "response", code |-> code[1], reason |-> reason]]
RequestLine(s) ==
    LET name == Run(s, TokenStop)
        uri == ParseUri(SkipAll(Drop(s, Len(name)), Blank), TRUE)
    IN  [Version(Blanks(uri)) EXCEPT
            !.s = SkipAll(@, NewLine),
            !.v = [kind |-> "request", method |-> Method(name), uri |-> @]]

HeaderRead(n, st, e) ==
    IF e.ok THEN [st EXCEPT !.s = e.s, !.v = Append(@, Field(n, e.v))] ELSE Fail(st)
RECURSIVE EachLoop(_, _), EachMore(_, _)
EachLoop(n, st) == EachMore(n, HeaderRead(n, st, Read(Grammar[n].parse, At(st.s))))
EachMore(n, st) ==
    IF st.ok /\ Grammar[n].each /\ Peek(st.s) = "," THEN EachLoop(n, Ahead(st, Tail(st.s))) ELSE st

HeaderValue(name, st) ==
    LET line == Run(st.s, NewLine)
        known == {n \in DOMAIN Grammar : Len(name) = 1 /\ name[1] \in Grammar[n].names}
    IN  IF ~st.ok THEN st
        ELSE IF known # {} THEN EachLoop(CHOOSE n \in known : TRUE, st)
        ELSE [st EXCEPT !.s = Drop(@, Len(line)), !.v = Append(@, Raw(name, line))]
OneHeader(st) ==
    LET name == Run(st.s, TokenStop)
    IN  HeaderValue(name, Blanks(MustRead(Blanks(Ahead(st, Drop(st.s, Len(name)))), ":")))

RECURSIVE HeaderLoop(_), MoreHeaders(_)
HeaderLoop(st) == MoreHeaders(NewLineAfter(OneHeader(st)))
MoreHeaders(st) ==
    IF ~st.ok \/ st.s = <<>> \/ Head(st.s) \in NewLine THEN st ELSE HeaderLoop(st)

\* What follows the headers is kept only below a Content-Type.
Whole(line, hs) ==
    LET m == ("headers" :> hs.v) @@ line.v
    IN  IF ~line.ok \/ ~hs.ok THEN {}
        ELSE IF Pick(m, "Content-Type") # <<>>
        THEN {("body" :> SkipAll(hs.s, NewLine)) @@ m} ELSE {m}
Rest(line) == Whole(line, HeaderLoop([line EXCEPT !.v = <<>>]))
ParseMsg(s) ==
    Rest(IF Len(s) >= Len(SipVersion) /\ SubSeq(s, 1, Len(SipVersion)) = SipVersion
         THEN StatusLine(s) ELSE RequestLine(s))

\* MandatoryHeaders: the first Via, and the last of each of the others.
Mandatory == {"Via", "From", "To", "Call-ID", "CSeq"}
Complete(m) == \A n \in Mandatory : Pick(m, n) # <<>>
Extract(m, n) == IF n = "Via" THEN Head(Pick(m, n)).v ELSE Last(Pick(m, n)).v

-----------------------------------------------------------------------------
(* Answering: core/endpoint/mod.rs.                                        *)

\* process_message puts the source address into the topmost Via.
Received(m, source) == ("received" :> source) @@ Extract(m, "Via")

\* Mutant: only the topmost Via is copied.
ViasTopmost(m, via) == <<Field("Via", via)>>
Vias(m, via) == <<Field("Via", via)>> \o Tail(Pick(m, "Via"))

\* create_response: the topmost Via is the one that process_message changed.
Response(m, source, code) ==
    LET via == Received(m, source)
        to == Extract(m, "To")
        tag == IF "tag" \in DOMAIN to \/ code = "100" \/ "branch" \notin DOMAIN via THEN to
               ELSE ("tag" :> via.branch) @@ to
    IN  [kind |-> "response", code |-> code, reason |-> Reason(code),
         headers |-> Vias(m, via) \o Pick(m, "Record-Route") \o
                     <<Field("Call-ID", Extract(m, "Call-ID")), Field("From", Extract(m, "From")),
                       Field("To", tag), Field("CSeq", Extract(m, "CSeq"))>>]

\* get_response_destination over UDP: [host, port]; rport is not looked at.
Destination(m, source) ==
    LET via == Extract(m, "Via")
    IN  [host |-> IF "maddr" \in DOMAIN via THEN via.maddr ELSE source,
         port |-> IF "port" \in DOMAIN via THEN via.port ELSE DefaultPort(<<"udp">>)]

=============================================================================
