------------------------------ MODULE SipText ------------------------------
(***************************************************************************)
(* How rssip prints a SIP message and how its parser reads one.            *)
(*                                                                         *)
(* What the character tables of parser.rs tell apart is which punctuation  *)
(* a run may go through, so a table is the set of atoms at which a run of  *)
(* its characters stops.                                                   *)
(*                                                                         *)
(* A header is described by the steps its parse() takes and by the pieces  *)
(* its Display writes.  The two are separate on purpose: where they are    *)
(* not each other's inverse, a printed header is read back differently.    *)
(* A value is a record of the fields that are present (an Option that is   *)
(* None is a field that is not there).                                     *)
(***************************************************************************)
EXTENDS Atoms, SequencesExt

CONSTANTS
    Numerals,       \* the words made of digits only
    Bytes8          \* the numerals that fit u8

-----------------------------------------------------------------------------
(* Characters and runs of them: scanner/mod.rs, parser.rs 31-47.           *)

Punct == Blank \cup NewLine \cup
         {":", ";", ",", "=", "<", ">", "(", ")", "\"", "/", "@", "[", "]",
          "?", "&", "$", "+", ".", "-", "*"}

Unreserved == {"-", ".", "*", "(", ")"}
TokenStop == Punct \ {"-", ".", "*", "+"}
UserStop == Punct \ (Unreserved \cup {"&", "=", "+", "$", ",", ";", "?", "/"})
PassStop == Punct \ (Unreserved \cup {"&", "=", "+", "$", ","})
HostStop == Punct \ {"-", "."}
ParamStop == Punct \ (Unreserved \cup {"[", "]", "/", ":", "&", "+", "$"})
UriHdrStop == Punct \ (Unreserved \cup {"[", "]", "/", "?", ":", "+", "$"})
ViaStop == Punct \ {"[", ":", "]", "-", ".", "*", "+"}
AlphaStop == Punct \cup Numerals
LangStop == AlphaStop \ {"*", "-"}

Peek(s) == IF s = <<>> THEN "eof" ELSE Head(s)

\* Where the run of atoms that satisfy a table ends; scan_while and
\* scan_number_str give the atoms before that, skip_while what is left.
End(s, ends) == Min(ends \cup {Len(s) + 1})
Run(s, stop) == SubSeq(s, 1, End(s, {i \in DOMAIN s : s[i] \in stop}) - 1)
Number(s) == SubSeq(s, 1, End(s, {i \in DOMAIN s : s[i] \notin Numerals}) - 1)
SkipAll(s, set) == SubSeq(s, End(s, {i \in DOMAIN s : s[i] \notin set}), Len(s))

\* A state of the parser: the text ahead, the value read so far, and whether
\* every step has succeeded.  No step takes a failure back.
At(s) == [s |-> s, v |-> <<>>, ok |-> TRUE]
Fail(st) == [st EXCEPT !.ok = FALSE]
Ahead(st, s) == [st EXCEPT !.s = s]
Set(st, f, x) == [st EXCEPT !.v = (f :> x) @@ @]
Without(v, f) == [g \in DOMAIN v \ {f} |-> v[g]]

Blanks(st) == Ahead(st, SkipAll(st.s, Blank))
MustRead(st, c) ==
    IF Peek(st.s) = c THEN Ahead(st, Tail(st.s)) ELSE Fail(st)

\* The field f becomes x, the text just ahead; Scan: a run of the table.
Eat(st, f, x) == Set(Ahead(st, Drop(st.s, Len(x))), f, x)
Scan(st, f, stop) == Eat(st, f, Run(st.s, stop))
\* take_until or scan_while, then advance over the character that ended it
EatPast(st, f, x) ==
    IF Len(x) = Len(st.s) THEN Fail(st) ELSE Set(Ahead(st, Drop(st.s, Len(x) + 1)), f, x)
Until(st, f, stop) == EatPast(st, f, Run(st.s, stop))

\* What a parser of its own has read from st.s: the field f, or one more
\* element of the list f.
Nested(st, f, e) == IF e.ok THEN Set(Ahead(st, e.s), f, e.v) ELSE Fail(st)
Element(st, f, e) ==
    IF e.ok THEN [st EXCEPT !.s = e.s, !.v[f] = Append(@, e.v)] ELSE Fail(st)

\* must_scan_slice compares the slice with what is left of the buffer, so a
\* buffer that ends inside it passes.
SipVersion == <<"SIP", "/", "2", ".", "0">>
Version(st) ==
    LET n == Min({Len(st.s), Len(SipVersion)}) IN
    IF \A i \in 1..n : st.s[i] = SipVersion[i]
    THEN Ahead(st, Drop(st.s, n)) ELSE Fail(st)

-----------------------------------------------------------------------------
(* Parameters: param_ref_unchecked, parse_params!, the digest lists.       *)

\* name [= value | = "value"]: the fields n and, when there is one, x.
ParamValue(p, stop) ==
    IF Peek(p.s) # "=" THEN p
    ELSE IF Peek(Tail(p.s)) = "\"" THEN Until(Ahead(p, Drop(p.s, 2)), "x", {"\""})
    ELSE Scan(Ahead(p, Tail(p.s)), "x", stop)
Param(s, stop) == ParamValue(Scan(At(SkipAll(s, Blank)), "n", stop), stop)

\* What a parameter with a field of its own is turned into; {} is an error.
Dec(a) == IF a = "05" THEN "5" ELSE a
Q(x) ==
    IF Len(x) = 1 /\ x[1] \in Bytes8 THEN {<<Dec(x[1]), ".", "0">>}
    ELSE IF Len(x) = 3 /\ x[2] = "." /\ x[1] \in Bytes8 /\ x[3] \in Bytes8
    THEN {<<Dec(x[1]), ".", Dec(x[3])>>} ELSE {}
Upper == ("udp" :> "UDP") @@ ("tcp" :> "TCP") @@ ("ws" :> "WS") @@
         ("wss" :> "WSS") @@ ("tls" :> "TLS") @@ ("sctp" :> "SCTP")
Protocol(x) == {<<p>> : p \in {q \in DOMAIN Upper : x \in {<<q>>, <<Upper[q]>>}}}
Methods == {"INVITE", "ACK", "BYE", "CANCEL", "REGISTER", "OPTIONS", "INFO",
            "NOTIFY", "SUBSCRIBE", "UPDATE", "REFER", "PRACK", "MESSAGE",
            "PUBLISH"}
UnknownMethod == <<"UNKNOWN", "-", "SipMethod">>
Method(x) == IF Len(x) = 1 /\ x[1] \in Methods THEN x ELSE UnknownMethod
Convert(kind, x) ==
    CASE kind = "text" -> {x}
      [] kind = "q" -> Q(x)
      [] kind = "u8" -> {y \in {x} : Len(y) = 1 /\ y[1] \in Bytes8}
      [] kind = "number" -> {y \in {x} : Len(y) = 1 /\ y[1] \in Numerals}
      [] kind = "transport" -> Protocol(x)
      [] kind = "method" -> {Method(x)}

\* A known parameter goes to its field, and to None when it has no value; lr
\* needs none, and rport may be empty.
SetOne(st, f, xs) == IF xs = {} THEN Fail(st) ELSE Set(st, f, CHOOSE x \in xs : TRUE)
Known(st, p, k) ==
    IF k.kind = "flag" THEN Set(st, k.f, <<>>)
    ELSE IF k.kind = "rport"
    THEN IF "x" \notin DOMAIN p \/ p.x = <<>> THEN Set(st, k.f, <<>>)
         ELSE SetOne(st, k.f, Convert("number", p.x))
    ELSE IF "x" \notin DOMAIN p THEN [st EXCEPT !.v = Without(@, k.f)]
    ELSE SetOne(st, k.f, Convert(k.kind, p.x))

\* One parameter: p is what Param has made of the text ahead.
Take(st, p, known) ==
    LET name == IF Len(p.v.n) = 1 THEN p.v.n[1] ELSE "" IN
    IF ~p.ok THEN Fail(st)
    ELSE IF name \in DOMAIN known THEN Known(Ahead(st, p.s), p.v, known[name])
    ELSE Element(st, "params", p)

RECURSIVE ParamLoop(_, _, _)
ParamLoop(st, known, stop) ==
    IF ~st.ok \/ Peek(st.s) # ";" THEN st
    ELSE ParamLoop(Blanks(Take(st, Param(Tail(st.s), stop), known)), known, stop)
ParseParams(st, known, stop) == ParamLoop(Blanks(Set(st, "params", <<>>)), known, stop)

\* The comma separated parameters of Digest and of Authentication-Info: a
\* name that is not known is ignored.
DigestTake(st, p, known) ==
    IF ~p.ok THEN Fail(st)
    ELSE IF Len(p.v.n) # 1 \/ p.v.n[1] \notin known THEN Ahead(st, p.s)
    ELSE Known(Ahead(st, p.s), p.v, [f |-> p.v.n[1], kind |-> "text"])
RECURSIVE DigestLoop(_, _), DigestMore(_, _)
DigestLoop(st, known) == DigestMore(DigestTake(st, Param(st.s, TokenStop), known), known)
DigestMore(st, known) ==
    IF st.ok /\ Peek(st.s) = "," THEN DigestLoop(Ahead(st, Tail(st.s)), known) ELSE st

\* token(): a quoted string or a run of token characters.
Token(st, f) ==
    IF Peek(st.s) = "\"" THEN Until(Ahead(st, Tail(st.s)), f, {"\""}) ELSE Scan(st, f, TokenStop)

-----------------------------------------------------------------------------
(* URIs: parser.rs 381-512, uri.rs.                                        *)

\* parse_host_port: only what is in brackets may hold a ':'.
Host(st) ==
    IF Peek(st.s) = "[" THEN Until(Ahead(st, Tail(st.s)), "host", {"]"})
    ELSE Scan(st, "host", HostStop)
Port(st, v6) ==
    IF ~st.ok \/ st.v.host = <<>> \/ (v6 /\ ~Contains(st.v.host, ":")) THEN Fail(st)
    ELSE IF Peek(st.s) # ":" THEN st
    ELSE IF Len(Number(Tail(st.s))) # 1 THEN Fail(st)
    ELSE Eat(Ahead(st, Tail(st.s)), "port", Number(Tail(st.s)))
HostPort(st) == Port(Host(st), Peek(st.s) = "[")

\* There is a user part if an '@' comes before the next space, newline or '>'.
Password(st) ==
    IF Peek(st.s) = ":" THEN Scan(Ahead(st, Tail(st.s)), "pass", PassStop) ELSE st
UserInfo(st) ==
    IF ~Contains(Run(st.s, Blank \cup NewLine \cup {">"}), "@") THEN st
    ELSE MustRead(Password(Scan(st, "user", UserStop)), "@")

UriKnown ==
    ("user" :> [f |-> "userparam", kind |-> "text"]) @@
    ("method" :> [f |-> "method", kind |-> "method"]) @@
    ("transport" :> [f |-> "transport", kind |-> "transport"]) @@
    ("ttl" :> [f |-> "ttl", kind |-> "u8"]) @@
    ("lr" :> [f |-> "lr", kind |-> "flag"]) @@
    ("maddr" :> [f |-> "maddr", kind |-> "text"])

RECURSIVE UriHeaders(_), MoreUriHeaders(_)
UriHeaders(st) == MoreUriHeaders(Element(st, "headers", Param(st.s, UriHdrStop)))
MoreUriHeaders(st) ==
    IF st.ok /\ Peek(st.s) = "&" THEN UriHeaders(Ahead(st, Tail(st.s))) ELSE st

\* parse_uri: without parse_params what follows the host is left to the caller.
Scheme(s) == IF Run(s, TokenStop) \in {<<"sip">>, <<"sips">>} THEN {Head(s)} ELSE {}
UriQuery(st) ==
    IF st.ok /\ Peek(st.s) = "?" THEN UriHeaders(Set(Ahead(st, Tail(st.s)), "headers", <<>>)) ELSE st
UriParams(st, withParams) ==
    IF ~st.ok THEN st
    ELSE IF withParams THEN UriQuery(ParseParams(st, UriKnown, ParamStop))
    ELSE Set(st, "params", <<>>)
ParseUri(s, withParams) ==
    IF Scheme(s) = {} THEN Fail(At(s))
    ELSE UriParams(HostPort(UserInfo(MustRead(Set(At(Tail(s)), "scheme", <<Head(s)>>), ":"))),
                   withParams)

\* parse_display_name: without quotes the name is one token, perhaps empty.
DisplayName(st) == IF Peek(st.s) = "<" THEN st ELSE Token(st, "display")

Bracketed(st) ==
    IF ~st.ok THEN st ELSE MustRead(Nested(st, "addr", ParseUri(st.s, TRUE)), ">")
ParseNameAddr(s) == Bracketed(MustRead(Blanks(DisplayName(At(SkipAll(s, Blank)))), "<"))

\* parse_sip_uri(false), as every header calls it.
ParseSipUri(text) ==
    LET s == SkipAll(text, Blank)
    IN  IF Run(s, NewLine \cup {":", "<"}) \in {<<"sip">>, <<"sips">>}
        THEN [ParseUri(s, FALSE) EXCEPT !.v = [bare |-> @]] ELSE ParseNameAddr(s)

\* Display.  The address of an IPv6 host is written without its brackets.
Opt(v, f, pre) == IF f \in DOMAIN v THEN pre \o v[f] ELSE <<>>
PrintParams(ps) ==
    FlattenSeq([i \in DOMAIN ps |-> <<";">> \o ps[i].n \o Opt(ps[i], "x", <<"=">>)])
PrintHostPort(v) == v.host \o Opt(v, "port", <<":">>)
\* Mutant: the first header is not set off by its own mark.
PrintUriHeadersJoined(hs) ==
    FlattenSeq([i \in DOMAIN hs |-> <<"&">> \o hs[i].n \o <<"=">> \o Opt(hs[i], "x", <<>>)])
PrintUriHeaders(hs) ==
    FlattenSeq([i \in DOMAIN hs |->
        <<IF i = 1 THEN "?" ELSE "&">> \o hs[i].n \o <<"=">> \o Opt(hs[i], "x", <<>>)])
PrintUri(u) ==
    u.scheme \o <<":">> \o
    (IF "user" \in DOMAIN u THEN u.user \o Opt(u, "pass", <<":">>) \o <<"@">> ELSE <<>>) \o
    PrintHostPort(u) \o
    Opt(u, "userparam", <<";", "user", "=">>) \o
    Opt(u, "method", <<";", "method", "=">>) \o
    Opt(u, "maddr", <<";", "maddr", "=">>) \o
    Opt(u, "transport", <<";", "transport", "=">>) \o
    Opt(u, "ttl", <<";", "ttl", "=">>) \o
    Opt(u, "lr", <<";", "lr">>) \o
    PrintParams(u.params) \o
    (IF "headers" \in DOMAIN u THEN PrintUriHeaders(u.headers) ELSE <<>>)
PrintNameAddr(a) ==
    (IF "display" \in DOMAIN a THEN <<"\"">> \o a.display \o <<"\"", " ">> ELSE <<>>) \o
    <<"<">> \o PrintUri(a.addr) \o <<">">>
PrintSipUri(a) == IF "bare" \in DOMAIN a THEN PrintUri(a.bare) ELSE PrintNameAddr(a)

-----------------------------------------------------------------------------
(* The steps of a parse() and the pieces of a Display.                     *)

Sp == [op |-> "sp"]
Lit(c) == [op |-> "lit", c |-> c]
Tok(f) == [op |-> "token", f |-> f]
Word(f, stop) == [op |-> "run", f |-> f, stop |-> stop]
Line(f) == Word(f, NewLine)
Upto(f, c) == [op |-> "until", f |-> f, c |-> c]
Num(f) == [op |-> "number", f |-> f]
Float(f) == [op |-> "float", f |-> f]
Verb(f) == [op |-> "method", f |-> f]
If(set, fmt) == [op |-> "if", set |-> set, fmt |-> fmt]
Pars(known) == [op |-> "params", known |-> known, stop |-> TokenStop]
ViaPars(known) == [op |-> "params", known |-> known, stop |-> ViaStop]
NoneKnown == <<>>
Digest(known) == [op |-> "digest", known |-> known]
Many(fmt) == [op |-> "list", fmt |-> fmt]
Sub(op) == [op |-> op]

RECURSIVE Read(_, _)
RECURSIVE ReadList(_, _)
RECURSIVE MoreList(_, _)
Step(i, st) ==
    CASE i.op = "sp" -> Blanks(st)
      [] i.op = "lit" -> MustRead(st, i.c)
      [] i.op = "token" -> Token(st, i.f)
      [] i.op = "run" -> Scan(st, i.f, i.stop)
      [] i.op = "until" -> Until(st, i.f, {i.c})
      [] i.op = "number" -> IF Len(Number(st.s)) # 1 THEN Fail(st) ELSE Eat(st, i.f, Number(st.s))
      [] i.op = "float" -> LET x == SubSeq(st.s, 1, Len(st.s) - Len(SkipAll(st.s, Numerals \cup {"."})))
                           IN  IF ToSet(x) \subseteq {"."} \/ Len(SelectSeq(x, LAMBDA a : a = ".")) > 1
                               THEN Fail(st) ELSE Eat(st, i.f, x)
      [] i.op = "method" -> LET x == Run(st.s, AlphaStop)
                            IN  Set(Ahead(st, Drop(st.s, Len(x))), i.f, Method(x))
      [] i.op = "if" -> IF Peek(st.s) \in i.set THEN Read(i.fmt, st) ELSE st
      [] i.op = "params" -> ParseParams(st, i.known, i.stop)
      [] i.op = "pairs" -> DigestLoop(st, {"nextnonce", "qop", "rspauth", "cnonce", "nc"})
      [] i.op = "digest" -> IF st.v.scheme = <<"Digest">> THEN DigestLoop(st, i.known)
                            ELSE ParseParams(st, NoneKnown, TokenStop)
      [] i.op = "list" -> ReadList(i.fmt, Set(st, "list", <<>>))
      [] i.op = "uri" -> Nested(st, "uri", ParseSipUri(st.s))
      [] i.op = "nameaddr" -> Nested(st, "uri", ParseNameAddr(st.s))
      [] i.op = "hostport" -> HostPort(st)
      [] i.op = "any" -> IF st.s = <<>> THEN Fail(st) ELSE Ahead(st, Tail(st.s))
      [] i.op = "version" -> Version(st)
      [] i.op = "transport" -> LET x == Run(st.s, TokenStop)
                               IN  SetOne(Ahead(st, Drop(st.s, Len(x))), "transport", Protocol(x))
Read(fmt, st) ==
    IF ~st.ok \/ fmt = <<>> THEN st ELSE Read(Tail(fmt), Step(Head(fmt), st))
\* collect_elems_separated_by_comma!
ReadList(fmt, st) ==
    MoreList(fmt, Element(st, "list", Read(fmt, At(SkipAll(st.s, Blank)))))
MoreList(fmt, st) ==
    IF st.ok /\ Peek(st.s) = "," THEN ReadList(fmt, Ahead(st, Tail(st.s))) ELSE st

\* A piece is fixed text or, when the field is there, the field with what
\* goes before and after it.
T(text) == [op |-> "text", text |-> text]
FW(f, pre, post) == [op |-> "field", f |-> f, pre |-> pre, post |-> post]
F(f) == FW(f, <<>>, <<>>)
PrPars == [op |-> "params"]
PrUri == [op |-> "uri"]
PrMany(fmt) == [op |-> "list", fmt |-> fmt]

RECURSIVE Write(_, _)
Piece(i, v) ==
    CASE i.op = "text" -> i.text
      [] i.op = "field" -> IF i.f \in DOMAIN v THEN i.pre \o v[i.f] \o i.post ELSE <<>>
      [] i.op = "params" -> PrintParams(v.params)
      [] i.op = "uri" -> PrintSipUri(v.uri)
      [] i.op = "hostport" -> PrintHostPort(v)
      [] i.op = "transport" -> <<Upper[v.transport[1]]>>
      [] i.op = "rport" -> IF "rport" \notin DOMAIN v THEN <<>>
                           ELSE <<";", "rport">> \o
                                (IF v.rport = <<>> THEN <<>> ELSE <<"=">> \o v.rport)
      [] i.op = "list" -> FlattenSeq([k \in DOMAIN v.list |->
                            (IF k = 1 THEN <<>> ELSE <<",", " ">>) \o Write(i.fmt, v.list[k])])
Write(fmt, v) == FlattenSeq([k \in DOMAIN fmt |-> Piece(fmt[k], v)])

-----------------------------------------------------------------------------
(* The headers: message/headers/*.rs, one definition per file.  A header   *)
(* has the name Display writes, the names parse_sip_msg accepts (none: the *)
(* header is read as a RawHeader), and what is between its name and the    *)
(* end of its line.  "each" is for the four headers whose elements become  *)
(* headers of their own.                                                   *)

H(names, parse, print) == [names |-> names, each |-> FALSE, parse |-> parse, print |-> print]
Each(names, parse, print) == [H(names, parse, print) EXCEPT !.each = TRUE]
Name(n) == T(<<n, ":", " ">>)
Par(f) == FW(f, <<";", f, "=">>, <<>>)
P1(f, kind) == f :> [f |-> f, kind |-> kind]

\* One line of free text, one number, a list of tokens.
LineHeader(n, short) == H({n} \cup short, <<Line("line")>>, <<Name(n), F("line")>>)
NumberHeader(n, short) == H({n} \cup short, <<Num("n")>>, <<Name(n), F("n")>>)
TokensHeader(n, short) ==
    H({n} \cup short, <<Many(<<Tok("token")>>)>>, <<Name(n), PrMany(<<F("token")>>)>>)

Organization == LineHeader("Organization", {})
Date == LineHeader("Date", {})
Server == LineHeader("Server", {})
UserAgent == LineHeader("User-Agent", {})
Subject == LineHeader("Subject", {"s"})
CallId == LineHeader("Call-ID", {"i"})
Expires == NumberHeader("Expires", {})
MaxForwards == NumberHeader("Max-Forwards", {})
MinExpires == NumberHeader("Min-Expires", {})
ContentLength == NumberHeader("Content-Length", {"l"})
ProxyRequire == TokensHeader("Proxy-Require", {})
Require == TokensHeader("Require", {})
Unsupported == TokensHeader("Unsupported", {})
Supported == TokensHeader("Supported", {"k"})
ContentEncoding == TokensHeader("Content-Encoding", {"e"})
Priority == H({"Priority"}, <<Tok("token")>>, <<Name("Priority"), F("token")>>)
MimeVersion ==
    H({"MIME-Version"}, <<Num("major"), Lit("."), Num("minor")>>,
      <<Name("MIME-Version"), F("major"), T(<<".">>), F("minor")>>)
\* An unknown method has one name for all, and no header keeps the original.
Allow == H({"Allow"}, <<Many(<<Verb("method")>>)>>, <<Name("Allow"), PrMany(<<F("method")>>)>>)
CSeq == H({"CSeq"}, <<Num("cseq"), Sp, Verb("method")>>,
          <<Name("CSeq"), F("cseq"), T(<<" ">>), F("method")>>)
MediaType == <<Tok("mtype"), Sub("any"), Tok("subtype"), Pars(NoneKnown)>>
PrMediaType == <<F("mtype"), T(<<"/">>), F("subtype"), PrPars>>
Accept == H({"Accept"}, <<Many(MediaType)>>, <<Name("Accept"), PrMany(PrMediaType)>>)
ContentType == H({"Content-Type", "c"}, MediaType, <<Name("Content-Type")>> \o PrMediaType)
AcceptEncoding ==
    H({"Accept-Encoding"}, <<Many(<<Tok("coding"), Pars(P1("q", "q"))>>)>>,
      <<Name("Accept-Encoding"), PrMany(<<F("coding"), Par("q"), PrPars>>)>>)
AcceptLanguage ==
    H({"Accept-Language"}, <<Many(<<Word("language", LangStop), Pars(P1("q", "q"))>>)>>,
      <<Name("Accept-Language"), PrMany(<<F("language"), Par("q"), PrPars>>)>>)
\* parse_sip_msg has no arm for Content-Language, nor for Call-Info.
ContentLanguage ==
    H({}, <<Many(<<Word("language", LangStop)>>)>>,
      <<Name("Content-Language"), PrMany(<<F("language")>>)>>)
CallInfo ==
    H({}, <<Lit("<"), Upto("url", ">"), Pars(P1("purpose", "text"))>>,
      <<Name("Call-Info"), FW("url", <<"<">>, <<">">>), FW("purpose", <<";">>, <<>>), PrPars>>)
AlertInfo ==
    H({"Alert-Info"}, <<Sp, Lit("<"), Upto("url", ">"), Pars(NoneKnown)>>,
      <<Name("Alert-Info"), FW("url", <<"<">>, <<">">>), PrPars>>)
\* Written without its name and without the brackets.
ErrorInfo ==
    H({"Error-Info"}, <<Many(<<Lit("<"), Upto("url", ">"), Pars(NoneKnown)>>)>>,
      <<PrMany(<<F("url"), T(<<";">>), PrPars>>)>>)
ContentDisposition ==
    H({"Content-Disposition"}, <<Tok("type"), Pars(NoneKnown)>>,
      <<Name("Content-Disposition"), F("type"), T(<<";">>), PrPars>>)
\* Every id is written with the name of its own header.
InReplyTo ==
    H({"In-Reply-To"}, <<Many(<<Word("id", NewLine \cup {","})>>)>>,
      <<Name("In-Reply-To"), PrMany(<<Name("Call-ID"), F("id")>>)>>)
RetryAfter ==
    H({"Retry-After"},
      <<Num("seconds"), Sp, If({"("}, <<Lit("("), Upto("comment", ")")>>), Pars(NoneKnown)>>,
      <<Name("Retry-After"), F("seconds"), PrPars, F("comment")>>)
Timestamp ==
    H({"Timestamp"}, <<Float("time"), Sp, If(Numerals, <<Float("delay")>>)>>,
      <<Name("Timestamp"), F("time"), F("delay")>>)
Warning ==
    H({"Warning"}, <<Num("code"), Sp, Word("host", HostStop), Sp, Lit("\""), Upto("text", "\"")>>,
      <<Name("Warning"), F("code"), T(<<" ">>), F("host"), T(<<" ">>), F("text")>>)

\* The parameters of Digest: written without the quotes they came in.
Pairs(fs, pre, post) == [k \in DOMAIN fs |-> FW(fs[k], pre \o <<fs[k], "=">>, post)]
AuthenticationInfo ==
    H({"Authentication-Info"}, <<Sub("pairs")>>,
      <<Name("Authentication-Info")>> \o Pairs(<<"nextnonce">>, <<>>, <<>>)
      \o Pairs(<<"qop", "rspauth", "cnonce", "nc">>, <<",", " ">>, <<>>))
Challenge(n) ==
    H({n}, <<Tok("scheme"),
             Digest({"realm", "nonce", "domain", "algorithm", "opaque", "qop", "stale"})>>,
      <<Name(n), T(<<"Digest", " ">>)>>
      \o Pairs(<<"realm", "domain", "nonce", "opaque", "stale", "algorithm">>, <<>>, <<",", " ">>)
      \o Pairs(<<"qop">>, <<>>, <<>>))
Credential(n) ==
    H({n}, <<Tok("scheme"),
             Digest({"realm", "username", "nonce", "uri", "response", "algorithm", "cnonce",
                     "opaque", "qop", "nc"})>>,
      <<Name(n), T(<<"Digest", " ">>)>> \o Pairs(<<"username">>, <<>>, <<>>)
      \o Pairs(<<"realm", "nonce", "uri", "response", "algorithm", "cnonce", "qop", "nc",
                 "opaque">>, <<",", " ">>, <<>>))
ProxyAuthenticate == Challenge("Proxy-Authenticate")
WWWAuthenticate == Challenge("WWW-Authenticate")
Authorization == Credential("Authorization")
ProxyAuthorization == Credential("Proxy-Authorization")

\* The headers that hold an address.
Tagged(n, short) ==
    H({n, short}, <<Sub("uri"), Pars(P1("tag", "text"))>>, <<Name(n), PrUri, Par("tag"), PrPars>>)
From == Tagged("From", "f")
To == Tagged("To", "t")
\* expires is written as a bare number after what precedes it.
Contact ==
    Each({"Contact", "m"}, <<Sub("uri"), Pars(P1("q", "q") @@ P1("expires", "number"))>>,
         <<Name("Contact"), PrUri, Par("q"), F("expires"), PrPars>>)
ReplyTo == H({"Reply-To"}, <<Sub("uri"), Pars(NoneKnown)>>, <<Name("Reply-To"), PrUri, PrPars>>)
Route == Each({"Route"}, <<Sub("nameaddr"), Pars(NoneKnown)>>, <<Name("Route"), PrUri, PrPars>>)
RecordRoute ==
    Each({"Record-Route"}, <<Sub("nameaddr"), Pars(NoneKnown)>>, <<Name("Record-Route"), PrUri, PrPars>>)

\* rport may come without a value; comment ends the header.
Via ==
    Each({"Via", "v"},
         <<Sub("version"), Sub("any"), Sub("transport"), Sp, Sub("hostport"),
           ViaPars(P1("branch", "text") @@ P1("ttl", "u8") @@ P1("maddr", "text") @@
                   P1("received", "text") @@ P1("rport", "rport")),
           If({"("}, <<Lit("("), Upto("comment", ")")>>)>>,
         <<Name("Via"), T(SipVersion \o <<"/">>), Sub("transport"), T(<<" ">>), Sub("hostport"),
           Sub("rport"), Par("received"), Par("ttl"), Par("maddr"), Par("branch"), PrPars,
           FW("comment", <<" ", "(">>, <<")">>)>>)

=============================================================================
