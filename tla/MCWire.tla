------------------------------- MODULE MCWire -------------------------------
(***************************************************************************)
(* Wire with a peer that writes every header this code knows, with and     *)
(* without its optional parts.                                             *)
(***************************************************************************)
EXTENDS Wire

UriB == <<"sip", ":", "b", "@", "h">>
UriSix == <<"sip", ":", "[", ":", ":", "1", "]">>
UriTls == <<"sips", ":", "b", "@", "h", ";", "transport", "=", "tls">>
UriMaddr == <<"sip", ":", "b", "@", "h", ";", "maddr", "=", "m", ";", "n", "=", "\"", "a", ";",
      "b", "\"">>
UriFoo == <<"sip", ":", "b", "@", "h", ";", "method", "=", "FOO", ";", "lr">>
ViaPlain == <<"Via", ":", " ", "SIP", "/", "2", ".", "0", "/", "UDP", " ", "h", ":", "5070",
      ";", "branch", "=", "b1">>
ViaFull == <<"v", ":", " ", "SIP", "/", "2", ".", "0", "/", "tcp", " ", "g", ":", "5060", ";",
      "branch", "=", "b2", ";", "ttl", "=", "1", ";", "maddr", "=", "m", ";", "received", "=",
      "10", ".", "0", ".", "0", ".", "1", ";", "x", "=", "1", " ", "(", "c", ")">>
ViaRport == <<"Via", ":", " ", "SIP", "/", "2", ".", "0", "/", "UDP", " ", "h", ";", "rport",
      ";", "branch", "=", "b1">>
ViaTwo == <<"Via", ":", " ", "SIP", "/", "2", ".", "0", "/", "UDP", " ", "h", ";", "rport", "=",
      "5060", ";", "branch", "=", "b1", ",", "SIP", "/", "2", ".", "0", "/", "WS", " ", "g",
      ";", "branch", "=", "b2">>
ViaSpaced == <<"Via", ":", " ", "SIP", "/", "2", ".", "0", "/", "UDP", " ", "h", ";", "branch",
      "=", "b1", ",", " ", "SIP", "/", "2", ".", "0", "/", "WS", " ", "g", ";", "branch", "=",
      "b2">>
ViaSix == <<"Via", ":", " ", "SIP", "/", "2", ".", "0", "/", "UDP", " ", "[", "2001", ":",
      "db8", ":", ":", "1", "]", ":", "5060", ";", "branch", "=", "b1">>
ViaBare == <<"Via", ":", " ", "SIP", "/", "2", ".", "0", "/", "UDP", " ", "h", ":", "5060", ";",
      "x", "=", "[", "1", ":", "2", "]">>
ViaMaddr == <<"Via", ":", " ", "SIP", "/", "2", ".", "0", "/", "UDP", " ", "h", ":", "5060",
      ";", "branch", "=", "b1", ";", "maddr", "=", "m">>
FromBob == <<"f", ":", " ", "\"", "B", " ", "B", "\"", " ", "<", "sip", ":", "b", "@", "h", ">",
      ";", "tag", "=", "t1">>
FromBare == <<"From", ":", " ", "sip", ":", "b", "@", "h", ";", "tag", "=", "t1", ";", "n">>
FromTwo == <<"From", ":", " ", "B", " ", "B", " ", "<", "sip", ":", "b", "@", "h", ">", ";",
      "tag", "=", "t1">>
ToAnn == <<"To", ":", " ", "<", "sip", ":", "a", "@", "h", ">">>
ToTagged == <<"t", ":", " ", "<", "sip", ":", "a", "@", "h", ">", ";", "tag", "=", "t2">>

Ln(x) == x \o CRLF
Head5(via, from, to, method) ==
    Ln(via) \o Ln(from) \o Ln(to) \o Ln(<<"i", ":", " ", "c1">>) \o
    Ln(<<"CSeq", ":", " ", "1", " ", method>>)
Request(method, uri, via, from, to, lines) ==
    Ln(<<method, " ">> \o uri \o <<" ">> \o SipVersion) \o
    Head5(via, from, to, method) \o lines \o CRLF
Reply(code, lines) ==
    Ln(SipVersion \o <<" ", code, " ", "Fine">>) \o
    Head5(ViaPlain, FromBob, ToTagged, "INVITE") \o lines \o CRLF
Invite(lines) == Request("INVITE", UriB, ViaPlain, FromBob, ToAnn, lines)

MixedRoute ==
    <<"Route", ":", " ", "<", "sip", ":", "p", ";", "lr", ">", ",", "<", "sip", ":", "q", ":",
      "5061", ">", ";", "n", "=", "1", ",", "<", "sip", ":", "r", ";", "lr", ">">>

Extras == {
    <<"s", ":", " ", "lunch", " ", "today">>,
    <<"Organization", ":", " ", "Box">>,
    <<"Date", ":", " ", "Sat", ",", " ", "13", " ", "Nov">>,
    <<"Server", ":", " ", "x">>,
    <<"User-Agent", ":", " ", "y">>,
    <<"Expires", ":", " ", "60">>,
    <<"Max-Forwards", ":", " ", "70">>,
    <<"Min-Expires", ":", " ", "60">>,
    <<"Content-Length", ":", " ", "0">>,
    <<"Proxy-Require", ":", " ", "a", ",", " ", "b">>,
    <<"Require", ":", " ", "a">>,
    <<"Unsupported", ":", " ", "a">>,
    <<"k", ":", " ", "a", ",", "b">>,
    <<"Supported", ":", " ", "\"", "a", " ", "b", "\"">>,
    <<"e", ":", " ", "gzip">>,
    <<"Priority", ":", " ", "urgent">>,
    <<"MIME-Version", ":", " ", "1", ".", "0">>,
    <<"Allow", ":", " ", "INVITE", ",", " ", "ACK">>,
    <<"Allow", ":", " ", "INVITE", ",", " ", "FOO">>,
    <<"Accept", ":", " ", "text", "/", "plain", ";", "n", "=", "1", ",", " ", "text", "/",
      "html">>,
    <<"Accept", ":", " ", "text", "/", "plain", ";", "n", "=", "\"", "a", ",", "b", "\"">>,
    <<"c", ":", " ", "text", "/", "plain", ";", "n">>,
    <<"Accept-Encoding", ":", " ", "gzip", ";", "q", "=", "0", ".", "05", ",", " ", "identity">>,
    <<"Accept-Encoding", ":", " ", "gzip", ";", "q", "=", "x">>,
    <<"Accept-Language", ":", " ", "da", ",", " ", "en", "-", "gb", ";", "q", "=", "1", ";",
      "n", "=", "1">>,
    <<"Content-Language", ":", " ", "fr", ",", " ", "en">>,
    <<"Call-Info", ":", " ", "<", "http", ":", "/", "/", "x", ">", ";", "purpose", "=", "icon">>,
    <<"Alert-Info", ":", " ", "<", "http", ":", "/", "/", "x", ".", "y", "/", "z", ">", ";",
      "n", "=", "1">>,
    <<"Error-Info", ":", " ", "<", "sip", ":", "x", "@", "y", ">">>,
    <<"Content-Disposition", ":", " ", "session", ";", "n", "=", "1">>,
    <<"In-Reply-To", ":", " ", "1", "@", "h", ",", " ", "2", "@", "h">>,
    <<"Retry-After", ":", " ", "120">>,
    <<"Retry-After", ":", " ", "120", " ", "(", "busy", ")", ";", "n", "=", "1">>,
    <<"Retry-After", ":", " ", "120", ";", "n", "=", "1">>,
    <<"Timestamp", ":", " ", "54", ".", "2">>,
    <<"Timestamp", ":", " ", "54", " ", "0", ".", "5">>,
    <<"Warning", ":", " ", "307", " ", "isi", ".", "edu", " ", "\"", "no", "\"">>,
    <<"Authentication-Info", ":", " ", "nextnonce", "=", "\"", "a", "\"", ",", " ", "qop", "=",
      "auth">>,
    <<"Authentication-Info", ":", " ", "nextnonce", "=", "\"", "a", ",", "b", "\"">>,
    <<"WWW-Authenticate", ":", " ", "Digest", " ", "realm", "=", "\"", "r", "\"", ",", " ",
      "nonce", "=", "\"", "n", "\"", ",", " ", "stale", "=", "FALSE">>,
    <<"WWW-Authenticate", ":", " ", "Digest", " ", "realm", "=", "\"", "a", " ", "b", "\"", ",",
      " ", "qop", "=", "auth">>,
    <<"Proxy-Authenticate", ":", " ", "Basic", ";", "realm", "=", "\"", "r", "\"">>,
    <<"Authorization", ":", " ", "Digest", " ", "username", "=", "\"", "u", "\"", ",", " ",
      "realm", "=", "\"", "r", "\"", ",", " ", "uri", "=", "\"", "sip", ":", "h", "\"">>,
    <<"Proxy-Authorization", ":", " ", "Digest", " ", "username", "=", "\"", "u", "\"", ",",
      " ", "response", "=", "r">>,
    <<"m", ":", " ", "\"", "Bob", "\"", " ", "<", "sip", ":", "b", "@", "h", ":", "5061", ";",
      "transport", "=", "tcp", ">", ";", "q", "=", "0", ".", "7">>,
    <<"Contact", ":", " ", "<", "sip", ":", "b", "@", "h", ">", ";", "expires", "=", "60">>,
    <<"Contact", ":", " ", "sip", ":", "b", "@", "h", ";", "n", "=", "1", ",", "<", "sip", ":",
      "c", "@", "h", ">">>,
    <<"Contact", ":", " ", "Bob", " ", "<", "sips", ":", "b", ":", "pw", "@", "h", ";", "user",
      "=", "phone", ";", "method", "=", "INVITE", ";", "ttl", "=", "5", ";", "maddr", "=", "m",
      ";", "lr", ";", "n", "=", "1", "?", "a", "=", "b", "&", "c", "=", "d", ">">>,
    <<"Contact", ":", " ", "<", "sip", ":", "h", "?", "a", ">">>,
    <<"Contact", ":", " ", "<", "sip", ":", "[", "2001", ":", "db8", ":", ":", "1", "]", ">">>,
    <<"Contact", ":", " ", "sip", ":", "b", "@", "h", "?", "a", "=", "b">>,
    <<"Reply-To", ":", " ", "<", "sip", ":", "b", "@", "h", ">", ";", "n">>,
    <<"Reply-To", ":", " ", "Bob", " ", "B", " ", "<", "sip", ":", "b", "@", "h", ">">>,
    <<"Route", ":", " ", "<", "sip", ":", "p", ";", "lr", ">">>,
    <<"Route", ":", " ", "<", "sip", ":", "p", ">">>,
    MixedRoute,
    <<"Route", ":", " ", "<", "sip", ":", "p", ";", "maddr", "=", "m", ">", ",", "<", "sip",
      ":", "q", ";", "transport", "=", "ws", ">">>,
    <<"Record-Route", ":", " ", "<", "sip", ":", "p", ";", "lr", ">", ",", "<", "sip", ":", "q",
      ";", "lr", ">">>,
    <<"X", "-", "Foo", ":", " ", "bar">>}

SdpType == <<"c", ":", " ", "application", "/", "sdp">>
Octets == <<"x", "=", "1">>

\* Requests without a Content-Length, as UDP allows; then other methods, other
\* first lines, other addresses; then responses and keep-alives.
Texts ==
    {Invite(Ln(x)) : x \in Extras} \cup
    {Request("INVITE", UriB, v, f, t, <<>>) :
        v \in {ViaPlain, ViaFull, ViaRport, ViaTwo, ViaSpaced, ViaSix, ViaBare, ViaMaddr},
        f \in {FromBob, FromBare, FromTwo}, t \in {ToAnn, ToTagged}} \cup
    {Request(n, u, ViaPlain, FromBob, ToAnn, <<>>) :
        n \in {"OPTIONS", "FOO"}, u \in {UriB, UriSix, UriTls, UriMaddr, UriFoo}} \cup
    {Request("INVITE", UriFoo, ViaPlain, FromBob, ToAnn, Ln(MixedRoute))} \cup
    {Reply(code, Ln(SdpType)) \o Octets : code \in {"200", "299"}} \cup
    {Invite(<<>>) \o Octets, Invite(Ln(SdpType)) \o Octets, Ping, Pong}
MCAtom == STRING
MCDatagrams == Texts
MCPorts == {<<"5060">>, <<"5070">>}

\* On a connection: lengths in both spellings, twice, and not at all, or where
\* the decoder does not see them; bodies that look like keep-alives.
\* Most of these messages lack the headers that process_message asks for.
Length(name, sp, n) == Ln(<<name>> \o sp \o <<":", " ", n>>)
Short(lines, body) == <<"INFO">> \o CRLF \o lines \o CRLF \o body
MCStreamItems ==
    {Ping, Pong,
     Short(Length("content-length", <<>>, "4"), CRLF \o CRLF),
     Short(Length("l", <<>>, "0") \o Length("Content-Length", <<>>, "2"),
           <<"body", "body">>),
     Short(Length("Content-Length", <<" ">>, "0"), <<>>)}
=============================================================================
