---------------------------- MODULE MCOfferAnswer ----------------------------
(***************************************************************************)
(* OfferAnswer with applications that want one or two streams, and a peer  *)
(* that writes every line of a description this code knows.                *)
(***************************************************************************)
EXTENDS OfferAnswer

Stream(type, port, codecs) == [type |-> type, proto |-> "RTP/AVP", port |-> port, codecs |-> codecs]
Audio(codecs) == Stream("audio", "4000", codecs)
Video == Stream("video", "4002", <<"8">>)

Wanted(direction, streams) == [ip |-> "ip1", direction |-> direction, streams |-> streams]
MCParams ==
    {Wanted(d, s) : d \in Directions, s \in {<<Audio(<<"0", "8">>)>>, <<Audio(<<"0">>), Video>>}}
    \cup {Wanted("sendrecv", s) : s \in {
            <<>>,
            <<Audio(<<>>)>>,
            <<Audio(<<"8", "101">>)>>,
            <<Audio(<<"0", "96">>)>>,
            <<Stream("audio", "0", <<"0">>), Video>>,
            <<Video>>,
            <<[Audio(<<"0">>) EXCEPT !.proto = "udp"]>>,
            <<Stream("application", "4000", <<"0">>)>>}}

M(type, port, fmts) == [f |-> "m", type |-> type, port |-> port, proto |-> "RTP/AVP", fmts |-> fmts]
MAudio == M("audio", "5000", <<"8", "0">>)
MVideo == M("video", "5002", <<"8">>)
Preface(connection) ==
    <<Line("v", "0"), Line("o", connection), Line("s", "call"), Line("c", connection)>>
At0 == <<Line("t", "0 0")>>
Plain == Preface("ip2") \o At0
MCOtherOffers ==
    {Plain \o <<MAudio>> \o a : a \in {<<>>} \cup {<<Line("a", d)>> : d \in Directions}}
    \cup {Plain \o ms : ms \in {
            <<MAudio, Line("a", "sendonly"), MVideo, Line("a", "sendonly")>>,
            <<MAudio, MVideo, Line("a", "recvonly")>>,
            <<[MAudio EXCEPT !.port = "0"], MVideo>>,
            <<MVideo, MAudio>>,
            <<[MAudio EXCEPT !.fmts = <<>>]>>,
            <<[MAudio EXCEPT !.fmts = <<"96", "0">>]>>,
            <<[MAudio EXCEPT !.fmts = <<"3">>]>>,
            <<Line("a", "recvonly"), MAudio>>,
            <<MAudio, Line("i", "music")>>,
            <<MAudio, Line("c", "ip3"), Line("a", "rtpmap")>>,
            <<MAudio, Line("b", "AS:64")>>,
            <<MAudio @@ [ports |-> "2"]>>,
            <<M("application", "5000", <<"0">>)>>,
            <<Line("z", "0 0"), MAudio>>,
            <<>>}}
    \cup {Preface("ip2") \o t \o <<MAudio>> : t \in {
            <<Line("t", "1 2"), Line("r", "7 1"), Line("r", "9 1"), Line("t", "3 4"), Line("r", "7 1")>>,
            <<Line("t", "1 2"), Line("t", "3 4")>>,
            <<Line("t", "1 2"), Line("r", "7d 1h")>>,
            <<>>}}
    \cup {Preface("host") \o At0 \o <<MAudio>>,
          <<Line("v", "0"), Line("o", "ip2"), Line("s", "call"), Line("i", "about"), Line("u", "uri"),
            Line("e", "mail"), Line("p", "phone"), Line("c", "ip2"), Line("t", "0 0"),
            Line("a", "tool"), MAudio, Line("a", "sendrecv")>>}

MCExtras == {<<>>, <<Line("a", "sendrecv")>>, <<Line("i", "music")>>, <<Line("b", "AS:64")>>}
MCRssipSides == {<<"rssip", "rssip">>}
MCSides == {<<"rssip", "rssip">>, <<"rssip", "other">>, <<"other", "rssip">>}

=============================================================================
