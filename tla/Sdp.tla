--------------------------------- MODULE Sdp ---------------------------------
(***************************************************************************)
(* Session descriptions and their negotiation in rssip-media: the parser   *)
(* and Display of sdp/, and the Negotiator.                                *)
(*                                                                         *)
(* A text is a sequence of lines, a line a record of its letter f and what *)
(* of its value the parser tells apart.  A description is a record of the  *)
(* fields that are present, named by the letters of their lines.  Numbers  *)
(* are in the range of their type (a port that is not is an error).        *)
(***************************************************************************)
EXTENDS Integers, SequencesExt

CONSTANTS
    Addresses,      \* what is an IP address, and not a name
    Times,          \* the values of t= and r= that are made of numbers
    Dynamic         \* the formats from 96 on

\* The origin of a description that has none is the address of the host.
ASSUME ValuesAssumption == "local" \in Addresses /\ "0 0" \in Times

Line(f, x) == [f |-> f, x |-> x]
Put(r, f, x) == [g \in DOMAIN r \cup {f} |-> IF g = f THEN x ELSE r[g]]
Opt(r, f) == IF f \in DOMAIN r THEN <<Line(f, r[f])>> ELSE <<>>
When(cond, x) == {y \in {x} : cond}
\* The elements of s that are in S, in their order: filter(), or a loop that
\* pushes them.
Keep(s, S) ==
    LET kept[k \in 0..Len(s)] ==
          IF k = 0 THEN <<>> ELSE IF s[k] \in S THEN Append(kept[k - 1], s[k]) ELSE kept[k - 1]
    IN  kept[Len(s)]

-----------------------------------------------------------------------------
(* Reading: SdpParser.  A step returns the description, or none after an   *)
(* error.                                                                  *)

Default == [o |-> "local", s |-> "", t |-> <<>>, a |-> <<>>, media |-> <<>>]

\* parse_media_description: "/2" behind the port is taken for the transport,
\* and there is no arm for application.  The transport is read up to a blank:
\* without a format behind it, it has the end of the line in it, and is unknown.
MediaTypes == {"audio", "video", "text", "message"}
Transports == {"udp", "RTP/AVP", "RTP/AVPF", "RTP/SAVP", "RTP/SAVPF"}
Media(l) ==
    When(/\ l.type \in MediaTypes /\ l.proto \in Transports
         /\ "ports" \notin DOMAIN l /\ l.fmts # <<>>,
         [type |-> l.type, port |-> l.port, proto |-> l.proto, fmts |-> l.fmts, a |-> <<>>])

\* parse_origin, parse_connection_info, parse_time, parse_repeat_times
Readable(l) ==
    /\ l.f \in {"o", "c"} => l.x \in Addresses
    /\ l.f \in {"t", "r"} => l.x \in Times
    /\ l.f = "v" => l.x = "0"

\* set_information, set_connection, set_attr: below an m= line, of the media.
Add(r, f, x) == IF f = "a" THEN [r EXCEPT !.a = Append(@, x)] ELSE Put(r, f, x)
Below(sd, f, x) ==
    IF sd.media = <<>> THEN Add(sd, f, x)
    ELSE [sd EXCEPT !.media[Len(sd.media)] = Add(@, f, x)]

\* One round of parse_sdp.  b= stops before its colon, and z= and a letter that
\* is not known stop before their values: the next round finds no field there.
Field(sd, l) ==
    IF l.f = "m" THEN {[sd EXCEPT !.media = Append(@, m)] : m \in Media(l)} ELSE
    When(Readable(l) /\ l.f \notin {"b", "z", "x"} /\ (l.f = "r" => sd.t # <<>>),
         CASE l.f \in {"o", "s", "u", "e", "p"} -> Put(sd, l.f, l.x)
           [] l.f \in {"i", "c", "a"} -> Below(sd, l.f, l.x)
           [] l.f = "t" -> [sd EXCEPT !.t = Append(@, [t |-> l.x, r |-> <<>>])]
           [] l.f = "r" -> [sd EXCEPT !.t[Len(sd.t)].r = Append(@, l.x)]
           [] OTHER -> sd)
Round(S, l) == UNION {Field(sd, l) : sd \in S}
ReadFrom(S, text) ==
    LET read[k \in 0..Len(text)] == IF k = 0 THEN S ELSE Round(read[k - 1], text[k])
    IN  read[Len(text)]
Parse(text) == ReadFrom({Default}, text)

-----------------------------------------------------------------------------
(* Writing: Display of SessionDescription.                                 *)

Each(f, xs) == [k \in DOMAIN xs |-> Line(f, xs[k])]

\* Mutant: the repeat times come after all the times.
TimeLinesApart(ts) ==
    [k \in DOMAIN ts |-> Line("t", ts[k].t)] \o
    FlattenSeq([k \in DOMAIN ts |-> Each("r", ts[k].r)])
TimeLines(ts) == FlattenSeq([k \in DOMAIN ts |-> <<Line("t", ts[k].t)>> \o Each("r", ts[k].r)])

\* The title of a medium is written as if it were a time.
MediaLines(m) ==
    <<[f |-> "m", type |-> m.type, port |-> m.port, proto |-> m.proto, fmts |-> m.fmts]>> \o
    (IF "i" \in DOMAIN m THEN <<Line("t", m.i)>> ELSE <<>>) \o Opt(m, "c") \o Each("a", m.a)
Write(sd) ==
    <<Line("v", "0"), Line("o", sd.o), Line("s", sd.s)>> \o
    Opt(sd, "i") \o Opt(sd, "u") \o Opt(sd, "e") \o Opt(sd, "p") \o Opt(sd, "c") \o
    TimeLines(sd.t) \o Each("a", sd.a) \o
    FlattenSeq([k \in DOMAIN sd.media |-> MediaLines(sd.media[k])])

-----------------------------------------------------------------------------
(* The Negotiator: state, and the descriptions it has.  An operation       *)
(* returns how it ends, and the Negotiator after it.                       *)

Fresh == [state |-> "Initial"]
Ended(how, n) == [how |-> how, n |-> n]

SetRemote(n, sd) ==
    IF n.state = "Initial" THEN Ended("ok", Put(Put(n, "state", "RemoteOffer"), "remote", sd))
    ELSE IF n.state = "LocalOffer" THEN Ended("ok", Put(Put(n, "state", "Ready"), "remote", sd))
    ELSE Ended("error", n)
SetLocal(n, sd) ==
    IF n.state = "Initial" THEN Ended("ok", Put(Put(n, "state", "LocalOffer"), "local", sd))
    ELSE IF n.state = "RemoteOffer" THEN Ended("ok", Put(Put(n, "state", "Ready"), "local", sd))
    ELSE Ended("error", n)

\* create_offer: the attributes of a codec, then, for the last stream only,
\* the packet times and the direction.
Directions == {"sendrecv", "sendonly", "recvonly", "inactive"}
OfferMedia(stream, last, direction) ==
    [type |-> stream.type, port |-> stream.port, proto |-> stream.proto,
     fmts |-> stream.codecs,
     a |-> FlattenSeq([k \in DOMAIN stream.codecs |->
               IF stream.codecs[k] = "101" THEN <<"rtpmap", "fmtp">> ELSE <<"rtpmap">>]) \o
           (IF last THEN <<"ptime", "maxptime", direction>> ELSE <<>>)]
CreateOffer(params) ==
    LET n == Len(params.streams) IN
    [o |-> params.ip, s |-> "-", c |-> params.ip, t |-> <<[t |-> "0 0", r |-> <<>>]>>, a |-> <<>>,
     media |-> [k \in 1..n |-> OfferMedia(params.streams[k], k = n, params.direction)]]

\* create_offer and then set_local_offer, as every caller has them.
OfferLocal(n, params) ==
    IF n.state \notin {"Initial", "RemoteOffer"} THEN Ended("error", n)
    ELSE SetLocal(n, CreateOffer(params))

\* The first direction attribute of a medium.
DirectionOf(m) ==
    LET i == SelectInSeq(m.a, LAMBDA x : x \in Directions) IN IF i = 0 THEN "none" ELSE m.a[i]

\* The direction d, if the local description wants as much.
Willing(local, d) == IF local \in {"sendrecv", d} THEN d ELSE "inactive"
\* Mutant: a stream offered as sendonly is received, whatever is wanted.
AnswerDirectionWilling(remote, local) ==
    IF remote = "sendonly" THEN "recvonly"
    ELSE IF remote = "recvonly" THEN Willing(local, "sendonly") ELSE remote
\* "none": the answer keeps the attributes of the local description.
AnswerDirection(remote, local) ==
    IF remote = "sendonly" THEN Willing(local, "recvonly")
    ELSE IF remote = "recvonly" THEN Willing(local, "sendonly") ELSE remote
AnswerMedia(local, remote) ==
    LET d == AnswerDirection(DirectionOf(remote), DirectionOf(local)) IN
    [local EXCEPT !.fmts = Keep(@, ToSet(remote.fmts)),
                  !.a = IF d = "none" THEN @ ELSE Append(Keep(@, ToSet(@) \ Directions), d)]

\* Streams are compared pairwise as far as both descriptions have them; one
\* that either side has given port 0 is passed over.
Paired(x, y) == 1..Min({Len(x.media), Len(y.media)})
Alike(a, b) == a.type = b.type /\ a.proto = b.proto
Active(x, y, k) == x.media[k].port # "0" /\ y.media[k].port # "0"
ActivePairs(x, y) == {k \in Paired(x, y) : Active(x, y, k)}
Answer(local, remote) ==
    LET kept == Keep([k \in Paired(local, remote) |-> k], ActivePairs(local, remote))
    IN  [local EXCEPT !.t = remote.t,
            !.media = [j \in DOMAIN kept |-> AnswerMedia(local.media[kept[j]], remote.media[kept[j]])]]
Negotiable(local, remote) ==
    /\ \A k \in Paired(local, remote) : Alike(local.media[k], remote.media[k])
    /\ \A k \in ActivePairs(local, remote) : ToSet(local.media[k].fmts) \cap Dynamic = {}
CreateAnswer(n) ==
    IF n.state # "Ready" THEN Ended("error", n)
    ELSE IF ~Negotiable(n.local, n.remote) THEN Ended("panic", n)
    ELSE Ended("ok", Put(Put(n, "state", "Done"), "answer", Answer(n.local, n.remote)))

\* Mutant: the streams are not compared.
ProcessAnswerUnchecked(n, answer) ==
    IF n.state # "LocalOffer" THEN Ended("error", n)
    ELSE Ended("ok", Put(Put(n, "state", "Done"), "answer", answer))
ProcessAnswer(n, answer) ==
    IF n.state # "LocalOffer" THEN Ended("error", n)
    ELSE IF \E k \in Paired(n.local, answer) : ~Alike(n.local.media[k], answer.media[k])
    THEN Ended("panic", n)
    ELSE Ended("ok", Put(Put(n, "state", "Done"), "answer", answer))

-----------------------------------------------------------------------------
(* What a text and a description are, for reading, writing and answering   *)
(* them: the fields that are there, the lists, and the values that can be  *)
(* read.                                                                   *)

IsSeq(s) == Len(s) \in Nat /\ s = [k \in 1..Len(s) |-> s[k]]
HasFields(r, must, may) ==
    must \subseteq DOMAIN r /\ DOMAIN r \subseteq must \cup may /\ r = [f \in DOMAIN r |-> r[f]]
IsLine(l) == l.f = "m" => IsSeq(l.fmts)
IsText(text) == IsSeq(text) /\ \A k \in 1..Len(text) : IsLine(text[k])
IsTime(t) ==
    /\ HasFields(t, {"t", "r"}, {}) /\ t.t \in Times
    /\ IsSeq(t.r) /\ \A k \in 1..Len(t.r) : t.r[k] \in Times
IsMedium(m) ==
    /\ HasFields(m, {"type", "port", "proto", "fmts", "a"}, {"i", "c"})
    /\ m.proto \in Transports /\ ("c" \in DOMAIN m => m.c \in Addresses)
    /\ IsSeq(m.fmts) /\ IsSeq(m.a)
IsDescription(sd) ==
    /\ HasFields(sd, {"o", "s", "t", "a", "media"}, {"i", "u", "e", "p", "c"})
    /\ sd.o \in Addresses /\ ("c" \in DOMAIN sd => sd.c \in Addresses)
    /\ IsSeq(sd.t) /\ \A k \in 1..Len(sd.t) : IsTime(sd.t[k])
    /\ IsSeq(sd.a)
    /\ IsSeq(sd.media) /\ \A k \in 1..Len(sd.media) : IsMedium(sd.media[k])

\* What is read back of a medium that is written: Display has a format of its
\* own for the title, and the parser needs a type it knows, and a format.
Legible(m) == m.type \in MediaTypes /\ "i" \notin DOMAIN m /\ m.fmts # <<>>

=============================================================================
