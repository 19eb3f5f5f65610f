------------------------------ MODULE Inbound ------------------------------
(***************************************************************************)
(* What a peer writes, on its way into rssip: over a TCP connection, which *)
(* cuts the stream where it likes, through the frame decoder of            *)
(* transport/decode.rs to tcp_read; or as a UDP datagram, which may be     *)
(* lost, to receive_datagram.                                              *)
(***************************************************************************)
EXTENDS Atoms, TLC

CONSTANTS
    StreamItems,    \* what the peer may write on a connection
    Datagrams,      \* what it may send over UDP
    MaxWritten      \* bound: messages and line ends written on a connection

-----------------------------------------------------------------------------
(* StreamingDecoder::decode.                                               *)

MaxLength == 9                  \* bound on the length of a body
LengthNames == {"Content-Length", "content-length", "l", "L"}

Ping == CRLF \o CRLF
Pong == CRLF
Starts(buf, text) == Len(buf) >= Len(text) /\ SubSeq(buf, 1, Len(text)) = text

\* The empty line, and the place of the first one.
EmptyAt(buf, i) == i + 3 <= Len(buf) /\ SubSeq(buf, i, i + 3) = Ping
HeadEnd(buf) ==
    LET at == {i \in 1..Len(buf) : EmptyAt(buf, i)}
    IN  {i \in at : \A j \in at : i <= j}

\* The lengths in the lines above end, by the place of their line: a line
\* counts when its name touches its colon and nothing follows its number.
LengthLines(buf, end) ==
    LET starts == {i \in 1..(end - 3) : /\ i = 1 \/ buf[i - 1] = "\n"
                                        /\ buf[i] \in LengthNames /\ buf[i + 1] = ":"}
    IN  {l \in starts \X (0..MaxLength) :
           \E j \in (l[1] + 2)..(end - 1), k \in (l[1] + 3)..end :
             /\ j < k /\ buf[j] = ToString(l[2]) /\ buf[k] = "\r"
             /\ \A b \in ((l[1] + 2)..(k - 1)) \ {j} : buf[b] \in Blank}
\* The last one is the length of the body.
LengthIn(buf, end) ==
    LET lines == LengthLines(buf, end)
    IN  {l[2] : l \in {x \in lines : \A y \in lines : y[1] <= x[1]}}

\* "more": not a whole frame yet; "error": the connection is given up.
Frame(kind, n) == [kind |-> kind, n |-> n]
\* Mutant: the length in the first line counts.
SizesFirst(buf) ==
    UNION {{end + 3 + l[2] : l \in {x \in LengthLines(buf, end) :
                                     \A y \in LengthLines(buf, end) : x[1] <= y[1]}}
             : end \in HeadEnd(buf)}
Sizes(buf) == UNION {{end + 3 + n : n \in LengthIn(buf, end)} : end \in HeadEnd(buf)}
\* Mutant: a head without a length waits for more.
MessageWaits(buf) ==
    LET sizes == Sizes(buf)
    IN  IF \E n \in sizes : Len(buf) >= n THEN Frame("message", CHOOSE n \in sizes : TRUE)
        ELSE Frame("more", 0)
Message(buf) ==
    LET sizes == Sizes(buf)
    IN  IF HeadEnd(buf) = {} \/ \E n \in sizes : Len(buf) < n THEN Frame("more", 0)
        ELSE IF sizes = {} THEN Frame("error", 0)
        ELSE Frame("message", CHOOSE n \in sizes : TRUE)
\* Mutant: a ping is taken line end by line end.
DecodePingTwice(buf) == IF Starts(buf, Pong) THEN Frame("ping", 2) ELSE Message(buf)
Decode(buf) ==
    IF Starts(buf, Ping) THEN Frame("ping", 4)
    ELSE IF Starts(buf, Pong) THEN Frame("pong", 2)
    ELSE Message(buf)

(* The peer writes keep-alives, and messages that begin with a line, have  *)
(* an empty line, and end where their length says if there is one.         *)
Framed(text) ==
    /\ text \in Text /\ ~Starts(text, Pong)
    /\ \E end \in HeadEnd(text) : \A n \in LengthIn(text, end) : Len(text) = end + 3 + n
ASSUME StreamAssumption == \A text \in StreamItems : text \in {Ping, Pong} \/ Framed(text)
ASSUME DatagramAssumption == Datagrams \subseteq Text
ASSUME BoundAssumption == MaxWritten \in Nat

-----------------------------------------------------------------------------
VARIABLES
    carrier,    \* "tcp" or "udp"
    sent,       \* history: the messages the peer has written
    ends,       \* history: the line ends of its keep-alives
    pipe,       \* the text on its way
    buf,        \* the buffer of the frame decoder
    got,        \* history: the messages taken in
    gotEnds,    \* history: the line ends taken in as keep-alives
    pongs,      \* keep-alive answers written
    open        \* FALSE when the reading task has ended

inbound == <<carrier, sent, ends, pipe, buf, got, gotEnds, pongs, open>>

Idle ==
    /\ carrier \in {"tcp", "udp"}
    /\ sent = <<>> /\ pipe = <<>> /\ buf = <<>> /\ got = <<>>
    /\ ends = 0 /\ gotEnds = 0 /\ pongs = 0 /\ open = TRUE

KindOf(text) == CASE text = Ping -> "ping" [] text = Pong -> "pong" [] OTHER -> "message"
LineEnds(kind) == CASE kind = "ping" -> 2 [] kind = "pong" -> 1 [] OTHER -> 0
With(messages, kind, text) == IF kind = "message" THEN Append(messages, text) ELSE messages

Send(text) ==
    /\ open
    /\ IF carrier = "tcp" THEN text \in StreamItems /\ Len(sent) + ends < MaxWritten
       ELSE text \in Datagrams /\ sent = <<>> /\ ends = 0
    /\ sent' = With(sent, KindOf(text), text)
    /\ ends' = ends + LineEnds(KindOf(text))
    /\ pipe' = pipe \o text
    /\ UNCHANGED <<carrier, buf, got, gotEnds, pongs, open>>

\* FramedRead reads only when the decoder has no frame to give.  The stream is
\* cut where that matters to it: about an empty line, or in a body.
Cuts ==
    {n \in 1..Len(pipe) :
       \/ n = Len(pipe) \/ pipe[n] = "body"
       \/ \E i \in (n - 3)..n : i > 0 /\ EmptyAt(pipe, i)
       \/ \A j \in 1..n : pipe[j] \in NewLine}
Arrive ==
    /\ carrier = "tcp" /\ open
    /\ Decode(buf).kind = "more"
    /\ \E n \in Cuts : buf' = buf \o SubSeq(pipe, 1, n) /\ pipe' = Drop(pipe, n)
    /\ UNCHANGED <<carrier, sent, ends, got, gotEnds, pongs, open>>

\* A ping is answered; the peer's answer to one of rssip's is left alone.
TakeIn(kind, text) ==
    /\ got' = With(got, kind, text)
    /\ gotEnds' = gotEnds + LineEnds(kind)
    /\ UNCHANGED <<carrier, sent, ends>>
\* tcp_read: one frame taken out of the buffer, or the end of the task, when
\* the text is no message or a ping cannot be answered.
TakeFrame ==
    LET f == Decode(buf) IN
    /\ carrier = "tcp" /\ open
    /\ f.kind \in {"ping", "pong", "message"}
    /\ buf' = Drop(buf, f.n)
    /\ TakeIn(f.kind, SubSeq(buf, 1, f.n))
    /\ \/ pongs' = pongs + (IF f.kind = "ping" THEN 1 ELSE 0) /\ open' = open
       \/ f.kind = "ping" /\ pongs' = pongs /\ open' = FALSE
    /\ UNCHANGED pipe
GiveUp ==
    /\ carrier = "tcp" /\ open
    /\ Decode(buf).kind = "error"
    /\ open' = FALSE
    /\ UNCHANGED <<carrier, sent, ends, pipe, buf, got, gotEnds, pongs>>

\* receive_datagram
TakeDatagram ==
    /\ carrier = "udp" /\ pipe # <<>>
    /\ pipe' = <<>>
    /\ TakeIn(KindOf(pipe), pipe)
    /\ pongs' \in {pongs, pongs + (IF pipe = Ping THEN 1 ELSE 0)}
    /\ UNCHANGED <<buf, open>>
Lose ==
    /\ carrier = "udp" /\ pipe # <<>>
    /\ pipe' = <<>>
    /\ UNCHANGED <<carrier, sent, ends, buf, got, gotEnds, pongs, open>>

Reading == Arrive \/ TakeFrame \/ GiveUp
Transfer ==
    \/ \E text \in StreamItems \cup Datagrams : Send(text)
    \/ Reading \/ TakeDatagram \/ Lose

\* The runtime polls the reading task, and TCP delivers what was written.
InboundSpec == Idle /\ [][Transfer]_inbound /\ WF_inbound(Reading)

-----------------------------------------------------------------------------
(* Properties.                                                             *)

\* However the stream is cut, and whatever keep-alives and bodies that look
\* like keep-alives are in it, the decoder hands over the messages the peer
\* has written, whole, in order and once.
Messages == {text \in StreamItems \cup Datagrams : KindOf(text) = "message"}
Stream == INSTANCE MessageStream WITH delivered <- got
Framing == Stream!Spec

\* A ping may be taken for two pongs and two pongs for a ping, as the stream is
\* cut; what is conserved is the number of line ends, so that no keep-alive is
\* taken for a part of a message, and no more are answered than were sent.
KeepalivesConserved ==
    /\ 2 * pongs <= ends
    /\ gotEnds <= ends
    /\ (carrier = "tcp" /\ open /\ pipe = <<>> /\ buf = <<>>) => gotEnds = ends

\* Every message written on a connection is handed over or the connection is
\* given up: no cut leaves the decoder waiting for text it already has, and so
\* it catches up with a peer that writes no more than MaxWritten.
StreamDrains ==
    carrier = "tcp" ~> ~open \/ Len(got) = Len(sent)

=============================================================================
