# rssip: a verification project

rssip is a SIP stack (RFC 3261) written in Rust on tokio's multi-threaded runtime.
Beside the code this directory keeps TLA+ models of its concurrent parts, of its text
and of its negotiation of media, TLC runs that check them on small instances, and
proofs, checked by TLAPS, of what holds for every instance. Paths below are relative to `src/rssip/src` unless they say otherwise.

1. [The system](#1-the-system)
2. [The modules](#2-the-modules)
3. [The runs](#3-the-runs)
4. [Disagreements found](#4-disagreements-found)
5. [Bounds](#5-bounds)
6. [Fairness](#6-fairness)
7. [What is proved](#7-what-is-proved)
8. [What is not modelled](#8-what-is-not-modelled)
9. [Plan](#9-plan)

## 1. The system

A received message travels up, a sent one down:

    application (TU)        owns Session, Dialog, ServerTransaction, ClientTransaction
    ua/session.rs           Session<S>: the states of one call as types
    ua/dialog.rs            Dialog, DialogPlugin: dialog id -> channel of the dialog
    transaction/            ServerTransaction, ClientTransaction, TsxPlugin: key -> channel
    core/endpoint           plugins in order, construction and routing of messages
    transport/              TransportLayer: key -> transport; UDP, TCP, WebSocket, framing

Every received message gets a task of its own (`transport/mod.rs:266`). That task
parses it and offers it to the plugins in the order they were loaded, until one takes
it. DialogPlugin and TsxPlugin take a message by finding a sender in a map under a
mutex, releasing the mutex, and then awaiting `send` on a bounded channel. All the
hard behaviour of rssip comes from this: the tasks of two messages overtake each
other on any transport, the owner of the receiving end can go away between lookup and
send, and the receiving end itself moves between tasks.

| Component | State | Operations | Hard behaviour | Correct when |
|---|---|---|---|---|
| Server transaction `transaction/server.rs` | state machine with a watch channel, message channel, TU-to-task channel, timers | `from_request`, `send_provisional_response`, `send_final_response`, `create_response`, drop | the receiver goes from the transaction to the provisional task, over its JoinHandle back, and to the final task; timers against retransmissions; drop against delivery | the receiver has one owner and arrives; only the final response is sent once it exists; the transaction ends and is unregistered |
| Client transaction `transaction/client.rs`, `rssip-utils/src/peekable_receiver.rs` | state, peekable channel, timers | `send`, `receive_provisional_response`, `receive_final_response`, drop | waits that the TU cancels and mixes; responses in any order; the lingering task | no response is lost; backoff; no timeout while ringing; ACK exactly for refusals; entry as long as the object |
| Transaction registry `transaction/mod.rs` | map from key to sender | `add_transaction`, `remove_transaction`, `get_entry`, `on_incoming_request`, `on_incoming_response` | lookup and send are two steps; two transactions under one key | an entry leads to a live transaction; delivery does not fail |
| Dialog `ua/dialog.rs` | `remote_cseq`, state, channel, map from id to sender | `create_uas`, `create_uac`, `create_request`, responses, `receive`, `wait_for_ack`, drop | requests overtake each other; ACK sets the CSeq back; ACK lost | registered as long as it exists; a request is refused only if overtaken; 481 only for calls that are over |
| Session `ua/session.rs` | type state, negotiator, transaction, dialog | `from_invite`, `progress`, `accept`, `next_event`; `send_invite`, `receive_provisional`, `receive_answer` | each `?`, panic and drop on the way; what the other side's parser drops | media only after offer and answer, and whenever both sides could live with them; accept ends |
| Transport layer `transport/mod.rs`, `tcp.rs`, `ws.rs` | map from (local address, protocol) to transport; reading tasks | `select_transport`, `register_transport`, `remove_transport`, `get_transport`, `receive_message`; `accept_clients`, `connect`, reading tasks | accepted connections share a key; a connection ends between lookup and send | the table leads to connections that are read; messages reach whom they are for |
| Endpoint `core/endpoint/mod.rs` | plugins, transport layer | `create_response`, `create_outgoing_request`, `send_*`, `on_request`, `on_response`, `process_route_set` | fallback of a response whose connection is gone; order of the plugins | responses go to the sender of the request |
| Routing `core/endpoint/mod.rs`, `transport/mod.rs` | the route set of a request | `process_route_set`, `resolve_uri`, `get_response_destination` | strict routes among loose ones | no hop is lost, the request goes to the hop that is taken out |
| Framing `transport/decode.rs`, `tcp.rs` | the bytes of a stream not yet decoded | `decode` | the stream cut anywhere, keep-alives, bodies like keep-alives | messages whole, in order, once; nothing waits for text it has |
| Messages `parser.rs`, `message/`, `transport/incoming.rs`, `outgoing.rs` | none | parse, print, `MandatoryHeaders`, `encode` | 44 headers, each with a parser and a Display written apart | what is printed is read back as it was; an answer is recognised |
| Negotiator `src/rssip-media/src/negotiator.rs` | offers, answer, state | `set_*_offer`, `create_offer`, `create_answer`, `process_answer` | both sides must arrive at the same streams and directions | the answer fits the offer on both sides |
| SDP `src/rssip-media/src/sdp/` | none | parse, print | lines belong to the session or to the last medium | what is printed is read back as it was |
| Resolver, RTP stubs, examples | none that lasts | look up | none of order or time | out of scope here |

## 2. The modules

`ServerTsx` models one server transaction with its four kinds of threads: the TU (`tu`),
the task that repeats provisional responses (`prov`, `provResp`, `tuQ`), the task of
the final response (`task`, `deadline`, `retrans`, `interval`), and the delivery tasks
(`pending`). `rx` says who holds the receiver, `entry` what TsxPlugin's map has under
the key. `ProvPollState`, `ProvPollTu` and `ProvPollMsg` are the branches of the
provisional task's `select!`, the `Fin...` actions those of the final task's.
`Supersede` is what a second transaction with the same key does to the entry:
its registration overwrites ours, its drop removes whatever is there.

`ClientTsx` models one client transaction: the TU's calls, their returns and
their cancellation, `PeekableReceiver` as `peeked` and `chan`, retransmission and
timeouts, the task that absorbs what comes after a final response (`linger`).
`delivered` and `taken` are history variables that count responses in and out.
`Mailbox` is the abstract promise of the channel under `PeekableReceiver`: a bounded queue
whose receiver takes each message once and in its turn, and may go away. `ClientTsx`
implements it (`Box`): the queue is `chan` with the peeked response in front, so that
the mailbox has room for one more than the channel, the senders that wait are `pending`,
and there is a receiver until the transaction is gone.

`UasCall` models the callee's side of the calls that the copies of one INVITE start:
the plugins in the order of `src/examples/accept.rs`, the dialog (`dialogs`, `dstate`,
`rcseq`, `queue`), the session (`phase`, `nego`) and the transaction registry's entry
of the INVITE (`tsx`, `tsxEntry`). A session's type state is `phase`. The INVITE
transaction itself is reduced to "in the map, waiting for an ACK, or gone":
its inside is `ServerTsx`. Time is not modelled; the timer of `wait_for_ack` is one of
the errors `WaitFails` stands for, possible when its queue is empty. That timer starts
afresh with every other request, so that a peer which keeps sending keeps `accept`
waiting: a peer may repeat a request that was refused without end (`Repeated`), and
`AcceptEnds` speaks of calls for which nothing more is on its way from some time on.

`Transports` models the stream connections of an endpoint: `Accept`, `Register`,
`Break`, `ReadEof` and `ReadFails` are the life of a connection, the other actions the
sending of a response or a request step by step, since other tasks run between the
failed attempt, the lookup, the connect and the send. A job is a request with its
responses. `MCTransports` adds the symmetry of the peers.

`Atoms` says what a text is: a sequence of atoms, words and single punctuation characters.
`Inbound` models what comes in, over a TCP connection or as a datagram. On a connection the
peer writes messages and keep-alives (`Send`), the stream is cut (`Arrive`), and the reading
task takes frames out of it (`TakeFrame`) or gives the connection up (`GiveUp`), as
`Decode`, the StreamingDecoder, says; a datagram is taken (`TakeDatagram`) or lost (`Lose`).
`sent`, `ends`, `got` and `gotEnds` are histories of the messages and line ends written and
taken in. `MessageStream` is the abstract promise of a stream transport; `Inbound`
implements it, with `got` for `delivered` (`Framing`).

`SipText` describes how text is read and written. A character table of `parser.rs` is the set of atoms
at which a run of its characters stops (`TokenStop`, `HostStop`, ...). URIs and parameters
are read by operators, and each header is described by two lists: the steps its `parse`
takes and the pieces its `Display` writes. `Read` and `Write` interpret them. The two are
kept apart as they are in the code: the interest is in where they are not inverse.

`Routes` has what an endpoint does with a route set: `Routed` (process_route_set), `Resolve`
(resolve_uri) and `Forward`, which sends a request along it; `out` is the message written
last. A URI is a record there, whatever text it came from. `SipMessage` has the messages:
`ParseMsg` and `Encode`, `Response` (create_response), `Destination`
(get_response_destination). `Wire` composes them with `Inbound`: what was taken in is parsed, and answered
(`Answer`) or passed on (`PassOn`). Every other step of `Wire` is one of `Inbound`. `MCWire`
lists the texts of the peer: every header with and without its optional parts.

`Sdp` has the descriptions and the negotiator: `Parse` and `Write` work on lines, whose
inside is a value; the operations of a negotiator take its record and return the record
and how the call has ended ("ok", "error", "panic"). `OfferAnswer` is one call between two
sides, each rssip or another implementation: `SendInvite`, `ReceiveAnswer` and their
failures are `Session<Calling>`, `FromInvite`, `Accept` and `WaitForAck` the callee's
session, `Other...` what RFC 3264 lets another implementation write. A message keeps what
the other side's parser and DialogPlugin look at: the body, whether it has a Content-Type,
for an ACK whether it has a Via and a To tag, for an INVITE whom it reaches. Every `?` of
`session.rs` on the layers below (an INVITE, 2xx or ACK that cannot be sent, a final
response or an ACK that is not received) ends the side as "failed"; "error" and "panic"
are what the descriptions come to.
`MCOfferAnswer` lists the parameters and offers. `UasCall` has the same callee with its
interleavings and without descriptions.

`ServerTsxProofs`, `ClientTsxProofs`, `UasCallProofs`, `TransportsProofs`,
`InboundProofs`, `RoutesProofs`, `SdpProofs` and `OfferAnswerProofs` hold the theorems about
the module in their name.

An operator with a suffix, such as `Stale_OffByOne`, is a variant of the
operator without it that a plausible mistake in the code would give. No specification
uses it; it is there to show that a property depends on the line in question.

## 3. The runs

| Run | Module | Shows |
|---|---|---|
| `ServerTsx` | ServerTsx | INVITE and non-INVITE, reliable and unreliable. The receiver has one owner and arrives (`ReceiverOwned`), the provisional task is there as long as the TU can use it (`ProvisionalTaskServes`) and takes the responses in order (`ProvisionalsInOrder`); once the final task runs nothing else is sent (`FinalTaskOnlyFinal`); it ends in Terminated unless a second transaction closed its channel (`EndsTerminated`); an answered transaction ends (`Finishes`) and no delivery waits for ever on a transaction the TU has let go of (`DeliveriesResolve`). |
| `ClientTsx` | ClientTsx | The entry is there exactly while the object is (`EntryWhileAlive`); the channel with its peeked response implements a mailbox, whatever waits are cancelled or mixed: responses are received in order and once (`ReceivedInOrder`, a refinement of `Mailbox`); retransmissions back off, other requests than INVITE up to T2 (`Backoff`), and stop with the first provisional response (`QuietAfterProvisional`); ringing is not timed out (`NoTimeoutWhileRinging`); the transaction acknowledges refusals only (`AckOnlyRefusals`); waits and the lingering task end (`WaitsEnd`, `LingeringEnds`). |
| `UasCall` | UasCall | Dialogs are registered exactly while they exist (`DialogWhileHeld`), 481 is told only of calls that are over (`GoneMeansOver`), media need an answer (`MediaNeedsAnswer`), 500 needs a request that is no older (`RefusedIfOvertaken`), each acceptance of a copy needs an ACK (`AcceptedAgainAfterAck`), the INVITE's entry belongs to a transaction that exists (`EntryOfLiveTsx`), accept ends once nothing more is on its way (`AcceptEnds`). |
| `Transports` | MCTransports | The table leads to no connection whose end was read (`EntryNotEnded`), opened connections stay registered (`OwnConnectionRegistered`), the first message of a job reaches its peer (`FirstToDest`), and all of them do unless the connection of the first breaks (`StrayOnlyAfterBreak`). |
| `Wire` | MCWire | However a stream is cut, the decoder hands over the messages the peer wrote, whole, in order and once (`Framing`, a refinement of `MessageStream`), or gives the connection up, and never waits for text it has (`StreamDrains`); line ends of keep-alives are conserved (`KeepalivesConserved`: a ping and two pongs are taken for each other). A message that is written is read back as the same message exactly when no value in it is of the kinds `Survives` lists (`WrittenIsRead`); an answer is recognised exactly when `Answerable` holds of its request (`AnswerAccepted`); in the request that is written no hop of its route set is missing but the one it goes to, and the loose routes keep their order (`NoRouteLost`). |
| `OfferAnswer` | MCOfferAnswer | A description that a negotiator holds is read back from its text exactly when no medium has a title, is an application or is without formats (`DescriptionSurvives`); both sides have the same idea of what flows in each stream, but for the cases `Misleading` lists (`AnswerFits`); a session whose messages could be sent and received comes to its media exactly when the descriptions can be read and negotiated (`ConnectsIff`). |

The equivalences are two-sided on purpose: they fail when the code gets worse, and also
when it gets better, and the list of exceptions then no longer tells the truth.

Six more runs are expected to be violated, one for each finding of section 4.

## 4. Disagreements found

Each is a run whose counterexample shows the code doing other than it, or its tests
or comments, says.

* `ServerTsxPanic`: `transaction/mod.rs:85` unwraps a send that fails when the
  transaction is dropped between lookup and send; the delivery task panics.
* `ClientTsxClosed`: `receive_final` reports `ChannelClosed` when a provisional
  response is at the front of an open channel.
* `ClientTsxUnreachable`: a wait for the final response after a timed-out wait for a
  provisional one reaches `unreachable!()`.
* `UasCallAck`: DialogPlugin takes the ACK of a refused INVITE from the transaction.
* `TransportsStray`: a second response whose connection has broken goes to whichever
  peer the listener accepted last (`server.rs:243`).
* `OfferAnswerUnwrap`: `session.rs:184` unwraps the answer once the ACK is sent. An
  INVITE with an offer that another endpoint of rssip has accepted is answered with a 2xx
  whose body has no Content-Type, which the caller's parser drops: the caller acknowledges
  it and panics. `NoMediaBetweenRssip` proves what this comes to: two endpoints of rssip
  never come to their media with each other.

Met while modelling and without a run of their own:

* `server.rs:182` gives an unacknowledged INVITE T4 where the tests of timer H
  (`server.rs:589-610`) let 64*T1 pass. `TimerHJ` models it.
* A reliable INVITE server transaction is terminated at once by its final response,
  before an ACK can come (`server.rs:167`; the test at `server.rs:565-584` waits for
  one over a reliable transport). `TerminateAtOnce` models it.
* Over a reliable transport a refused INVITE is returned to the TU before its ACK is sent
  (`client.rs:170`), where the tests at `client.rs:606-663`, which only use UDP, say
  "client INVITE must generate an ACK request". `EndsAtOnce` models it.
* The interval of retransmissions is never capped by T2 (`client.rs:238`), which
  `timers.rs:6` documents as the maximum for requests other than INVITE. `Retransmit`
  doubles it as the code does, beyond T2 with `Factor` = 16; `Backoff` states the
  doubling where comment and code agree, for INVITE and up to T2.
* A peer that keeps sending other requests keeps `accept` waiting for the ACK: each starts
  the 64*T1 of `wait_for_ack` afresh (`dialog.rs:311-330`).
* Of two server transactions under one key the drop of the first removes the entry of
  the second, whose `get_entry().expect(...)` then does not hold (`server.rs:282`).
  `Supersede` has the outcome "removed".
* The transport key is documented as the destination address (`transport/mod.rs:108`)
  and is the local one, so the connection to a peer is never found again.

Of messages (`SipText`, `SipMessage`; the exceptions of `Survives` and `Answerable`):

* Quoted values that are not tokens are printed without their quotes, IPv6 hosts without
  brackets, an unknown method as `UNKNOWN-SipMethod`, `expires` of a Contact bare;
  Error-Info, In-Reply-To, Content-Disposition, Warning, the comment of Retry-After and
  the delay of Timestamp come back changed or not at all. Printing a challenge or a
  credential of another scheme than Digest is `todo!()`.
* A body is kept only below a Content-Type. Via values joined by a comma and a space are
  refused. Call-Info and Content-Language have a parser that the parser of messages never
  calls.
* A response goes to the Via's port even when there is an rport (`Destination`).
* The decoder wants a Content-Length without a space before the colon and closes the
  connection otherwise; the parser of messages takes both.
* Only strict routes are taken out of a route set; the request-URI is put back before the
  last route and not at the end, and the strict route does not become the request-URI
  (`Routed`; RFC 3261 12.2.1.1). A loose route is not used to send by. A request-URI with
  `lr` that is put back becomes a loose route in front of the last one, which
  `NoRouteLost` allows: the last hop is then not the request-URI, but none is missing.

Of calls and media (`Sdp`, `OfferAnswer`):

* `create_request` puts the dialog's own contact, or the From URI, into the request-URI of
  an INVITE, never the To URI (`dialog.rs`); `remote_tag` stays empty although a comment
  says it must be set (`dialog.rs:176`).
* The ACK of `receive_answer` has no Via and no To tag, so that rssip as a callee never
  takes it; neither it nor the 2xx of `accept` has a Content-Type, so that a body is
  dropped. The caller sends the ACK before it looks for the answer. Other final responses are `todo!()`. A 2xx
  that cannot be used is not acknowledged.
* In answers, an explicit sendrecv is always answered sendrecv; a local stream without a
  direction is answered inactive to an explicit sendonly or recvonly; streams with port 0
  are left out, so that those after them shift, which an offerer of rssip meets with
  `todo!()`. Dynamic formats of the local side are `unimplemented!()`. The direction of
  an offer is written at its last medium only.
* Of SDP, lines `b=` and `z=`, a port with a number of ports, and addresses that are not
  IP addresses are refused; the title of a medium is printed as `t=`; `application` is
  printed and not read. The test at `negotiator.rs:489-518` unwraps what is parsed of
  origins with host names (`IN IP4 lab.high-voltage.org`), which `parse_origin` refuses.
* An m= line without formats is refused: the scan of its transport stops only at a blank
  or a tab (`sdp/parser.rs:232`) and takes the line end and the next line with it.
  `create_answer` writes such a line for a stream without common formats
  (`negotiator.rs:320-341`, with a TODO at 335), so that a caller of rssip cannot read the
  whole answer then.

## 5. Bounds

* `ServerTsx`: T1 = 1, T2 = 8, T4 = 10 are the code's ratios (500 ms, 4 s, 5 s); the
  timeout of 64*T1 is 64. Channel capacity 1 in place of 10. Three network messages are an ACK, one that
  fills the channel while the task sleeps for T4 after it, and one whose delivery then waits.
  Two provisional responses: one that spawns the task and one handed to it.
* `ClientTsx`: `Factor` = 16 in place of 64, which gives four doublings before the
  timeout where the code has six; the last interval is beyond T2 = 8, as those of the code
  are. Three
  responses: any order of a provisional, a final and a repeated one.
* `UasCall`: two calls, as two copies of an INVITE start; five messages, enough for
  the INVITE and its copy, an ACK and its copy, a BYE or re-INVITE overtaken by them. A
  request that was refused and will be again does not count when nothing else is on its
  way, so that the traffic that keeps `accept` waiting never has to end.
* `Transports`: three connections (one that breaks, one that takes its entry, one
  opened; a connection to ourselves takes two), two jobs, two responses. Connections
  are numbered as they come and a number is not used again: a port of a closed
  connection is not given out again within a run. Jobs, too, begin in order.
* `Wire`: up to four messages and line ends on a connection (`MaxWritten`), of five texts:
  two messages and a ping, or a ping cut by what follows. A cut can be made about an empty
  line, in a body and at the end; the decoder looks at nothing else of an unfinished
  message but its empty line and, when that is there, its lines, so that other cuts give
  no other behaviour. Bodies are bounded by `MaxLength` = 9. One datagram out of some
  hundred texts and two ports, since nothing is kept from one datagram to the next.
  `Numerals` and `Bytes8` list the numbers in these texts.
* `OfferAnswer`: one call; sixteen sets of parameters (each direction with one and two
  streams, and the cases that are refused) against some thirty offers of the peer
  (each line of a description, each direction, ports 0, other formats and none) and four endings
  of its answers. Streams of a description are compared one by one, so that two show
  every way in which positions shift.
* Time runs in ticks of T1. A tick happens only when no timer has run out
  (`TimerExpired`): the tasks run soon enough for their timers, though in any order.

`CHECK_DEADLOCK FALSE` is set only where the bounded system may stop: for `Transports`
when its connections and jobs are used up, for `Wire` when the peer has written all it
may, for `OfferAnswer` when the call is over. The others have an action
`Finished` for the states in which they are rightly at rest, so that any other state
without a step is reported.

## 6. Fairness

Weak fairness of what the runtime must run: a spawned task that can take a step, a
delivery task whose channel has room, a method of the TU that has begun, the clock.
When the application calls a method, and whether the network delivers, is not fair:
an application may hold an unanswered transaction for ever, and a peer may repeat refused
requests for ever. In `Inbound`, and so in `Wire`, TCP delivers what
was written and the runtime polls the reading task: one of `Arrive`, `TakeFrame` and
`GiveUp` happens as long as one can. `Transports` and `OfferAnswer` have only safety
properties and no fairness.

## 7. What is proved

For every value of the constants, bounds included, from the named assumptions of each
module, which TLC evaluates in every run:

| Module | Assumed | Why |
|---|---|---|
| ServerTsx, ClientTsx | timers and bounds are naturals, T1 and capacities positive, T1 <= T2 (server); the kinds of transactions are among the four there are | constants of `timers.rs`; `mpsc::channel(0)` panics |
| UasCall, Transports, Inbound | bounds are naturals; peers are not port numbers | how connections are named |
| Atoms | line ends are atoms | |
| Inbound | the peer writes pings, pongs and `Framed` texts on a connection: not beginning with a line end, with an empty line, and as long as their Content-Length says when they have one | RFC 3261 18.3 and 7.5. Without a Content-Length a message is `Framed` too, and the decoder gives up |
| Sdp | the address of the host is an IP address; the time `0 0` is made of numbers | `get_local_ip_addr` (`sdp/mod.rs:306`), and the times of `create_offer`, which are u64 |
| OfferAnswer | the address of an application's parameters is an IP address, their transport one of the enum's, their streams and formats are lists; what others write is made of lines | the types of `SdpOfferParams`; nothing is assumed of the values, order or number of the lines |

* `ServerTsxProofs`: types, `ReceiverOwned`, `ProvisionalTaskServes`,
  `ProvisionalsInOrder`, and the action properties `FinalTaskOnlyFinal` and
  `EndsTerminated`. The invariant is the conjunction of the state properties with
  `Link`, which says in which phases of the TU the two tasks can be; without it
  `ReceiverOwned` is not inductive, as the final task could start while the
  provisional one still runs.
* `ClientTsxProofs`: types, `EntryWhileAlive`, `NoResponseLost` (what entered the channel
  has been taken or is still in it), `Backoff` (from `Doubling`, which holds beyond T2 too), `NoTimeoutWhileRinging`,
  `AckOnlyRefusals`, `QuietAfterProvisional`. `Link` ties the TU's phase, the lingering
  task and the history variables together. Then `ReceivedInOrder`, the refinement of
  `Mailbox`, step by step (`BoxStep`): recv and a recv_if that takes are `Take`, also
  when the transaction goes with the response, a recv_if that leaves the response peeked is
  a stutter, an entry that is removed closes the box. It needs `Unsent`: no delivery task waits
  for a transaction that is not registered yet, since a mailbox with a receiver refuses
  nothing.
* `UasCallProofs`: types, then `Stages` (where TU, dialog, negotiator and transaction
  of a call can be at once), which gives `DialogWhileHeld`, `GoneMeansOver`,
  `MediaNeedsAnswer` and `EntryOfLiveTsx`; then `Counts` (acceptances against
  `rcseq`), which gives `RefusedIfOvertaken` and `AcceptedAgainAfterAck`.
* `TransportsProofs`: types together with `InUse`; `Entries` (every entry is under its
  connection's key and its end was not read), which gives `EntryNotEnded` and
  `OwnConnectionRegistered`; `Ways` (the connection and the fallback of a job lead to
  its peer until the connection breaks), which gives `FirstToDest` and
  `StrayOnlyAfterBreak`. `StableStep` is the lemma they share: a connection
  keeps its kind and its peer.
* `InboundProofs`: `KeepalivesConserved`, and `Framing`, the refinement of `MessageStream`,
  step by step. `Streams` is the least set of triples (text, messages in it, line ends
  between them) that is closed under putting a line end or a message in front. The
  invariant (`InboundInv`) says that the text not taken in yet, buffer and pipe together, is
  such a stream: its messages are `sent` without `got`, its line ends `ends - gotEnds`.
  Nothing is said of where the cut is. What it needs of the decoder is
  `WholeMessage`: a frame that is found in any part of a stream that begins with a message
  is that message, since the first empty line of a buffer is that of the message as soon as
  it is there, and the lines above it are then the same. A cut ping is two pongs, which
  is why line ends are counted and not keep-alives.
* `RoutesProofs`: `NoRouteLost` after any sequence of messages written (`Writing`), of any
  requests with any route sets. Removing the strict route and putting the request-URI
  back are one relation between lists, `InsertedAt`; the place of a route is followed
  through it in both directions (`LaterIn`, `BeforeIn`), which gives the order-preserving map of loose
  routes that `LooseKept` asks for. The parser plays no part.
* `SdpProofs`: what the operations on descriptions do with every list. `ParseDescription`:
  what is read of a text is a description, with fields and values that can be written.
  `AnswerStreams` and `AnswerMediaFacts`: a stream of an answer is a pair of
  streams of both sides, with the formats common to them, and in its place as
  long as none before it was passed over. `WrittenIsReadBack`: a description is read back from its own text
  exactly when every medium is `Legible` (no title, no application, not without formats),
  for any number of lines. Forwards (`ReadParts`, `ReadChain`): after each line of `Write` the parser has
  `With(sd, D, ts, attrs, ms)`, the fields D and the lists as far as they were
  written. Backwards: whatever is read of the text has no application, no medium without formats and
  none with a title (`MediaIn`), since a title is printed as `t=`.
* `OfferAnswerProofs`, for any parameters, offers and sides:
  * `ConnectsIff`, from `CallInv`: a message of each kind is written once
    (`MessagesOnce`, `OneByOne`), so that the descriptions the two ends were computed from are
    those of the history; the negotiator of a side that waits is the one its operations
    lead to. A side that has failed is bound by nothing.
  * `NoMediaBetweenRssip`, from `Untaken`, what `OfferAnswerUnwrap` shows of one call for
    every call between two endpoints of rssip: no 2xx of `accept` on its way has a
    Content-Type, no ACK has a Via, and so the caller's negotiator never gets an answer.
  * `AnswerFits` and `DescriptionSurvives`, from `TextsInv`: bodies on their way are made
    of lines, negotiators hold descriptions, and an answer of rssip is
    what `create_answer` makes of both (`SoundNegotiator`). Then the lemmas of
    `SdpProofs` apply to what any run can come to.
  * `AnswerDirectionFits`: the answer to a stream is what both sides want of it, unless the
    offer is sendrecv and the answering side wants less.

A loop over a list is a function on 0 .. its length. The library's induction theorems take
a predicate, which the provers cannot instantiate; `SdpProofs` therefore has induction
over a set of numbers (`NatSetInduction`, from the well-foundedness of the naturals), and
shows with it that such a function exists and what its last value is. `InboundProofs` does
without: membership in the least closed set takes its place.

Only model-checked:

* `WrittenIsRead` and `AnswerAccepted` of `Wire`: the parser of SIP messages is made of
  RECURSIVE operators, which the prover does not take. For the same reason it is TLC that
  shows that the messages `Wire` passes on are requests with a route set (`IsRequest`), and
  by inspection that `Wire` writes with `Forward` and `Emit` alone, as `Writing` has it.
* The liveness properties (`Finishes`, `DeliveriesResolve`, `WaitsEnd`, `LingeringEnds`,
  `AcceptEnds`, `StreamDrains`), which need fairness and ENABLED.

## 8. What is not modelled

* What is inside a word of text: letter case, UTF-8, numbers that overflow, the texts of
  errors. An atom is what the character tables tell apart.
* `get_transport`'s fallback for datagram transports; the upgrade handshake and the
  sending queue of WebSocket connections.
* The DNS resolver: `Transports` assumes that the address of a Via resolves to the
  peer's listener.
* A repetition of the very first response keeps its own fallback, the address of
  the sender; `Transports` lets every later response be a newly created one.
* Media: `SessionMedia::setup` and `receive_event` are `todo!()`; `UasCall` has their
  panic, `OfferAnswer` ends a call at its media. RTP is a stub.
* Provisional responses and CANCEL in `OfferAnswer`: the code takes no description from
  the former (`receive_provisional` only hands them on) and has nothing of the latter.
* Crashes: nothing is stored, so that a restart is a new start.
* Components and reasons are listed one by one in `PROJECT.json`.

## 9. Plan

Done, in this order: `ServerTsx`, `ClientTsx`, `UasCall`, `Transports`, each with its
proofs; `SipText`, `SipMessage`, `MessageStream` and `Wire`; `Sdp`, `OfferAnswer` and its
proofs; the stream without its messages' insides (`Inbound`), with the proof of its
refinement; the proofs about `Sdp`; `Routes` and its proofs; `Mailbox`, with the proof that
`ClientTsx` implements it.

1. The same for `ServerTsx`, whose Receiver changes hands on its way: `Mailbox` with the
   channel of the server transaction, open as long as `rx` has an owner.
2. A composition of `UasCall` with the caller's dialog once the code sets its remote tag
   and has in-dialog requests.
