----------------------------- MODULE Transports -----------------------------
(***************************************************************************)
(* The stream connections of one rssip endpoint: TransportLayer and its    *)
(* table (transport/mod.rs), the tasks that read TCP and WebSocket         *)
(* connections (tcp.rs, ws.rs), and the sending of responses and requests  *)
(* over them (core/endpoint/mod.rs, transaction/server.rs).                *)
(*                                                                         *)
(* The table's keys are local addresses.  All connections the listener has *)
(* accepted have its address; a connection the endpoint has opened has one *)
(* of its own.                                                             *)
(***************************************************************************)
EXTENDS Integers

CONSTANTS
    Peers,       \* remote endpoints, each with a listener of its own
    Self,        \* this endpoint, seen as a peer of its own
    MaxConns,    \* bound: connections
    MaxJobs,     \* bound: requests received or sent
    MaxResps     \* bound: responses to a received request

ASSUME PeerAssumption == Self \notin Peers /\ Peers \cap Nat = {} /\ Self \notin Nat
ASSUME BoundAssumption == MaxConns \in Nat /\ MaxJobs \in Nat /\ MaxResps \in Nat

Conns == 1 .. MaxConns
Jobs == 1 .. MaxJobs

(* Addresses: that of the listener, those the system gives to connections  *)
(* that are opened, and those of the peers' listeners.                     *)
Listener  == 0
Keys      == {Listener} \cup Conns
Addresses == Keys \cup Peers

VARIABLES
    kind,      \* who opened a connection
    peer,      \* whom it leads to
    gone,      \* the connections that are broken or closed by the peer
    reader,    \* the task that reads the connection
    table,     \* TransportLayer::transports, 0: no entry
    via,       \* the connection that a job's request came on, 0: sent by us
    dest,      \* the peer that the messages of a job are for
    at,        \* how far the sending of a message has come
    use,       \* the connection it is to be sent on
    host,      \* the address it falls back to
    target,    \* ServerTransaction::target_info
    first,     \* history: the peers the first message of a job was sent to
    to,        \* history: the peers any message of a job was sent to
    left       \* responses a job may still send

connVars == <<kind, peer, gone, reader>>
jobVars  == <<via, dest>>
sendVars == <<at, use, host, target, first, to, left>>
vars == <<connVars, table, jobVars, sendVars>>

Stages == {"new", "idle", "try", "lookup", "connect", "send"}

TypeOK ==
    /\ kind \in [Conns -> {"none", "accepted", "connected"}]
    /\ peer \in [Conns -> Peers \cup {Self}]
    /\ gone \subseteq Conns
    /\ reader \in [Conns -> {"none", "reading", "eof", "failed"}]
    /\ table \in [Keys -> {0} \cup Conns]
    /\ via \in [Jobs -> {0} \cup Conns]
    /\ dest \in [Jobs -> Peers \cup {Self}]
    /\ at \in [Jobs -> Stages]
    /\ use \in [Jobs -> {0} \cup Conns]
    /\ \A j \in Jobs : at[j] \in {"try", "send"} => use[j] # 0
    /\ host \in [Jobs -> Addresses]
    /\ target \in [Jobs -> {0} \cup Conns]
    /\ first \in [Jobs -> SUBSET (Peers \cup {Self})]
    /\ to \in [Jobs -> SUBSET (Peers \cup {Self})]
    /\ left \in [Jobs -> 0 .. MaxResps]

Init ==
    /\ kind = [c \in Conns |-> "none"] /\ peer = [c \in Conns |-> Self]
    /\ gone = {} /\ reader = [c \in Conns |-> "none"]
    /\ table = [k \in Keys |-> 0]
    /\ via = [j \in Jobs |-> 0] /\ dest = [j \in Jobs |-> Self]
    /\ at = [j \in Jobs |-> "new"] /\ use = [j \in Jobs |-> 0]
    /\ host = [j \in Jobs |-> Listener] /\ target = [j \in Jobs |-> 0]
    /\ first = [j \in Jobs |-> {}] /\ to = [j \in Jobs |-> {}]
    /\ left = [j \in Jobs |-> MaxResps]

-----------------------------------------------------------------------------
(* Connections.                                                            *)

LocalAddr_Remote(c) == IF kind[c] = "accepted" THEN Listener ELSE peer[c]

(* SipTransport::local_addr, which is what key() takes.                    *)
LocalAddr(c) == IF kind[c] = "accepted" THEN Listener ELSE c

Fresh(c) == kind[c] = "none" /\ \A d \in Conns : d < c => kind[d] # "none"

(* A peer connects to the listener.                                        *)
Accept(c) ==
    /\ Fresh(c) /\ kind' = [kind EXCEPT ![c] = "accepted"]
    /\ \E p \in Peers : peer' = [peer EXCEPT ![c] = p]
    /\ UNCHANGED <<gone, reader, table, jobVars, sendVars>>

(* The connection enters the table over what is there under its key, and   *)
(* is read from now on.                                                    *)
Register(c) ==
    /\ kind[c] # "none" /\ reader[c] = "none"
    /\ reader' = [reader EXCEPT ![c] = "reading"]
    /\ table' = [table EXCEPT ![LocalAddr(c)] = c]
    /\ UNCHANGED <<kind, peer, gone, jobVars, sendVars>>

Break(c) ==
    /\ kind[c] # "none" /\ c \notin gone
    /\ gone' = gone \cup {c}
    /\ UNCHANGED <<kind, peer, reader, table, jobVars, sendVars>>

ReadEof_KeepsEntry(c) ==
    /\ reader[c] = "reading" /\ c \in gone
    /\ reader' = [reader EXCEPT ![c] = "eof"]
    /\ UNCHANGED <<kind, peer, gone, table, jobVars, sendVars>>

(* The end of the stream, or a Close frame: the entry of the connection's  *)
(* key is removed, whichever connection it leads to.                       *)
ReadEof(c) ==
    /\ reader[c] = "reading" /\ c \in gone
    /\ reader' = [reader EXCEPT ![c] = "eof"]
    /\ table' = [table EXCEPT ![LocalAddr(c)] = 0]
    /\ UNCHANGED <<kind, peer, gone, jobVars, sendVars>>

(* A broken connection, or what does not parse: the task ends, the table   *)
(* stays as it is, and so does the half of the connection that writes.     *)
ReadFails(c) ==
    /\ reader[c] = "reading"
    /\ reader' = [reader EXCEPT ![c] = "failed"]
    /\ UNCHANGED <<kind, peer, gone, table, jobVars, sendVars>>

-----------------------------------------------------------------------------
(* Jobs: a request and the responses to it, or a request of our own.       *)

FreshJob(j) == at[j] = "new" /\ \A i \in Jobs : i < j => at[i] # "new"

(* A request is read; its server transaction has the connection's handle.  *)
(* (To ourselves we send nothing but stray responses.)                     *)
Receive(j, c) ==
    /\ FreshJob(j) /\ reader[c] = "reading" /\ peer[c] \in Peers
    /\ via' = [via EXCEPT ![j] = c] /\ dest' = [dest EXCEPT ![j] = peer[c]]
    /\ at' = [at EXCEPT ![j] = "idle"]
    /\ UNCHANGED <<connVars, table, use, host, target, first, to, left>>

(* create_outgoing_request to a peer: select_transport looks it up.        *)
Call(j, p) ==
    /\ FreshJob(j) /\ at' = [at EXCEPT ![j] = "lookup"]
    /\ dest' = [dest EXCEPT ![j] = p] /\ host' = [host EXCEPT ![j] = p]
    /\ left' = [left EXCEPT ![j] = 0]
    /\ UNCHANGED <<connVars, table, via, use, target, first, to>>

Fallback_Local(j) == LocalAddr(IF target[j] = 0 THEN via[j] ELSE target[j])

(* get_response_destination: the sender's address from the request's Via.  *)
(* Once a response was sent, the local address of its connection.          *)
Fallback(j) == IF target[j] = 0 THEN dest[j] ELSE LocalAddr(target[j])

(* ServerTransaction::create_response and the first half of send_response. *)
Respond(j) ==
    /\ at[j] = "idle" /\ via[j] # 0 /\ left[j] > 0
    /\ left' = [left EXCEPT ![j] = @ - 1]
    /\ at' = [at EXCEPT ![j] = "try"]
    /\ use' = [use EXCEPT ![j] = IF target[j] = 0 THEN via[j] ELSE target[j]]
    /\ host' = [host EXCEPT ![j] = Fallback(j)]
    /\ UNCHANGED <<connVars, table, jobVars, target, first, to>>

(* The end of one sending.                                                 *)
Return(j) ==
    /\ at' = [at EXCEPT ![j] = "idle"]
    /\ use' = [use EXCEPT ![j] = 0] /\ host' = [host EXCEPT ![j] = Listener]

(* send_msg returns Ok on every connection that is not broken, and may do  *)
(* so on one that is; the first response sent fixes the target.            *)
Sent(j) ==
    /\ Return(j)
    /\ target' = [target EXCEPT ![j] = IF @ = 0 THEN use[j] ELSE @]
    /\ first' = [first EXCEPT ![j] = IF @ = {} THEN {peer[use[j]]} ELSE @]
    /\ to' = [to EXCEPT ![j] = @ \cup {peer[use[j]]}]
    /\ UNCHANGED <<connVars, table, jobVars, left>>

TrySucceeds_ByKey(j) ==
    /\ at[j] = "try"
    /\ LET c == table[LocalAddr(use[j])]
           d == IF c = 0 THEN use[j] ELSE c
       IN  /\ Return(j)
           /\ target' = [target EXCEPT ![j] = IF @ = 0 THEN use[j] ELSE @]
           /\ first' = [first EXCEPT ![j] = IF @ = {} THEN {peer[d]} ELSE @]
           /\ to' = [to EXCEPT ![j] = @ \cup {peer[d]}]
           /\ UNCHANGED <<connVars, table, jobVars, left>>

TrySucceeds(j) == at[j] = "try" /\ Sent(j)

(* The connection is broken: on to the address.                            *)
TryFails(j) ==
    /\ at[j] = "try" /\ use[j] \in gone
    /\ at' = [at EXCEPT ![j] = "lookup"]
    /\ UNCHANGED <<connVars, table, jobVars, use, host, target, first, to, left>>

(* select_transport: the address is taken for a key of the table.          *)
Found(j) ==
    /\ at[j] = "lookup" /\ host[j] \in Keys /\ table[host[j]] # 0
    /\ use' = [use EXCEPT ![j] = table[host[j]]]
    /\ at' = [at EXCEPT ![j] = "send"]
    /\ UNCHANGED <<connVars, table, jobVars, host, target, first, to, left>>

NotFound(j) ==
    /\ at[j] = "lookup" /\ (host[j] \in Keys => table[host[j]] = 0)
    /\ at' = [at EXCEPT ![j] = "connect"]
    /\ UNCHANGED <<connVars, table, jobVars, use, host, target, first, to, left>>

Open_KeepsUse(j, c) ==
    /\ at[j] = "connect" /\ Fresh(c) /\ host[j] \in Peers
    /\ kind' = [kind EXCEPT ![c] = "connected"]
    /\ peer' = [peer EXCEPT ![c] = host[j]]
    /\ at' = [at EXCEPT ![j] = "send"]
    /\ UNCHANGED <<gone, reader, table, jobVars, use, host, target, first, to, left>>

(* Nothing listens at the address of a connection of our own; at that of   *)
(* our listener we reach ourselves, and accept the connection as well.     *)
(* TcpTransport::connect registers the connection before it returns it,    *)
(* WebSocketTransport::connect leaves that to the task that reads: here    *)
(* Register comes before the message is sent or after.                     *)
Open(j, c) ==
    /\ at[j] = "connect" /\ Fresh(c)
    /\ \/ /\ host[j] \in Peers
          /\ kind' = [kind EXCEPT ![c] = "connected"]
          /\ peer' = [peer EXCEPT ![c] = host[j]]
       \/ /\ host[j] = Listener /\ c + 1 \in Conns
          /\ kind' = [kind EXCEPT ![c] = "connected", ![c + 1] = "accepted"]
          /\ peer' = [peer EXCEPT ![c] = Self, ![c + 1] = Self]
    /\ use' = [use EXCEPT ![j] = c]
    /\ at' = [at EXCEPT ![j] = "send"]
    /\ UNCHANGED <<gone, reader, table, jobVars, host, target, first, to, left>>

SendSucceeds(j) == at[j] = "send" /\ Sent(j)

(* Refused, or broken before the message was written: an error for the TU, *)
(* or, of a request, a line in the log.                                    *)
SendFails(j) ==
    /\ at[j] = "connect" \/ (at[j] = "send" /\ use[j] \in gone)
    /\ Return(j)
    /\ UNCHANGED <<connVars, table, jobVars, target, first, to, left>>

-----------------------------------------------------------------------------
ConnNext(c) == Accept(c) \/ Register(c) \/ Break(c) \/ ReadEof(c) \/ ReadFails(c)

Sending(j) == \/ TrySucceeds(j) \/ TryFails(j) \/ Found(j) \/ NotFound(j)
              \/ SendSucceeds(j) \/ SendFails(j)
              \/ \E c \in Conns : Open(j, c)

JobNext(j) == \/ \E c \in Conns : Receive(j, c)
              \/ \E p \in Peers : Call(j, p)
              \/ Respond(j) \/ Sending(j)

Next == (\E c \in Conns : ConnNext(c)) \/ (\E j \in Jobs : JobNext(j))

Spec == Init /\ [][Next]_vars

-----------------------------------------------------------------------------
(* Properties.                                                             *)

(* The table never leads to a connection whose end the endpoint has seen,  *)
(* although connections register over and remove each other's entries.     *)
EntryNotEnded ==
    \A k \in Keys : table[k] # 0 => reader[table[k]] \in {"reading", "failed"}

(* A connection that the endpoint has opened is in the table, under its    *)
(* own key, for as long as it is read, whatever the others do.             *)
OwnConnectionRegistered ==
    \A c \in Conns : kind[c] = "connected" /\ reader[c] = "reading" => table[c] = c

(* The first response to a request goes to whoever sent the request, over  *)
(* its connection or a new one, and a request to whom it is for.           *)
FirstToDest == \A j \in Jobs : first[j] \subseteq {dest[j]}

(* As long as the connection of its first message is not broken, all the   *)
(* messages of a job go the same way: a connection that takes over the     *)
(* entry of another does not get its responses.                            *)
StrayOnlyAfterBreak ==
    \A j \in Jobs : to[j] \subseteq {dest[j]} \/ target[j] \in gone

(* "RFC 3261 - 18.2.2 Sending Responses" (core/endpoint/mod.rs:267): all   *)
(* the responses to a request are for the one who sent it.                 *)
ResponsesToSender == \A j \in Jobs : to[j] \subseteq {dest[j]}
=============================================================================
