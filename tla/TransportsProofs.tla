-------------------------- MODULE TransportsProofs --------------------------
(***************************************************************************)
(* What holds of an endpoint's connections and responses for every number  *)
(* of peers, connections and requests.  Entries says how the table and the *)
(* connections hang together, Ways which connections the next message of a *)
(* job can go out on.                                                      *)
(***************************************************************************)
EXTENDS Transports, TLAPS

(* A message is being sent on a connection, a response to a peer.          *)
InUse == \A j \in Jobs : /\ at[j] \in {"try", "send"} => use[j] # 0
                         /\ via[j] # 0 => dest[j] \in Peers

LEMMA TypeInit == Init => TypeOK /\ InUse
BY BoundAssumption DEF Init, TypeOK, InUse, Stages, Keys, Conns, Addresses, Listener

LEMMA TypeStep == TypeOK /\ InUse /\ [Next]_vars => TypeOK' /\ InUse'
<1> SUFFICES ASSUME TypeOK, InUse, [Next]_vars PROVE TypeOK' /\ InUse'
  OBVIOUS
<1> USE BoundAssumption DEF connVars, jobVars, sendVars, Stages
<1>0. /\ Conns \subseteq Keys /\ Keys \subseteq Addresses /\ Peers \subseteq Addresses
      /\ Listener \in Keys /\ 0 \notin Conns
  BY DEF Keys, Addresses, Conns
<1>1. ASSUME NEW c \in Conns, ConnNext(c) PROVE TypeOK' /\ InUse'
  <2>1. CASE Accept(c)
    BY <2>1 DEF Accept, TypeOK, InUse
  <2>2. CASE Register(c)
    BY <2>2 DEF Register, TypeOK, InUse
  <2>3. CASE Break(c)
    BY <2>3 DEF Break, TypeOK, InUse
  <2>4. CASE ReadEof(c)
    BY <2>4 DEF ReadEof, TypeOK, InUse
  <2>5. CASE ReadFails(c)
    BY <2>5 DEF ReadFails, TypeOK, InUse
  <2> QED
    BY <1>1, <2>1, <2>2, <2>3, <2>4, <2>5 DEF ConnNext
<1>2. ASSUME NEW j \in Jobs, JobNext(j) PROVE TypeOK' /\ InUse'
  <2>0. Sent(j) /\ at[j] \in {"try", "send"} => TypeOK' /\ InUse'
    <3> SUFFICES ASSUME Sent(j), at[j] \in {"try", "send"} PROVE TypeOK' /\ InUse'
      OBVIOUS
    <3>1. use[j] \in Conns /\ peer[use[j]] \in Peers \cup {Self}
      BY DEF TypeOK, InUse
    <3> QED
      BY <1>0, <3>1 DEF Sent, Return, TypeOK, InUse
  <2>1. ASSUME NEW c \in Conns, Receive(j, c) PROVE TypeOK' /\ InUse'
    BY <2>1 DEF Receive, TypeOK, InUse
  <2>2. ASSUME NEW p \in Peers, Call(j, p) PROVE TypeOK' /\ InUse'
    BY <1>0, <2>2 DEF Call, TypeOK, InUse
  <2>3. CASE Respond(j)
    <3>1. Fallback(j) \in Addresses
      BY <1>0, <2>3 DEF Respond, Fallback, LocalAddr, TypeOK, InUse
    <3>2. (left[j] - 1) \in 0 .. MaxResps
      BY <2>3 DEF Respond, TypeOK
    <3> QED
      BY <1>0, <2>3, <3>1, <3>2 DEF Respond, TypeOK, InUse
  <2>4. CASE TrySucceeds(j)
    BY <2>0, <2>4 DEF TrySucceeds
  <2>5. CASE TryFails(j)
    BY <2>5 DEF TryFails, TypeOK, InUse
  <2>6. CASE Found(j)
    BY <2>6 DEF Found, TypeOK, InUse
  <2>7. CASE NotFound(j)
    BY <2>7 DEF NotFound, TypeOK, InUse
  <2>8. CASE SendSucceeds(j)
    BY <2>0, <2>8 DEF SendSucceeds
  <2>9. CASE SendFails(j)
    BY <1>0, <2>9 DEF SendFails, Return, TypeOK, InUse
  <2>10. ASSUME NEW c \in Conns, Open(j, c) PROVE TypeOK' /\ InUse'
    <3>1. kind' \in [Conns -> {"none", "accepted", "connected"}]
      BY <2>10 DEF Open, TypeOK
    <3>2. peer' \in [Conns -> Peers \cup {Self}]
      BY <2>10 DEF Open, TypeOK
    <3> QED
      BY <1>0, <2>10, <3>1, <3>2 DEF Open, TypeOK, InUse
  <2> QED
    BY <1>2, <2>1, <2>2, <2>3, <2>4, <2>5, <2>6, <2>7, <2>8, <2>9, <2>10
       DEF JobNext, Sending
<1> QED
  BY <1>1, <1>2 DEF Next, vars, TypeOK, InUse

(* Type correctness: a message is only ever sent on a connection, and a    *)
(* request's responses are as many as may be sent.                         *)
THEOREM TypeCorrect == Spec => []TypeOK
<1>1. Spec => [](TypeOK /\ InUse)
  BY TypeInit, TypeStep, PTL DEF Spec
<1> QED
  BY <1>1, PTL
-----------------------------------------------------------------------------
(* The connections are numbered as they come, one that does not exist is   *)
(* not read, and every entry is under its connection's key and leads to a  *)
(* connection whose end was not read.                                      *)
Entries ==
    /\ \A c, d \in Conns : c < d /\ kind[c] = "none" => kind[d] = "none"
    /\ \A c \in Conns : kind[c] = "none" => reader[c] = "none" /\ c \notin gone
    /\ \A k \in Keys : table[k] # 0 =>
         /\ kind[table[k]] # "none" /\ LocalAddr(table[k]) = k
         /\ reader[table[k]] \in {"reading", "failed"}
    /\ OwnConnectionRegistered

(* Connections keep their kind and peer, and stay broken.                  *)
Stable ==
    /\ \A c \in Conns : kind[c] # "none" => kind'[c] = kind[c] /\ peer'[c] = peer[c]
    /\ gone \subseteq gone'

LEMMA StableStep == TypeOK /\ Entries /\ [Next]_vars => Stable
<1> SUFFICES ASSUME TypeOK, Entries, [Next]_vars PROVE Stable
  OBVIOUS
<1> USE DEF connVars, jobVars, sendVars
<1>1. ASSUME NEW c \in Conns, ConnNext(c) PROVE Stable
  BY <1>1 DEF ConnNext, Accept, Fresh, Register, Break, ReadEof, ReadFails,
              Stable, TypeOK
<1>2. ASSUME NEW j \in Jobs, NEW c \in Conns, Open(j, c) PROVE Stable
  <2>1. c + 1 \in Conns => kind[c + 1] = "none"
    BY <1>2 DEF Open, Fresh, Entries, Conns
  <2> QED
    BY <1>2, <2>1 DEF Open, Fresh, Stable, TypeOK
<1>3. ASSUME NEW j \in Jobs, JobNext(j), \A c \in Conns : ~Open(j, c)
      PROVE UNCHANGED connVars
  BY <1>3 DEF JobNext, Sending, Receive, Call, Respond, TrySucceeds, TryFails, Found,
              NotFound, SendSucceeds, SendFails, Sent
<1> QED
  BY <1>1, <1>2, <1>3 DEF Next, vars, Stable, TypeOK

LEMMA EntriesInit == Init => Entries
BY DEF Init, Entries, OwnConnectionRegistered

LEMMA EntriesStep == TypeOK /\ InUse /\ Entries /\ [Next]_vars => Entries'
<1> SUFFICES ASSUME TypeOK, InUse, Entries, [Next]_vars PROVE Entries'
  OBVIOUS
<1> USE DEF connVars, jobVars, sendVars
<1>0. Listener \notin Conns /\ Conns \subseteq Keys /\ Listener \in Keys
  BY DEF Listener, Conns, Keys
<1>1. ASSUME NEW c \in Conns, ConnNext(c) PROVE Entries'
  <2>1. CASE Accept(c)
    BY <1>0, <2>1 DEF Accept, Fresh, Entries, TypeOK, LocalAddr, OwnConnectionRegistered, Conns
  <2>2. CASE Register(c)
    BY <1>0, <2>2 DEF Register, Entries, TypeOK, LocalAddr, OwnConnectionRegistered
  <2>3. CASE Break(c)
    BY <2>3 DEF Break, Entries, TypeOK, LocalAddr, OwnConnectionRegistered
  <2>4. CASE ReadEof(c)
    BY <1>0, <2>4 DEF ReadEof, Entries, TypeOK, LocalAddr, OwnConnectionRegistered
  <2>5. CASE ReadFails(c)
    BY <2>5 DEF ReadFails, Entries, TypeOK, LocalAddr, OwnConnectionRegistered
  <2> QED
    BY <1>1, <2>1, <2>2, <2>3, <2>4, <2>5 DEF ConnNext
<1>2. ASSUME NEW j \in Jobs, NEW c \in Conns, Open(j, c) PROVE Entries'
  <2>1. c + 1 \in Conns => kind[c + 1] = "none"
    BY <1>2 DEF Open, Fresh, Entries, Conns
  <2>2. CASE kind' = [kind EXCEPT ![c] = "connected"]
    BY <1>0, <1>2, <2>2 DEF Open, Fresh, Entries, TypeOK, LocalAddr,
       OwnConnectionRegistered, Conns
  <2>3. CASE c + 1 \in Conns
             /\ kind' = [kind EXCEPT ![c] = "connected", ![c + 1] = "accepted"]
    BY <1>0, <1>2, <2>1, <2>3 DEF Open, Fresh, Entries, TypeOK, LocalAddr,
       OwnConnectionRegistered, Conns
  <2> QED
    BY <1>2, <2>2, <2>3 DEF Open
<1>3. ASSUME NEW j \in Jobs, JobNext(j), \A c \in Conns : ~Open(j, c)
      PROVE UNCHANGED <<connVars, table>>
  BY <1>3 DEF JobNext, Sending, Receive, Call, Respond, TrySucceeds, TryFails, Found,
              NotFound, SendSucceeds, SendFails, Sent
<1>4. UNCHANGED <<connVars, table>> => Entries'
  BY DEF Entries, LocalAddr, OwnConnectionRegistered
<1> QED
  BY <1>1, <1>2, <1>3, <1>4 DEF Next, vars

(* The table does not lead to a connection whose end was read: a read that *)
(* ends removes the entry if it leads there, and no other connection has   *)
(* put it under another key.                                               *)
THEOREM NotEnded == Spec => []EntryNotEnded
<1>1. Spec => [](TypeOK /\ InUse /\ Entries)
  BY TypeInit, TypeStep, EntriesInit, EntriesStep, PTL DEF Spec
<1>2. Entries => EntryNotEnded
  BY DEF Entries, EntryNotEnded
<1> QED
  BY <1>1, <1>2, PTL

(* A connection that was opened stays reachable under its key.             *)
THEOREM OwnRegistered == Spec => []OwnConnectionRegistered
<1>1. Spec => [](TypeOK /\ InUse /\ Entries)
  BY TypeInit, TypeStep, EntriesInit, EntriesStep, PTL DEF Spec
<1>2. Entries => OwnConnectionRegistered
  BY DEF Entries
<1> QED
  BY <1>1, <1>2, PTL
-----------------------------------------------------------------------------
(* Where a message of a job can go.  The connection it came on and the one *)
(* of its first response lead to its peer; until there was a first message *)
(* the address it falls back to is the peer's own, which is no key of the  *)
(* table; after it that address is used once the connection is broken.     *)
Way(j) ==
    /\ via[j] # 0 => kind[via[j]] # "none" /\ peer[via[j]] = dest[j]
    /\ target[j] # 0 => kind[target[j]] # "none" /\ peer[target[j]] = dest[j]
    /\ use[j] # 0 => kind[use[j]] # "none"
    /\ at[j] = "new" => via[j] = 0 /\ target[j] = 0
    /\ at[j] = "try" => use[j] = IF target[j] = 0 THEN via[j] ELSE target[j]
    /\ at[j] \in {"try", "lookup", "connect", "send"} /\ target[j] = 0 =>
         host[j] = dest[j] /\ dest[j] \in Peers
    /\ at[j] \in {"lookup", "connect", "send"} /\ target[j] # 0 => target[j] \in gone
    /\ at[j] = "send" /\ target[j] = 0 => peer[use[j]] = dest[j]
    /\ target[j] = 0 => first[j] = {} /\ to[j] = {}
    /\ target[j] # 0 => first[j] # {}
    /\ first[j] \subseteq {dest[j]}
    /\ to[j] \subseteq {dest[j]} \/ target[j] \in gone

Ways == \A j \in Jobs : Way(j)

JobSame(j) == UNCHANGED <<via[j], dest[j], at[j], use[j], host[j], target[j],
                          first[j], to[j]>>

LEMMA WayStable == ASSUME TypeOK, InUse, Stable, NEW j \in Jobs, Way(j), JobSame(j)
                   PROVE Way(j)'
<1>1. /\ via[j] # 0 => via[j] \in Conns
      /\ target[j] # 0 => target[j] \in Conns
      /\ use[j] # 0 => use[j] \in Conns
      /\ at[j] = "send" => use[j] # 0
  BY DEF TypeOK, InUse
<1> QED
  BY <1>1 DEF Way, JobSame, Stable

LEMMA WaysInit == Init => Ways
BY DEF Init, Ways, Way

LEMMA WaysStep == TypeOK /\ InUse /\ Entries /\ Ways /\ [Next]_vars => Ways'
<1> SUFFICES ASSUME TypeOK, InUse, Entries, Ways, [Next]_vars, NEW i \in Jobs
             PROVE Way(i)'
  BY DEF Ways
<1> USE DEF connVars, jobVars, sendVars
<1>0. Stable /\ Way(i)
  BY StableStep DEF Ways
<1>1. ASSUME JobSame(i) PROVE Way(i)'
  BY <1>0, <1>1, WayStable
<1>2. ASSUME NEW c \in Conns, ConnNext(c) PROVE JobSame(i)
  BY <1>2 DEF ConnNext, Accept, Register, Break, ReadEof, ReadFails, JobSame
<1>3. ASSUME NEW j \in Jobs, j # i, JobNext(j) PROVE JobSame(i)
  BY <1>3 DEF JobNext, Sending, Receive, Call, Respond, TrySucceeds, TryFails, Found,
              NotFound, SendSucceeds, SendFails, Sent, Return, Open, JobSame, TypeOK
<1>4. ASSUME JobNext(i) PROVE Way(i)'
  <2>0. /\ via[i] # 0 => via[i] \in Conns
        /\ target[i] # 0 => target[i] \in Conns
        /\ use[i] # 0 => use[i] \in Conns
        /\ at[i] \in {"try", "send"} => use[i] # 0
        /\ via[i] # 0 => dest[i] \in Peers
    BY DEF TypeOK, InUse
  <2>1. ASSUME NEW c \in Conns, Receive(i, c) PROVE Way(i)'
    BY <1>0, <2>0, <2>1 DEF Receive, FreshJob, Way, Entries, TypeOK
  <2>2. ASSUME NEW p \in Peers, Call(i, p) PROVE Way(i)'
    BY <1>0, <2>0, <2>2 DEF Call, FreshJob, Way, TypeOK
  <2>3. CASE Respond(i)
    BY <1>0, <2>0, <2>3 DEF Respond, Fallback, Way, TypeOK
  <2>4. ASSUME Sent(i), at[i] \in {"try", "send"} PROVE Way(i)'
    <3>1. CASE target[i] = 0
      BY <1>0, <2>0, <2>4, <3>1 DEF Sent, Return, Way, TypeOK
    <3>2. CASE target[i] # 0 /\ at[i] = "try"
      BY <1>0, <2>0, <2>4, <3>2 DEF Sent, Return, Way, TypeOK
    <3>3. CASE target[i] # 0 /\ at[i] = "send"
      BY <1>0, <2>0, <2>4, <3>3 DEF Sent, Return, Way, TypeOK
    <3> QED
      BY <2>4, <3>1, <3>2, <3>3
  <2>5. CASE TrySucceeds(i)
    BY <2>4, <2>5 DEF TrySucceeds
  <2>6. CASE TryFails(i)
    BY <1>0, <2>0, <2>6 DEF TryFails, Way, TypeOK
  <2>7. CASE Found(i)
    <3>1. dest[i] \in Peers => dest[i] \notin Keys
      BY PeerAssumption DEF Keys, Listener, Conns
    <3>2. table[host[i]] \in Conns /\ kind[table[host[i]]] # "none"
      BY <2>7 DEF Found, Entries, TypeOK
    <3> QED
      BY <1>0, <2>0, <2>7, <3>1, <3>2 DEF Found, Way, TypeOK
  <2>8. CASE NotFound(i)
    BY <1>0, <2>0, <2>8 DEF NotFound, Way, TypeOK
  <2>9. ASSUME NEW c \in Conns, Open(i, c) PROVE Way(i)'
    <3>1. kind'[c] = "connected" /\ (host[i] \in Peers => peer'[c] = host[i])
      <4>1. Listener \notin Peers /\ c # c + 1
        BY PeerAssumption DEF Listener, Conns
      <4>2. c \in DOMAIN kind /\ c \in DOMAIN peer
        BY DEF TypeOK
      <4>3. CASE host[i] \in Peers
        BY <2>9, <4>1, <4>2, <4>3 DEF Open
      <4>4. CASE host[i] \notin Peers
        BY <2>9, <4>1, <4>2, <4>4 DEF Open
      <4> QED
        BY <4>3, <4>4
    <3> QED
      BY <1>0, <2>0, <2>9, <3>1 DEF Open, Way, Stable, TypeOK
  <2>10. CASE SendSucceeds(i)
    BY <2>4, <2>10 DEF SendSucceeds
  <2>11. CASE SendFails(i)
    BY <1>0, <2>0, <2>11 DEF SendFails, Return, Way, TypeOK
  <2> QED
    BY <1>4, <2>1, <2>2, <2>3, <2>5, <2>6, <2>7, <2>8, <2>9, <2>10, <2>11
       DEF JobNext, Sending
<1>5. UNCHANGED vars => JobSame(i)
  BY DEF vars, JobSame
<1> QED
  BY <1>1, <1>2, <1>3, <1>4, <1>5 DEF Next

LEMMA WaysAlways == Spec => [](TypeOK /\ InUse /\ Entries /\ Ways)
BY TypeInit, TypeStep, EntriesInit, EntriesStep, WaysInit, WaysStep, PTL DEF Spec

(* The first response to a request, and a request itself, go to the peer   *)
(* that is meant, however the connections come and go.                     *)
THEOREM FirstArrives == Spec => []FirstToDest
<1>1. Ways => FirstToDest
  BY DEF Ways, Way, FirstToDest
<1> QED
  BY <1>1, WaysAlways, PTL

(* A response goes to another peer only after the connection of the first  *)
(* one is broken.                                                          *)
THEOREM StrayLate == Spec => []StrayOnlyAfterBreak
<1>1. Ways => StrayOnlyAfterBreak
  BY DEF Ways, Way, StrayOnlyAfterBreak
<1> QED
  BY <1>1, WaysAlways, PTL
=============================================================================
