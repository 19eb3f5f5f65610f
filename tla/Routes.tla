------------------------------- MODULE Routes -------------------------------
(***************************************************************************)
(* How rssip sends a request along its route set (process_route_set of     *)
(* core/endpoint/mod.rs), where it resolves a URI to, and what has been    *)
(* sent last.                                                              *)
(*                                                                         *)
(* A URI is a record of what is present of it: "lr" is a field of a loose  *)
(* route only.  Nothing here depends on how a message is read or written.  *)
(***************************************************************************)
EXTENDS Integers, SequencesExt

VARIABLE out        \* the last message written, and what it was made of

Nothing == [kind |-> "none"]
Field(n, v) == [name |-> n, v |-> v]

-----------------------------------------------------------------------------
(* resolve_uri and DefaultResolver.                                        *)

DefaultPort(transport) ==
    CASE transport \in {<<"ws">>, <<"wss">>} -> <<"80">>
      [] transport = <<"tls">> -> <<"5061">>
      [] OTHER -> <<"5060">>
Carrier(u) == IF "transport" \in DOMAIN u THEN u.transport
              ELSE IF u.scheme = <<"sip">> THEN <<"udp">> ELSE <<"tcp">>
Resolve(u) ==
    [host |-> IF "maddr" \in DOMAIN u THEN u.maddr ELSE u.host,
     port |-> IF "port" \in DOMAIN u THEN u.port ELSE DefaultPort(Carrier(u))]

-----------------------------------------------------------------------------
(* process_route_set: the first strict route is taken out wherever it is,  *)
(* and the request goes to it; the request-URI itself stays as it was, and *)
(* becomes a route in front of the last one.                               *)

IsRoute(h) == h.name = "Route"
Address(h) == h.v.uri.addr
Strict(h) == IsRoute(h) /\ "lr" \notin DOMAIN Address(h)
\* Mutant: the request-URI is kept only when no route is left.
PutBackAlone(hs, route) ==
    IF \E k \in DOMAIN hs : IsRoute(hs[k]) THEN hs ELSE Append(hs, route)
PutBack(hs, route) ==
    LET last == SelectLastInSeq(hs, IsRoute)
    IN  IF last = 0 THEN Append(hs, route) ELSE InsertAt(hs, last, route)
Routed(m) ==
    LET i == SelectInSeq(m.headers, Strict)
        route == Field("Route", [uri |-> [addr |-> m.uri], params |-> <<>>])
    IN  IF i = 0 THEN [m |-> m, target |-> m.uri]
        ELSE [m |-> [m EXCEPT !.headers = PutBack(RemoveAt(@, i), route)],
              target |-> Address(m.headers[i])]

Emit(kind, of, m, text, to) ==
    out' = [kind |-> kind, of |-> of, m |-> m, text |-> text, to |-> to]
\* The request m, written as text, goes to the first hop of its route set.
Forward(m, text) == Emit("request", m, Routed(m).m, text, Resolve(Routed(m).target))

-----------------------------------------------------------------------------
(* What a route set is for: every hop is still named.                      *)

\* What a request is, as far as routing goes.
IsRequest(m) ==
    /\ {"uri", "headers"} \subseteq DOMAIN m /\ m = [f \in DOMAIN m |-> m[f]]
    /\ m.headers \in Seq(ToSet(m.headers))

RoutesOf(hs) == {k \in DOMAIN hs : IsRoute(hs[k])}
LooseOf(hs) == {k \in RoutesOf(hs) : ~Strict(hs[k])}
Named(hs) == {Address(hs[k]) : k \in RoutesOf(hs)}

\* The loose routes of before are the loose routes of after, in their order,
\* when at most one that leads to uri is left out of after.
LooseKept(before, after, uri) ==
    \E f \in [LooseOf(before) -> LooseOf(after)] :
        /\ \A j, k \in LooseOf(before) : j < k => f[j] < f[k]
        /\ \A k \in LooseOf(before) : after[f[k]] = before[k]
        /\ \A j, k \in LooseOf(after) \ {f[l] : l \in LooseOf(before)} :
              j = k /\ Address(after[k]) = uri

RouteKept(of, m, to) ==
    /\ m.uri = of.uri
    /\ \E hop \in Named(of.headers) \cup {of.uri} :
         /\ Resolve(hop) = to
         /\ Named(of.headers) \cup {of.uri} = Named(m.headers) \cup {of.uri, hop}
    /\ LooseKept(of.headers, m.headers, of.uri)
    /\ LooseOf(of.headers) # RoutesOf(of.headers) => of.uri \in Named(m.headers)

\* However a route set mixes strict and loose routes, the request that goes to
\* the first hop still names every hop but that one: the request-URI is
\* unchanged, the loose routes are there in their order, the strict one that was
\* taken out is the hop the request is sent to, and the request-URI takes its
\* place in the route set.
NoRouteLost ==
    (out # Nothing /\ out.kind = "request") =>
        IsRequest(out.of) /\ RouteKept(out.of, out.m, out.to)

=============================================================================
