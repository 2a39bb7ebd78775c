--------------------------- MODULE ServiceRouter ---------------------------
(***************************************************************************)
(* Which inbox a message reaches: the services of IrohEndpoint, the router *)
(* that accepts connections for them, the loops that read the streams of a *)
(* connection at its two ends, and the ways to send: outboxes, loopback    *)
(* and broadcasts (src/iroh/endpoint.rs, src/endpoint.rs, src/outbox.rs,   *)
(* src/iroh/channel.rs).                                                   *)
(*                                                                         *)
(* All endpoints run this code.  A connection is for one protocol, lives   *)
(* while both ends have a handle to it, and carries streams both ways.     *)
(* get_or_connect and open_addr_cached are one step here; ConnectionCache  *)
(* has their interleavings, and Inbound what a stream's task checks before *)
(* it pushes.                                                              *)
(***************************************************************************)
EXTENDS Naturals, FiniteSets

CONSTANTS
  Endpoints,
  Protocols,   \* spellings of protocol ids
  Norm,        \* normalize_protocol
  Conns,
  NoConn,
  Boxes,       \* the inboxes that service() creates
  NoBox,
  Outboxes,    \* handles that callers keep
  MaxStreams   \* bound: streams that wait to be read

ASSUME NormIsAFixpoint ==
  Norm \in [Protocols -> Protocols] /\ \A p \in Protocols : Norm[Norm[p]] = Norm[p]

Services == {Norm[p] : p \in Protocols}
Places == Endpoints \X Services

ASSUME NoneIsNone == NoConn \notin Conns /\ NoBox \notin Boxes \cup Places

Ends == {"dialer", "acceptor"}
Links ==
  {l \in [dialer : Endpoints, acceptor : Endpoints, service : Services] : l.dialer # l.acceptor}

ASSUME SomebodyToCall == Links # {}

VARIABLES
  inboxes,   \* IrohEndpoint::inboxes
  router,    \* the inbox that the running router has for each service
  up,        \* close() has not been called
  made,      \* history: the place that an inbox was made for
  life,      \* "open", or "closed" (close_reason() is set)
  link,      \* who dialed whom for which service
  loop,      \* the inbox that the accept_bi() loop of an end feeds
  offered,   \* the accept() task of the acceptor has yet to start
  cache,     \* connection_cache
  wire,      \* the outboxes
  streams,   \* streams that are written and not yet read
  pushed,    \* what the last step pushed: for which place, into which inbox
  settled    \* history: neither end's services changed since the dialing

serviceVars == <<inboxes, router, up, made>>
connVars == <<life, link, loop, offered, cache>>
vars == <<serviceVars, connVars, wire, streams, pushed, settled>>

NoWire == [kind |-> "none"]
Wires ==
  {NoWire} \cup [kind : {"loopback"}, inbox : Boxes, at : Places, of : Endpoints]
           \cup [kind : {"channel"}, conn : Conns, at : Places, of : Endpoints]

\* The type of every variable; no endpoint has a connection to itself.
TypeOK ==
  /\ inboxes \in [Endpoints -> [Services -> Boxes \cup {NoBox}]]
  /\ router \in [Endpoints -> [Services -> Boxes \cup {NoBox}]]
  /\ up \in [Endpoints -> BOOLEAN]
  /\ made \in [Boxes -> Places \cup {NoBox}]
  /\ life \in [Conns -> {"open", "closed"}]
  /\ link \in [Conns -> Links]
  /\ loop \in [Conns -> [Ends -> Boxes \cup {NoBox}]]
  /\ offered \subseteq Conns
  /\ cache \in [Endpoints -> [Places -> Conns \cup {NoConn}]]
  /\ wire \in [Outboxes -> Wires]
  /\ streams \subseteq [conn : Conns, to : Ends, at : Places]
  /\ pushed \subseteq [at : Places, into : Boxes]
  /\ settled \subseteq Conns

NoServices == [s \in Services |-> NoBox]
NoLoops == [end \in Ends |-> NoBox]

Init ==
  /\ inboxes = [e \in Endpoints |-> NoServices]
  /\ router = [e \in Endpoints |-> NoServices]
  /\ up = [e \in Endpoints |-> TRUE]
  /\ made = [b \in Boxes |-> NoBox]
  /\ life = [c \in Conns |-> "closed"]
  /\ link \in [Conns -> {CHOOSE l \in Links : TRUE}]
  /\ loop = [c \in Conns |-> NoLoops]
  /\ offered = {}
  /\ cache = [e \in Endpoints |-> [k \in Places |-> NoConn]]
  /\ wire = [o \in Outboxes |-> NoWire]
  /\ streams = {}
  /\ pushed = {}
  /\ settled = {}

-----------------------------------------------------------------------------
(* Handles of connections.                                                 *)

Open(c) == life[c] = "open"
Peer(c, end) == IF end = "dialer" THEN link[c].dialer ELSE link[c].acceptor
EndsOf(c) == {link[c].dialer, link[c].acceptor}
OtherEnd(end) == IF end = "dialer" THEN "acceptor" ELSE "dialer"
PeerKey(c, end) == <<Peer(c, OtherEnd(end)), link[c].service>>

\* Something at this end has a clone of the connection.
Holds(c, end) ==
  \/ cache[Peer(c, end)][PeerKey(c, end)] = c
  \/ loop[c][end] # NoBox
  \/ end = "acceptor" /\ c \in offered
  \/ \E o \in Outboxes :
       wire[o].kind = "channel" /\ wire[o].conn = c /\ wire[o].of = Peer(c, end)

Held(c) == \A end \in Ends : Holds(c, end)

\* When the last clone at an end is dropped, iroh closes the connection, and
\* what was not read from it is lost.  Stated of the next state; alive are
\* the connections that the step itself leaves open.
CloseUnheld(alive) ==
  /\ life' = [c \in Conns |-> IF c \in alive /\ Held(c)' THEN "open" ELSE "closed"]
  /\ streams' = {x \in streams : life'[x.conn] = "open"}

OpenConns == {c \in Conns : Open(c)}

\* Mutant: no test for the own endpoint.
NeverSelf(e, t) == FALSE

\* A target with our own id is reached without the network.
IsSelf(e, t) == t = e

-----------------------------------------------------------------------------
(* Services.                                                               *)

\* Mutant: the accept() tasks of the old router go on.
KeepsTasks(e, c) == loop[c]["acceptor"]

\* A router that is dropped takes its accept() tasks with it.
TasksOf(e, c) == IF link[c].acceptor = e THEN NoBox ELSE loop[c]["acceptor"]

\* start_router, or reload_router_if_running.
Restart(e) ==
  /\ router' = [router EXCEPT ![e] = inboxes'[e]]
  /\ loop' = [c \in Conns |-> [loop[c] EXCEPT !["acceptor"] = TasksOf(e, c)]]
  /\ offered' = {c \in offered : link[c].acceptor # e}
  /\ settled' = {c \in settled : e \notin EndsOf(c)}
  /\ pushed' = {}
  /\ UNCHANGED <<up, link, cache, wire>>
  /\ CloseUnheld(OpenConns)

\* service(): a second call for a service returns the inbox there is.
Register(e, p) ==
  /\ up[e] /\ inboxes[e][Norm[p]] = NoBox
  /\ \E b \in Boxes :
       /\ made[b] = NoBox
       /\ made' = [made EXCEPT ![b] = <<e, Norm[p]>>]
       /\ inboxes' = [inboxes EXCEPT ![e][Norm[p]] = b]
  /\ Restart(e)

\* remove_service().
Remove(e, p) ==
  /\ up[e] /\ inboxes[e][Norm[p]] # NoBox
  /\ inboxes' = [inboxes EXCEPT ![e][Norm[p]] = NoBox]
  /\ UNCHANGED made
  /\ Restart(e)

\* close(): every connection of the endpoint ends, and the router with it.
Shut(e) ==
  /\ up[e]
  /\ up' = [up EXCEPT ![e] = FALSE]
  /\ router' = [router EXCEPT ![e] = NoServices]
  /\ cache' = [cache EXCEPT ![e] = [k \in Places |-> NoConn]]
  /\ loop' = [c \in Conns |-> IF e \in EndsOf(c)
                              THEN NoLoops ELSE loop[c]]
  /\ offered' = {c \in offered : e \notin EndsOf(c)}
  /\ pushed' = {}
  /\ UNCHANGED <<inboxes, made, link, wire, settled>>
  /\ CloseUnheld({c \in OpenConns : e \notin EndsOf(c)})

-----------------------------------------------------------------------------
(* Connections.                                                            *)

\* Mutant: connections are cached per peer, whatever they are for.
KeyOfPeer(t, p) == CHOOSE k \in Places : k[1] = t

\* The cache key has the protocol as the caller spells it.
CacheKey(t, p) == <<t, p>>

\* A connection that is cached under no live key, loop or outbox is free.
Unused(c) ==
  /\ ~Open(c) /\ c \notin offered /\ loop[c] = NoLoops
  /\ \A e \in Endpoints, k \in Places : cache[e][k] # c
  /\ \A o \in Outboxes : wire[o].kind = "channel" => wire[o].conn # c

\* The peer's router accepts the protocol bytes it has a handler for, and
\* those are normalized.
Listens(t, p) == up[t] /\ p \in Services /\ router[t][p] # NoBox

\* Mutant: connections that we dial are not read.
NoDialerLoop(e, p) == NoBox

DialerLoop(e, p) == inboxes[e][p]

\* e connects to t and caches the connection; if it has a service for the
\* protocol at that time, a loop reads what the peer sends on it.
Dial(e, t, p, c) ==
  /\ Unused(c) /\ Listens(t, p)
  /\ link' = [link EXCEPT ![c] = [dialer |-> e, acceptor |-> t, service |-> p]]
  /\ loop' = [loop EXCEPT ![c]["dialer"] = DialerLoop(e, p)]
  /\ offered' = offered \cup {c}
  /\ cache' = [cache EXCEPT ![e][CacheKey(t, p)] = c]
  /\ settled' = settled \cup {c}

\* Mutant: an entry is used whatever became of its connection.
Cached(e, k) == cache[e][k] # NoConn

Reusable(e, k) == cache[e][k] \in OpenConns

\* A live connection from the cache, or a fresh one in place of a dead one.
\* connect() fails for a protocol in another spelling than the peer's.
Reach(e, t, p, c) ==
  /\ p \in Services
  /\ IF Reusable(e, CacheKey(t, p))
     THEN c = cache[e][CacheKey(t, p)] /\ UNCHANGED <<link, loop, offered, cache, settled>>
     ELSE Dial(e, t, p, c)

\* The connections that are open with c, which Reach may have just dialed.
OpenWith(c) == OpenConns \cup (IF Unused(c) THEN {c} ELSE {})

\* The accept() task of t starts: it caches the connection for replies.
Handle(c) ==
  /\ c \in offered
  /\ offered' = offered \ {c}
  /\ loop' = [loop EXCEPT ![c]["acceptor"] = router[link[c].acceptor][link[c].service]]
  /\ cache' = [cache EXCEPT ![link[c].acceptor][PeerKey(c, "acceptor")] = c]
  /\ pushed' = {}
  /\ UNCHANGED <<serviceVars, link, wire, settled>>
  /\ CloseUnheld(OpenConns)

\* The connection breaks.  Both loops end, and accept() removes its entry.
Break(c) ==
  /\ Open(c)
  /\ offered' = offered \ {c}
  /\ loop' = [loop EXCEPT ![c] = NoLoops]
  /\ cache' = IF loop[c]["acceptor"] = NoBox THEN cache
              ELSE [cache EXCEPT ![link[c].acceptor][PeerKey(c, "acceptor")] = NoConn]
  /\ pushed' = {}
  /\ UNCHANGED <<serviceVars, link, wire, settled>>
  /\ CloseUnheld(OpenConns \ {c})

-----------------------------------------------------------------------------
(* Sending.                                                                *)

EndOf(e, c) == IF link'[c].dialer = e THEN "dialer" ELSE "acceptor"

Written(e, c, at) == [conn |-> c, to |-> OtherEnd(EndOf(e, c)), at |-> at]

\* connect_outbox(); to the own endpoint it takes the inbox of the moment.
OpenOutbox(o, e, t, p) ==
  /\ wire[o] = NoWire
  /\ IF IsSelf(e, t)
     THEN /\ inboxes[e][Norm[p]] # NoBox
          /\ wire' = [wire EXCEPT ![o] = [kind |-> "loopback", of |-> e, at |-> <<t, Norm[p]>>,
                                          inbox |-> inboxes[e][Norm[p]]]]
          /\ UNCHANGED <<connVars, streams, settled>>
     ELSE /\ up[e]
          /\ \E c \in Conns :
               /\ Reach(e, t, p, c)
               /\ wire' = [wire EXCEPT ![o] = [kind |-> "channel", of |-> e, at |-> <<t, p>>,
                                               conn |-> c]]
               /\ CloseUnheld(OpenWith(c))
  /\ pushed' = {}
  /\ UNCHANGED serviceVars

Push(b, at) == pushed' = {[at |-> at, into |-> b]}

\* Outbox::send(); on a channel it is a stream of its own for every message,
\* and an error once the connection is dead.
Send(o) ==
  \/ /\ wire[o].kind = "loopback"
     /\ Push(wire[o].inbox, wire[o].at)
     /\ UNCHANGED <<serviceVars, connVars, wire, streams, settled>>
  \/ /\ wire[o].kind = "channel" /\ Open(wire[o].conn)
     /\ Cardinality(streams) < MaxStreams
     /\ pushed' = {}
     /\ UNCHANGED <<serviceVars, connVars, wire, settled>>
     /\ streams' = streams \cup {Written(wire[o].of, wire[o].conn, wire[o].at)}

\* close(), or the outbox is dropped: the channel's clone goes.
DropOutbox(o) ==
  /\ wire[o] # NoWire
  /\ wire' = [wire EXCEPT ![o] = NoWire]
  /\ pushed' = {}
  /\ UNCHANGED <<serviceVars, link, loop, offered, cache, settled>>
  /\ CloseUnheld(OpenConns)

\* send_broadcast_to().
Broadcast(e, t, p) ==
  /\ IF IsSelf(e, t)
     THEN /\ inboxes[e][Norm[p]] # NoBox
          /\ Push(inboxes[e][Norm[p]], <<t, Norm[p]>>)
          /\ UNCHANGED <<connVars, streams, settled>>
     ELSE /\ up[e] /\ Cardinality(streams) < MaxStreams
          /\ \E c \in Conns :
               /\ Reach(e, t, p, c)
               /\ life' = [d \in Conns |-> IF d \in OpenWith(c) THEN "open" ELSE "closed"]
               /\ streams' = streams \cup {Written(e, c, <<t, p>>)}
          /\ pushed' = {}
  /\ UNCHANGED <<serviceVars, wire>>

\* A loop takes a stream; its task reads it and pushes the message.
Receive(x) ==
  /\ x \in streams /\ loop[x.conn][x.to] # NoBox
  /\ Push(loop[x.conn][x.to], x.at)
  /\ streams' = streams \ {x}
  /\ UNCHANGED <<serviceVars, connVars, wire, settled>>

-----------------------------------------------------------------------------

Next ==
  \/ \E e \in Endpoints, p \in Protocols : Register(e, p) \/ Remove(e, p)
  \/ \E e \in Endpoints : Shut(e)
  \/ \E c \in Conns : Handle(c) \/ Break(c)
  \/ \E o \in Outboxes : Send(o) \/ DropOutbox(o)
  \/ \E e, t \in Endpoints, p \in Protocols :
       Broadcast(e, t, p) \/ \E o \in Outboxes : OpenOutbox(o, e, t, p)
  \/ \E x \in streams : Receive(x)

Spec == Init /\ [][Next]_vars

-----------------------------------------------------------------------------
(* Properties.                                                             *)

\* A message reaches an inbox of the endpoint and the service it was sent
\* to: whichever end dialed, and however often services come and go, no
\* connection, loop or outbox is used for another service's messages.
RightInbox == \A m \in pushed : made[m.into] = m.at

\* What a router accepted goes to the inbox that is registered now: an inbox
\* that was removed gets nothing from the connections others made to us.
AcceptedFeedsCurrent ==
  \A c \in Conns : loop[c]["acceptor"] # NoBox =>
    loop[c]["acceptor"] = inboxes[link[c].acceptor][link[c].service]

\* The inbox that is registered for the place a stream is sent to has it
\* coming: the loop at its end feeds that inbox, or is about to start.
HasReader(x) ==
  \/ loop[x.conn][x.to] = inboxes[x.at[1]][x.at[2]]
  \/ x.to = "acceptor" /\ x.conn \in offered

Registered(x) == inboxes[x.at[1]][x.at[2]] # NoBox

\* While the services of its two ends stay as they were when it was dialed,
\* a connection has a reader at either end that has the service: streams
\* that a peer opens on a connection that we dialed are not black-holed.
SettledIsServed ==
  \A x \in streams : x.conn \in settled /\ Registered(x) => HasReader(x)

\* An outbox that is opened anew has a connection that is open, even when
\* the one of the outbox before it is dead and still in the cache.
ReopenHeals ==
  [][\A o \in Outboxes :
       wire[o] = NoWire /\ wire'[o].kind = "channel" => life'[wire'[o].conn] = "open"]_vars

=============================================================================
