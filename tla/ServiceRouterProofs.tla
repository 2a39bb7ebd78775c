------------------------ MODULE ServiceRouterProofs -------------------------
(***************************************************************************)
(* Theorems about ServiceRouter for any endpoints, protocols, connections, *)
(* inboxes and outboxes.                                                   *)
(***************************************************************************)
EXTENDS ServiceRouter, TLAPS

-----------------------------------------------------------------------------
(* Types.                                                                  *)

LEMMA NormType ==
  ASSUME NEW p \in Protocols
  PROVE  Norm[p] \in Services
BY NormIsAFixpoint DEF Services

LEMMA WireTypes ==
  ASSUME NEW w \in Wires
  PROVE  /\ w.kind \in {"none", "loopback", "channel"}
         /\ w.kind = "loopback" => w.inbox \in Boxes /\ w.at \in Places /\ w.of \in Endpoints
         /\ w.kind = "channel" => w.conn \in Conns /\ w.at \in Places /\ w.of \in Endpoints
BY DEF Wires, NoWire

LEMMA LinkTypes ==
  ASSUME NEW l \in Links
  PROVE  l.dialer \in Endpoints /\ l.acceptor \in Endpoints /\ l.service \in Services
         /\ l.dialer # l.acceptor
BY DEF Links

LEMMA InitTypeOK == Init => TypeOK
<1> SUFFICES ASSUME Init PROVE TypeOK
  OBVIOUS
<1>1. link \in [Conns -> Links]
  <2>1. (CHOOSE l \in Links : TRUE) \in Links
    BY SomebodyToCall
  <2> QED  BY <2>1 DEF Init
<1>2. wire \in [Outboxes -> Wires]
  BY DEF Init, Wires
<1>3. loop \in [Conns -> [Ends -> Boxes \cup {NoBox}]]
  BY DEF Init, NoLoops
<1> QED  BY <1>1, <1>2, <1>3 DEF Init, TypeOK, NoServices

\* What a step closes, and the streams it drops.
LEMMA CloseUnheldType ==
  ASSUME TypeOK, NEW alive, CloseUnheld(alive)
  PROVE  /\ life' \in [Conns -> {"open", "closed"}]
         /\ streams' \subseteq streams
         /\ \A x \in streams' : Open(x.conn)'
BY DEF CloseUnheld, Open

LEMMA RestartType ==
  ASSUME TypeOK, NEW e \in Endpoints, Restart(e),
         inboxes' \in [Endpoints -> [Services -> Boxes \cup {NoBox}]],
         made' \in [Boxes -> Places \cup {NoBox}]
  PROVE  TypeOK'
<1>1. router' \in [Endpoints -> [Services -> Boxes \cup {NoBox}]]
  BY DEF Restart, TypeOK
<1>2. loop' \in [Conns -> [Ends -> Boxes \cup {NoBox}]]
  BY DEF Restart, TypeOK, TasksOf, Ends
<1>3. /\ offered' \subseteq Conns /\ settled' \subseteq Conns /\ pushed' = {}
      /\ UNCHANGED <<up, link, cache, wire>>
  BY DEF Restart, TypeOK
<1>4. life' \in [Conns -> {"open", "closed"}] /\ streams' \subseteq streams
  BY CloseUnheldType DEF Restart
<1> QED  BY <1>1, <1>2, <1>3, <1>4 DEF TypeOK

LEMMA RegisterType ==
  ASSUME TypeOK, NEW e \in Endpoints, NEW p \in Protocols, Register(e, p) \/ Remove(e, p)
  PROVE  TypeOK'
<1>1. Norm[p] \in Services
  BY NormType
<1>2. made' \in [Boxes -> Places \cup {NoBox}]
  BY <1>1 DEF Register, Remove, TypeOK, Places
<1>3. PICK b \in Boxes \cup {NoBox} : inboxes' = [inboxes EXCEPT ![e][Norm[p]] = b]
  BY DEF Register, Remove
<1>4. inboxes' \in [Endpoints -> [Services -> Boxes \cup {NoBox}]]
  BY <1>1, <1>3 DEF TypeOK
<1> QED  BY <1>2, <1>4, RestartType DEF Register, Remove

LEMMA ShutType ==
  ASSUME TypeOK, NEW e \in Endpoints, Shut(e)
  PROVE  TypeOK'
<1>1. life' \in [Conns -> {"open", "closed"}] /\ streams' \subseteq streams
  BY CloseUnheldType DEF Shut
<1>2. /\ router' \in [Endpoints -> [Services -> Boxes \cup {NoBox}]]
      /\ cache' \in [Endpoints -> [Places -> Conns \cup {NoConn}]]
      /\ loop' \in [Conns -> [Ends -> Boxes \cup {NoBox}]]
      /\ up' \in [Endpoints -> BOOLEAN] /\ offered' \subseteq Conns /\ pushed' = {}
  BY DEF Shut, TypeOK, NoServices, NoLoops
<1> QED  BY <1>1, <1>2 DEF Shut, TypeOK

\* What Reach leaves of the variables that it changes.
ReachType ==
  /\ link' \in [Conns -> Links]
  /\ loop' \in [Conns -> [Ends -> Boxes \cup {NoBox}]]
  /\ offered' \subseteq Conns
  /\ cache' \in [Endpoints -> [Places -> Conns \cup {NoConn}]]
  /\ settled' \subseteq Conns

LEMMA ReachIsTyped ==
  ASSUME TypeOK, NEW e \in Endpoints, NEW t \in Endpoints, e # t, NEW p, NEW c \in Conns,
         Reach(e, t, p, c)
  PROVE  ReachType /\ p \in Services
<1>1. p \in Services
  BY DEF Reach
<1>2. CASE UNCHANGED <<link, loop, offered, cache, settled>>
  BY <1>1, <1>2 DEF TypeOK, ReachType
<1>3. CASE Dial(e, t, p, c)
  <2>1. CacheKey(t, p) \in Places
    BY <1>1 DEF CacheKey, Places
  <2>2. [dialer |-> e, acceptor |-> t, service |-> p] \in Links
    BY <1>1 DEF Links
  <2>3. DialerLoop(e, p) \in Boxes \cup {NoBox}
    BY <1>1 DEF DialerLoop, TypeOK
  <2>4. link' \in [Conns -> Links]
    BY <1>3, <2>2 DEF Dial, TypeOK
  <2>5. loop' \in [Conns -> [Ends -> Boxes \cup {NoBox}]]
    BY <1>3, <2>3 DEF Dial, TypeOK
  <2>6. cache' \in [Endpoints -> [Places -> Conns \cup {NoConn}]]
    BY <1>3, <2>1 DEF Dial, TypeOK
  <2> QED  BY <1>1, <1>3, <2>4, <2>5, <2>6 DEF Dial, TypeOK, ReachType
<1> QED  BY <1>1, <1>2, <1>3 DEF Reach

LEMMA HandleType ==
  ASSUME TypeOK, NEW c \in Conns, Handle(c)
  PROVE  TypeOK'
<1>1. life' \in [Conns -> {"open", "closed"}] /\ streams' \subseteq streams
  BY CloseUnheldType DEF Handle
<1>2. /\ link[c].dialer \in Endpoints /\ link[c].acceptor \in Endpoints
      /\ link[c].service \in Services
  BY LinkTypes DEF TypeOK
<1>3. PeerKey(c, "acceptor") \in Places
  BY <1>2 DEF PeerKey, Peer, OtherEnd, Places
<1>4. router[link[c].acceptor][link[c].service] \in Boxes \cup {NoBox}
  BY <1>2 DEF TypeOK
<1>5. loop' \in [Conns -> [Ends -> Boxes \cup {NoBox}]]
  BY <1>4 DEF Handle, TypeOK
<1>6. cache' \in [Endpoints -> [Places -> Conns \cup {NoConn}]]
  BY <1>2, <1>3 DEF Handle, TypeOK
<1> QED  BY <1>1, <1>5, <1>6 DEF Handle, TypeOK, serviceVars

LEMMA BreakType ==
  ASSUME TypeOK, NEW c \in Conns, Break(c)
  PROVE  TypeOK'
<1>1. life' \in [Conns -> {"open", "closed"}] /\ streams' \subseteq streams
  BY CloseUnheldType DEF Break
<1>2. /\ link[c].dialer \in Endpoints /\ link[c].acceptor \in Endpoints
      /\ link[c].service \in Services
  BY LinkTypes DEF TypeOK
<1>3. PeerKey(c, "acceptor") \in Places
  BY <1>2 DEF PeerKey, Peer, OtherEnd, Places
<1>4. NoLoops \in [Ends -> Boxes \cup {NoBox}]
  BY DEF NoLoops
<1>5. loop' \in [Conns -> [Ends -> Boxes \cup {NoBox}]]
  BY <1>4 DEF Break, TypeOK
<1>6. cache' \in [Endpoints -> [Places -> Conns \cup {NoConn}]]
  BY <1>2, <1>3 DEF Break, TypeOK
<1> QED  BY <1>1, <1>5, <1>6 DEF Break, TypeOK, serviceVars

LEMMA OpenOutboxType ==
  ASSUME TypeOK, NEW o \in Outboxes, NEW e \in Endpoints, NEW t \in Endpoints,
         NEW p \in Protocols, OpenOutbox(o, e, t, p)
  PROVE  TypeOK'
<1>1. Norm[p] \in Services
  BY NormType
<1>2. CASE e = t
  <2>1. inboxes[e][Norm[p]] \in Boxes
    BY <1>1, <1>2 DEF OpenOutbox, IsSelf, TypeOK
  <2>2. [kind |-> "loopback", of |-> e, at |-> <<t, Norm[p]>>, inbox |-> inboxes[e][Norm[p]]] \in Wires
    BY <1>1, <2>1 DEF Wires, Places
  <2>3. wire' \in [Outboxes -> Wires]
    BY <1>2, <2>2 DEF OpenOutbox, IsSelf, TypeOK
  <2> QED  BY <1>2, <2>3 DEF OpenOutbox, IsSelf, TypeOK, serviceVars, connVars
<1>3. CASE e # t
  <2>1. PICK c \in Conns :
          /\ Reach(e, t, p, c)
          /\ wire' = [wire EXCEPT ![o] = [kind |-> "channel", of |-> e, at |-> <<t, p>>, conn |-> c]]
          /\ CloseUnheld(OpenWith(c))
    BY <1>3 DEF OpenOutbox, IsSelf
  <2>2. ReachType /\ p \in Services
    BY <1>3, <2>1, ReachIsTyped
  <2>3. [kind |-> "channel", of |-> e, at |-> <<t, p>>, conn |-> c] \in Wires
    BY <2>2 DEF Wires, Places
  <2>4. wire' \in [Outboxes -> Wires]
    BY <2>1, <2>3 DEF TypeOK
  <2>5. life' \in [Conns -> {"open", "closed"}] /\ streams' \subseteq streams
    BY <2>1, CloseUnheldType
  <2> QED  BY <2>2, <2>4, <2>5 DEF OpenOutbox, TypeOK, ReachType, serviceVars
<1> QED  BY <1>2, <1>3

\* A stream is written at an end of its connection, for the other one.
LEMMA WrittenType ==
  ASSUME NEW e, NEW c \in Conns, NEW at \in Places
  PROVE  Written(e, c, at) \in [conn : Conns, to : Ends, at : Places]
BY DEF Written, OtherEnd, Ends

LEMMA SendType ==
  ASSUME TypeOK, NEW o \in Outboxes, Send(o)
  PROVE  TypeOK'
<1>1. wire[o] \in Wires
  BY DEF TypeOK
<1>2. CASE wire[o].kind = "loopback"
  <2>1. wire[o].inbox \in Boxes /\ wire[o].at \in Places
    BY <1>1, <1>2, WireTypes
  <2> QED  BY <1>2, <2>1 DEF Send, Push, TypeOK, serviceVars, connVars
<1>3. CASE wire[o].kind = "channel"
  <2>1. wire[o].conn \in Conns /\ wire[o].at \in Places
    BY <1>1, <1>3, WireTypes
  <2>2. Written(wire[o].of, wire[o].conn, wire[o].at) \in [conn : Conns, to : Ends, at : Places]
    BY <2>1, WrittenType
  <2>3. /\ streams' = streams \cup {Written(wire[o].of, wire[o].conn, wire[o].at)}
        /\ pushed' = {}
        /\ UNCHANGED <<serviceVars, connVars, wire, settled>>
    BY <1>3 DEF Send
  <2>4. streams' \subseteq [conn : Conns, to : Ends, at : Places]
    BY <2>2, <2>3 DEF TypeOK
  <2> QED  BY <2>3, <2>4 DEF TypeOK, serviceVars, connVars
<1> QED  BY <1>2, <1>3 DEF Send

LEMMA DropOutboxType ==
  ASSUME TypeOK, NEW o \in Outboxes, DropOutbox(o)
  PROVE  TypeOK'
<1>1. life' \in [Conns -> {"open", "closed"}] /\ streams' \subseteq streams
  BY CloseUnheldType DEF DropOutbox
<1>2. NoWire \in Wires
  BY DEF Wires
<1>3. wire' \in [Outboxes -> Wires]
  BY <1>2 DEF DropOutbox, TypeOK
<1> QED  BY <1>1, <1>3 DEF DropOutbox, TypeOK, serviceVars

LEMMA BroadcastType ==
  ASSUME TypeOK, NEW e \in Endpoints, NEW t \in Endpoints, NEW p \in Protocols,
         Broadcast(e, t, p)
  PROVE  TypeOK'
<1>1. Norm[p] \in Services
  BY NormType
<1>2. CASE e = t
  <2>1. inboxes[e][Norm[p]] \in Boxes /\ <<t, Norm[p]>> \in Places
    BY <1>1, <1>2 DEF Broadcast, IsSelf, TypeOK, Places
  <2>2. /\ pushed' = {[at |-> <<t, Norm[p]>>, into |-> inboxes[e][Norm[p]]]}
        /\ UNCHANGED <<serviceVars, connVars, wire, streams, settled>>
    BY <1>2 DEF Broadcast, IsSelf, Push
  <2>3. pushed' \subseteq [at : Places, into : Boxes]
    BY <2>1, <2>2
  <2> QED  BY <2>2, <2>3 DEF TypeOK, serviceVars, connVars
<1>3. CASE e # t
  <2>1. PICK c \in Conns :
          /\ Reach(e, t, p, c)
          /\ life' = [d \in Conns |-> IF d \in OpenWith(c) THEN "open" ELSE "closed"]
          /\ streams' = streams \cup {Written(e, c, <<t, p>>)}
    BY <1>3 DEF Broadcast, IsSelf
  <2>2. ReachType /\ p \in Services
    BY <1>3, <2>1, ReachIsTyped
  <2>3. Written(e, c, <<t, p>>) \in [conn : Conns, to : Ends, at : Places]
    BY <2>2, WrittenType DEF Places
  <2>4. life' \in [Conns -> {"open", "closed"}]
    BY <2>1
  <2>5. streams' \subseteq [conn : Conns, to : Ends, at : Places]
    BY <2>1, <2>3 DEF TypeOK
  <2>6. pushed' = {} /\ UNCHANGED <<serviceVars, wire>>
    BY <1>3 DEF Broadcast, IsSelf
  <2> QED  BY <2>2, <2>4, <2>5, <2>6 DEF TypeOK, ReachType, serviceVars
<1> QED  BY <1>2, <1>3

LEMMA ReceiveType ==
  ASSUME TypeOK, NEW x \in streams, Receive(x)
  PROVE  TypeOK'
<1>1. x.conn \in Conns /\ x.to \in Ends /\ x.at \in Places
  BY DEF TypeOK
<1>2. loop[x.conn][x.to] \in Boxes
  BY <1>1 DEF Receive, TypeOK
<1> QED  BY <1>1, <1>2 DEF Receive, Push, TypeOK, serviceVars, connVars

LEMMA NextTypeOK == TypeOK /\ [Next]_vars => TypeOK'
<1> SUFFICES ASSUME TypeOK, [Next]_vars PROVE TypeOK'
  OBVIOUS
<1>1. CASE UNCHANGED vars
  BY <1>1 DEF vars, TypeOK, serviceVars, connVars
<1> QED
  BY <1>1, RegisterType, ShutType, HandleType, BreakType, OpenOutboxType, SendType,
     DropOutboxType, BroadcastType, ReceiveType DEF Next

\* Types; and no endpoint has a connection to itself.
THEOREM TypeCorrect == Spec => []TypeOK
<1> QED  BY InitTypeOK, NextTypeOK, PTL DEF Spec

-----------------------------------------------------------------------------
(* Who feeds what.                                                         *)

\* An inbox was made for the place it is registered at, and the router has
\* nothing but registered inboxes.
ServicesInv ==
  \A e \in Endpoints, s \in Services :
    /\ inboxes[e][s] # NoBox => made[inboxes[e][s]] = <<e, s>>
    /\ router[e][s] # NoBox => router[e][s] = inboxes[e][s]

\* The place that an end of a connection serves.
PlaceOf(c, end) == <<Peer(c, end), link[c].service>>

\* A loop feeds an inbox of its end and its connection's service, and the
\* acceptor's loop the registered one.
LoopsInv ==
  \A c \in Conns :
    /\ \A end \in Ends : loop[c][end] # NoBox => made[loop[c][end]] = PlaceOf(c, end)
    /\ loop[c]["acceptor"] # NoBox =>
         loop[c]["acceptor"] = inboxes[link[c].acceptor][link[c].service]

\* The connection leads from e to the place at, whoever dialed.
LeadsTo(c, e, at) == \E end \in Ends : Peer(c, end) = e /\ PlaceOf(c, OtherEnd(end)) = at

\* What is cached, and what an outbox holds, leads where it is used for.
HandlesInv ==
  /\ \A e \in Endpoints, k \in Places : cache[e][k] # NoConn => LeadsTo(cache[e][k], e, k)
  /\ \A o \in Outboxes :
       /\ wire[o].kind = "channel" => LeadsTo(wire[o].conn, wire[o].of, wire[o].at)
       /\ wire[o].kind = "loopback" => made[wire[o].inbox] = wire[o].at

\* A stream is on an open connection, and written for the place at its end.
StreamsInv == \A x \in streams : Open(x.conn) /\ x.at = PlaceOf(x.conn, x.to)

FeedInv == ServicesInv /\ LoopsInv /\ HandlesInv /\ StreamsInv /\ RightInbox

\* The place that a box was made for never changes.
MadeStays == \A b \in Boxes : made[b] # NoBox => made'[b] = made[b]

LEMMA InitFeedInv == Init => FeedInv
<1> SUFFICES ASSUME Init PROVE FeedInv
  OBVIOUS
<1>1. ServicesInv
  BY DEF Init, ServicesInv, NoServices
<1>2. LoopsInv
  BY DEF Init, LoopsInv, NoLoops, Ends
<1>3. HandlesInv
  BY DEF Init, HandlesInv, NoWire
<1>4. StreamsInv /\ RightInbox
  BY DEF Init, StreamsInv, RightInbox
<1> QED  BY <1>1, <1>2, <1>3, <1>4 DEF FeedInv

\* While links stay, and no stream is written, the streams keep their places.
LEMMA StreamsStay ==
  ASSUME StreamsInv, UNCHANGED link, NEW alive, CloseUnheld(alive)
  PROVE  StreamsInv'
BY DEF StreamsInv, CloseUnheld, PlaceOf, Peer, Open

LEMMA RestartFeed ==
  ASSUME TypeOK, TypeOK', FeedInv, NEW e \in Endpoints, Restart(e), MadeStays,
         \A f \in Endpoints, s \in Services :
           inboxes'[f][s] # NoBox => made'[inboxes'[f][s]] = <<f, s>>,
         \A f \in Endpoints \ {e} : inboxes'[f] = inboxes[f]
  PROVE  FeedInv'
<1>1. UNCHANGED <<link, cache, wire>>
  BY DEF Restart
<1>2. ServicesInv'
  BY DEF FeedInv, ServicesInv, Restart, TypeOK
<1>3. LoopsInv'
  <2> SUFFICES ASSUME NEW c \in Conns
               PROVE  /\ \A end \in Ends : loop'[c][end] # NoBox => made'[loop'[c][end]] = PlaceOf(c, end)'
                      /\ loop'[c]["acceptor"] # NoBox =>
                           loop'[c]["acceptor"] = inboxes'[link'[c].acceptor][link'[c].service]
    BY DEF LoopsInv
  <2>1. \A end \in Ends : PlaceOf(c, end)' = PlaceOf(c, end)
    BY <1>1 DEF PlaceOf, Peer
  <2>2. \A end \in Ends : loop'[c][end] \in {loop[c][end], NoBox}
    BY DEF Restart, TasksOf, TypeOK, Ends
  <2>3. \A end \in Ends : loop[c][end] # NoBox => made'[loop[c][end]] = PlaceOf(c, end)
    <3>1. \A end \in Ends : PlaceOf(c, end) # NoBox /\ loop[c][end] \in Boxes \cup {NoBox}
      <4>1. \A end \in Ends : PlaceOf(c, end) \in Places
        BY LinkTypes DEF TypeOK, PlaceOf, Peer, Places
      <4> QED  BY <4>1, NoneIsNone DEF TypeOK
    <3> QED  BY <3>1 DEF FeedInv, LoopsInv, MadeStays
  <2>4. ASSUME loop'[c]["acceptor"] # NoBox
        PROVE  loop'[c]["acceptor"] = inboxes'[link'[c].acceptor][link'[c].service]
    <3>1. link[c].acceptor # e /\ loop'[c]["acceptor"] = loop[c]["acceptor"]
      BY <2>4 DEF Restart, TasksOf, TypeOK, Ends
    <3>2. link[c].acceptor \in Endpoints
      BY LinkTypes DEF TypeOK
    <3> QED  BY <1>1, <2>4, <3>1, <3>2 DEF FeedInv, LoopsInv
  <2> QED  BY <2>1, <2>2, <2>3, <2>4
<1>4. HandlesInv'
  <2>1. \A o \in Outboxes : wire[o].kind = "loopback" => made'[wire[o].inbox] = wire[o].at
    <3>1. \A o \in Outboxes : wire[o].kind = "loopback" => wire[o].inbox \in Boxes /\ wire[o].at \in Places
      BY WireTypes DEF TypeOK
    <3> QED  BY <3>1, NoneIsNone DEF FeedInv, HandlesInv, MadeStays
  <2> QED  BY <1>1, <2>1 DEF FeedInv, HandlesInv, LeadsTo, PlaceOf, Peer
<1>5. StreamsInv'
  BY <1>1, StreamsStay DEF FeedInv, Restart
<1>6. RightInbox'
  BY DEF Restart, RightInbox
<1> QED  BY <1>2, <1>3, <1>4, <1>5, <1>6 DEF FeedInv

LEMMA RegisterFeed ==
  ASSUME TypeOK, TypeOK', FeedInv, NEW e \in Endpoints, NEW p \in Protocols,
         Register(e, p) \/ Remove(e, p)
  PROVE  FeedInv'
<1>1. Norm[p] \in Services
  BY NormType
<1>2. CASE Register(e, p)
  <2>1. PICK b \in Boxes : /\ made[b] = NoBox
                           /\ made' = [made EXCEPT ![b] = <<e, Norm[p]>>]
                           /\ inboxes' = [inboxes EXCEPT ![e][Norm[p]] = b]
    BY <1>2 DEF Register
  <2>2. MadeStays
    BY <2>1 DEF MadeStays, TypeOK
  <2>3. \A f \in Endpoints \ {e} : inboxes'[f] = inboxes[f]
    BY <2>1 DEF TypeOK
  <2>4. ASSUME NEW f \in Endpoints, NEW s \in Services, inboxes'[f][s] # NoBox
        PROVE  made'[inboxes'[f][s]] = <<f, s>>
    <3>1. CASE f = e /\ s = Norm[p]
      BY <2>1, <3>1 DEF TypeOK
    <3>2. CASE ~(f = e /\ s = Norm[p])
      <4>1. inboxes'[f][s] = inboxes[f][s]
        BY <2>1, <3>2, <1>1 DEF TypeOK
      <4>2. made[inboxes[f][s]] = <<f, s>> /\ <<f, s>> \in Places /\ inboxes[f][s] \in Boxes
        BY <2>4, <4>1 DEF FeedInv, ServicesInv, TypeOK, Places
      <4> QED  BY <2>2, <4>1, <4>2, NoneIsNone DEF MadeStays
    <3> QED  BY <3>1, <3>2
  <2> QED  BY <1>2, <2>2, <2>3, <2>4, RestartFeed DEF Register
<1>3. CASE Remove(e, p)
  <2>1. inboxes' = [inboxes EXCEPT ![e][Norm[p]] = NoBox] /\ made' = made
    BY <1>3 DEF Remove
  <2>2. MadeStays
    BY <2>1 DEF MadeStays
  <2>3. \A f \in Endpoints \ {e} : inboxes'[f] = inboxes[f]
    BY <2>1 DEF TypeOK
  <2>4. \A f \in Endpoints, s \in Services : inboxes'[f][s] \in {inboxes[f][s], NoBox}
    BY <1>1, <2>1 DEF TypeOK
  <2>5. \A f \in Endpoints, s \in Services :
          inboxes'[f][s] # NoBox => made'[inboxes'[f][s]] = <<f, s>>
    <3> SUFFICES ASSUME NEW f \in Endpoints, NEW s \in Services, inboxes'[f][s] # NoBox
                 PROVE  made'[inboxes'[f][s]] = <<f, s>>
      OBVIOUS
    <3>1. inboxes'[f][s] = inboxes[f][s]
      BY <2>4
    <3>2. made[inboxes[f][s]] = <<f, s>>
      BY <3>1 DEF FeedInv, ServicesInv
    <3>3. made' = made
      BY <2>1
    <3> QED  BY <3>1, <3>2, <3>3
  <2> QED  BY <1>3, <2>2, <2>3, <2>5, RestartFeed DEF Remove
<1> QED  BY <1>2, <1>3

LEMMA ShutFeed ==
  ASSUME TypeOK, FeedInv, NEW e \in Endpoints, Shut(e)
  PROVE  FeedInv'
<1>1. UNCHANGED <<inboxes, made, link, wire>>
  BY DEF Shut
<1>2. ServicesInv'
  BY DEF Shut, FeedInv, ServicesInv, TypeOK, NoServices
<1>3. LoopsInv'
  <2>1. \A c \in Conns, end \in Ends : loop'[c][end] \in {loop[c][end], NoBox}
    BY DEF Shut, TypeOK, NoLoops
  <2>2. "acceptor" \in Ends
    BY DEF Ends
  <2>3. \A c \in Conns, end \in Ends : PlaceOf(c, end)' = PlaceOf(c, end)
    BY <1>1 DEF PlaceOf, Peer
  <2> SUFFICES ASSUME NEW c \in Conns
               PROVE  /\ \A end \in Ends : loop'[c][end] # NoBox => made'[loop'[c][end]] = PlaceOf(c, end)'
                      /\ loop'[c]["acceptor"] # NoBox =>
                           loop'[c]["acceptor"] = inboxes'[link'[c].acceptor][link'[c].service]
    BY DEF LoopsInv
  <2>4. \A end \in Ends : loop'[c][end] # NoBox => made'[loop'[c][end]] = PlaceOf(c, end)'
    BY <1>1, <2>1, <2>3 DEF FeedInv, LoopsInv
  <2>5. loop'[c]["acceptor"] # NoBox =>
          loop'[c]["acceptor"] = inboxes'[link'[c].acceptor][link'[c].service]
    BY <1>1, <2>1, <2>2 DEF FeedInv, LoopsInv
  <2> QED  BY <2>4, <2>5
<1>4. HandlesInv'
  <2>1. \A f \in Endpoints, k \in Places : cache'[f][k] \in {cache[f][k], NoConn}
    BY DEF Shut, TypeOK
  <2> QED  BY <1>1, <2>1 DEF FeedInv, HandlesInv, LeadsTo, PlaceOf, Peer
<1>5. StreamsInv'
  BY <1>1, StreamsStay DEF FeedInv, Shut
<1>6. RightInbox'
  BY DEF Shut, RightInbox
<1> QED  BY <1>2, <1>3, <1>4, <1>5, <1>6 DEF FeedInv

LEMMA HandleFeed ==
  ASSUME TypeOK, FeedInv, NEW c \in Conns, Handle(c)
  PROVE  FeedInv'
<1>1. UNCHANGED <<inboxes, router, made, link, wire>>
  BY DEF Handle, serviceVars
<1>2. ServicesInv'
  BY <1>1 DEF FeedInv, ServicesInv
<1>3. /\ link[c].dialer \in Endpoints /\ link[c].acceptor \in Endpoints
      /\ link[c].service \in Services
  BY LinkTypes DEF TypeOK
<1> DEFINE b == router[link[c].acceptor][link[c].service]
<1>4. b # NoBox => b = inboxes[link[c].acceptor][link[c].service] /\ made[b] = PlaceOf(c, "acceptor")
  BY <1>3 DEF FeedInv, ServicesInv, PlaceOf, Peer
<1>5. LoopsInv'
  <2>1. loop'[c]["acceptor"] = b /\ loop'[c]["dialer"] = loop[c]["dialer"]
        /\ \A d \in Conns \ {c} : loop'[d] = loop[d]
    BY DEF Handle, TypeOK, Ends
  <2>2. \A d \in Conns, end \in Ends : PlaceOf(d, end)' = PlaceOf(d, end)
    BY <1>1 DEF PlaceOf, Peer
  <2> QED  BY <1>1, <1>4, <2>1, <2>2 DEF FeedInv, LoopsInv, Ends
<1>6. HandlesInv'
  <2>1. LeadsTo(c, link[c].acceptor, PeerKey(c, "acceptor"))
    BY DEF LeadsTo, PlaceOf, PeerKey, Peer, OtherEnd, Ends
  <2>2. \A f \in Endpoints, k \in Places :
          \/ cache'[f][k] = cache[f][k]
          \/ cache'[f][k] = c /\ f = link[c].acceptor /\ k = PeerKey(c, "acceptor")
    BY <1>3 DEF Handle, TypeOK
  <2>3. \A d, f, k : LeadsTo(d, f, k)' <=> LeadsTo(d, f, k)
    BY <1>1 DEF LeadsTo, PlaceOf, Peer
  <2> QED  BY <1>1, <2>1, <2>2, <2>3 DEF FeedInv, HandlesInv
<1>7. StreamsInv'
  BY <1>1, StreamsStay DEF FeedInv, Handle
<1>8. RightInbox'
  BY DEF Handle, RightInbox
<1> QED  BY <1>2, <1>5, <1>6, <1>7, <1>8 DEF FeedInv

LEMMA BreakFeed ==
  ASSUME TypeOK, FeedInv, NEW c \in Conns, Break(c)
  PROVE  FeedInv'
<1>1. UNCHANGED <<inboxes, router, made, link, wire>>
  BY DEF Break, serviceVars
<1>2. ServicesInv'
  BY <1>1 DEF FeedInv, ServicesInv
<1>3. LoopsInv'
  <2>1. \A d \in Conns, end \in Ends : loop'[d][end] \in {loop[d][end], NoBox}
    BY DEF Break, TypeOK, NoLoops
  <2>2. "acceptor" \in Ends
    BY DEF Ends
  <2> QED  BY <1>1, <2>1, <2>2 DEF FeedInv, LoopsInv, PlaceOf, Peer
<1>4. HandlesInv'
  <2>1. \A f \in Endpoints, k \in Places : cache'[f][k] \in {cache[f][k], NoConn}
    BY DEF Break, TypeOK
  <2> QED  BY <1>1, <2>1 DEF FeedInv, HandlesInv, LeadsTo, PlaceOf, Peer
<1>5. StreamsInv'
  BY <1>1, StreamsStay DEF FeedInv, Break
<1>6. RightInbox'
  BY DEF Break, RightInbox
<1> QED  BY <1>2, <1>3, <1>4, <1>5, <1>6 DEF FeedInv

LEMMA DropOutboxFeed ==
  ASSUME TypeOK, FeedInv, NEW o \in Outboxes, DropOutbox(o)
  PROVE  FeedInv'
<1>1. UNCHANGED <<inboxes, router, made, link, loop, cache>>
  BY DEF DropOutbox, serviceVars
<1>2. ServicesInv' /\ LoopsInv'
  BY <1>1 DEF FeedInv, ServicesInv, LoopsInv, PlaceOf, Peer
<1>3. HandlesInv'
  <2>1. \A q \in Outboxes : wire'[q] = wire[q] \/ wire'[q].kind = "none"
    BY DEF DropOutbox, TypeOK, NoWire
  <2> QED  BY <1>1, <2>1 DEF FeedInv, HandlesInv, LeadsTo, PlaceOf, Peer
<1>4. StreamsInv'
  BY <1>1, StreamsStay DEF FeedInv, DropOutbox
<1>5. RightInbox'
  BY DEF DropOutbox, RightInbox
<1> QED  BY <1>2, <1>3, <1>4, <1>5 DEF FeedInv

LEMMA ReceiveFeed ==
  ASSUME TypeOK, FeedInv, NEW x \in streams, Receive(x)
  PROVE  FeedInv'
<1>1. /\ UNCHANGED <<inboxes, router, made, life, link, loop, cache, wire>>
      /\ streams' \subseteq streams
  BY DEF Receive, serviceVars, connVars
<1>2. ServicesInv' /\ LoopsInv' /\ HandlesInv'
  BY <1>1 DEF FeedInv, ServicesInv, LoopsInv, HandlesInv, LeadsTo, PlaceOf, Peer
<1>3. StreamsInv'
  BY <1>1 DEF FeedInv, StreamsInv, PlaceOf, Peer, Open
<1>4. made[loop[x.conn][x.to]] = x.at
  BY DEF FeedInv, LoopsInv, StreamsInv, Receive, TypeOK
<1>5. RightInbox'
  BY <1>1, <1>4 DEF Receive, Push, RightInbox
<1> QED  BY <1>2, <1>3, <1>5 DEF FeedInv

\* A connection that is not in use may be dialed anew: nothing else changes
\* where it leads, and nobody else has it.
DialsAnew(e, t, p, c) ==
  /\ LoopsInv'
  /\ LeadsTo(c, e, <<t, p>>)'
  /\ \A f \in Endpoints, k \in Places : cache'[f][k] # NoConn => LeadsTo(cache[f][k], f, k)'
  /\ \A o \in Outboxes :
       wire[o].kind = "channel" => link'[wire[o].conn] = link[wire[o].conn]
  /\ \A d \in Conns : Open(d) => link'[d] = link[d]
  /\ c \in OpenWith(c)

\* Where the link of a connection stays, it leads where it did.
LEMMA LeadsStay ==
  ASSUME NEW d, link'[d] = link[d]
  PROVE  /\ \A end \in Ends : PlaceOf(d, end)' = PlaceOf(d, end)
         /\ \A f, k : LeadsTo(d, f, k)' <=> LeadsTo(d, f, k)
BY DEF LeadsTo, PlaceOf, Peer

LEMMA DialFeed ==
  ASSUME TypeOK, FeedInv, NEW e \in Endpoints, NEW t \in Endpoints, NEW p \in Services,
         NEW c \in Conns, Dial(e, t, p, c), UNCHANGED <<inboxes, made>>
  PROVE  DialsAnew(e, t, p, c)
<1>1. /\ link'[c] = [dialer |-> e, acceptor |-> t, service |-> p]
      /\ \A d \in Conns \ {c} : link'[d] = link[d]
  BY DEF Dial, TypeOK
<1>2. LeadsTo(c, e, <<t, p>>)'
  BY <1>1 DEF LeadsTo, PlaceOf, Peer, OtherEnd, Ends
<1>3. /\ loop[c]["acceptor"] = NoBox /\ c \in OpenWith(c) /\ ~Open(c)
      /\ \A f \in Endpoints, k \in Places : cache[f][k] # c
      /\ \A o \in Outboxes : wire[o].kind = "channel" => wire[o].conn # c
  BY DEF Dial, Unused, NoLoops, Ends, OpenWith
<1>4. LoopsInv'
  <2>1. /\ loop'[c]["dialer"] = inboxes[e][p] /\ loop'[c]["acceptor"] = NoBox
        /\ \A d \in Conns \ {c} : loop'[d] = loop[d]
    BY <1>3 DEF Dial, DialerLoop, TypeOK, Ends
  <2>2. ASSUME inboxes[e][p] # NoBox PROVE made'[inboxes[e][p]] = PlaceOf(c, "dialer")'
    <3>1. made'[inboxes[e][p]] = <<e, p>>
      BY <2>2 DEF FeedInv, ServicesInv
    <3> QED  BY <1>1, <3>1 DEF PlaceOf, Peer
  <2>3. SUFFICES ASSUME NEW d \in Conns
        PROVE  /\ \A end \in Ends : loop'[d][end] # NoBox => made'[loop'[d][end]] = PlaceOf(d, end)'
               /\ loop'[d]["acceptor"] # NoBox =>
                    loop'[d]["acceptor"] = inboxes'[link'[d].acceptor][link'[d].service]
    BY DEF LoopsInv
  <2>4. CASE d = c
    BY <2>1, <2>2, <2>4 DEF Ends
  <2>5. CASE d # c
    <3>1. link'[d] = link[d] /\ loop'[d] = loop[d]
      BY <1>1, <2>1, <2>5
    <3>2. \A end \in Ends : PlaceOf(d, end)' = PlaceOf(d, end)
      BY <3>1, LeadsStay
    <3> QED  BY <3>1, <3>2 DEF FeedInv, LoopsInv
  <2> QED  BY <2>4, <2>5
<1>5. ASSUME NEW f \in Endpoints, NEW k \in Places, cache'[f][k] # NoConn
      PROVE  LeadsTo(cache[f][k], f, k)'
  <2>1. \/ cache'[f][k] = c /\ f = e /\ k = <<t, p>>
        \/ cache'[f][k] = cache[f][k]
    BY DEF Dial, CacheKey, TypeOK, Places
  <2>2. CASE cache'[f][k] = c /\ f = e /\ k = <<t, p>>
    <3>1. \E end \in Ends : Peer(c, end)' = f /\ PlaceOf(c, OtherEnd(end))' = k
      BY <1>2, <2>2 DEF LeadsTo
    <3> QED  BY <2>2, <3>1 DEF LeadsTo, PlaceOf, Peer
  <2>3. CASE cache'[f][k] = cache[f][k]
    <3>1. PICK d \in Conns : d = cache[f][k]
      BY <1>5, <2>3 DEF TypeOK
    <3>2. link'[d] = link[d]
      BY <1>1, <1>3, <3>1
    <3>3. LeadsTo(d, f, k)
      BY <1>5, <2>3, <3>1 DEF FeedInv, HandlesInv
    <3>4. LeadsTo(d, f, k)'
      BY <3>2, <3>3 DEF LeadsTo, PlaceOf, Peer
    <3>5. cache'[f][k] = d
      BY <2>3, <3>1
    <3> QED  BY <3>4, <3>5 DEF LeadsTo, PlaceOf, Peer
  <2> QED  BY <2>1, <2>2, <2>3
<1>6. ASSUME NEW o \in Outboxes, wire[o].kind = "channel"
      PROVE  link'[wire[o].conn] = link[wire[o].conn]
  <2>1. wire[o].conn \in Conns \ {c}
    BY <1>3, <1>6, WireTypes DEF TypeOK
  <2> QED  BY <1>1, <2>1
<1> QED  BY <1>1, <1>2, <1>3, <1>4, <1>5, <1>6 DEF DialsAnew

LEMMA ReachFeed ==
  ASSUME TypeOK, FeedInv, NEW e \in Endpoints, NEW t \in Endpoints, NEW p,
         NEW c \in Conns, Reach(e, t, p, c), UNCHANGED <<inboxes, made>>
  PROVE  DialsAnew(e, t, p, c)
<1>1. p \in Services
  BY DEF Reach
<1>2. CASE Dial(e, t, p, c)
  BY <1>1, <1>2, DialFeed
<1>3. CASE /\ Reusable(e, CacheKey(t, p)) /\ c = cache[e][CacheKey(t, p)]
           /\ UNCHANGED <<link, loop, cache>>
  <2>1. c = cache[e][<<t, p>>] /\ <<t, p>> \in Places /\ c # NoConn
    BY <1>1, <1>3, NoneIsNone DEF CacheKey, Places
  <2>2. LeadsTo(c, e, <<t, p>>)
    BY <2>1 DEF FeedInv, HandlesInv
  <2>3. LeadsTo(c, e, <<t, p>>)'
    BY <1>3, <2>2 DEF LeadsTo, PlaceOf, Peer
  <2>4. c \in OpenWith(c)
    BY <1>3 DEF Reusable, OpenWith
  <2>5. LoopsInv'
    BY <1>3 DEF FeedInv, LoopsInv, PlaceOf, Peer
  <2>6. \A f \in Endpoints, k \in Places : cache'[f][k] # NoConn => LeadsTo(cache[f][k], f, k)'
    BY <1>3 DEF FeedInv, HandlesInv, LeadsTo, PlaceOf, Peer
  <2> QED  BY <1>3, <2>3, <2>4, <2>5, <2>6 DEF DialsAnew
<1> QED  BY <1>2, <1>3 DEF Reach

LEMMA OpenOutboxFeed ==
  ASSUME TypeOK, FeedInv, NEW o \in Outboxes, NEW e \in Endpoints, NEW t \in Endpoints,
         NEW p \in Protocols, OpenOutbox(o, e, t, p)
  PROVE  FeedInv'
<1>1. UNCHANGED <<inboxes, router, made>> /\ pushed' = {}
  BY DEF OpenOutbox, serviceVars
<1>2. ServicesInv' /\ RightInbox'
  BY <1>1 DEF FeedInv, ServicesInv, RightInbox
<1>3. CASE e = t
  <2> DEFINE b == inboxes[e][Norm[p]]
             w == [kind |-> "loopback", of |-> e, at |-> <<t, Norm[p]>>, inbox |-> b]
  <2>1. /\ b # NoBox /\ wire' = [wire EXCEPT ![o] = w]
        /\ UNCHANGED <<life, link, loop, cache, streams>>
    BY <1>3 DEF OpenOutbox, IsSelf, connVars
  <2>2. made'[b] = <<t, Norm[p]>>
    BY <1>1, <1>3, <2>1, NormType DEF FeedInv, ServicesInv
  <2>3. LoopsInv' /\ StreamsInv'
    BY <1>1, <2>1 DEF FeedInv, LoopsInv, StreamsInv, PlaceOf, Peer, Open
  <2>4. HandlesInv'
    <3>1. ASSUME NEW q \in Outboxes
          PROVE  /\ wire'[q].kind = "channel" => LeadsTo(wire[q].conn, wire[q].of, wire[q].at)'
                 /\ wire'[q].kind = "loopback" => made'[wire'[q].inbox] = wire'[q].at
      <4>1. CASE q = o
        <5>1. /\ wire'[q].kind = "loopback" /\ wire'[q].at = <<t, Norm[p]>>
              /\ wire'[q].inbox = b
          BY <2>1, <4>1 DEF TypeOK
        <5> QED  BY <2>2, <5>1
      <4>2. CASE q # o
        <5>1. wire'[q] = wire[q]
          BY <2>1, <4>2 DEF TypeOK
        <5> QED  BY <1>1, <2>1, <5>1 DEF FeedInv, HandlesInv, LeadsTo, PlaceOf, Peer
      <4> QED  BY <4>1, <4>2
    <3>2. \A f \in Endpoints, k \in Places : (cache[f][k] # NoConn => LeadsTo(cache[f][k], f, k))'
      BY <2>1 DEF FeedInv, HandlesInv, LeadsTo, PlaceOf, Peer
    <3> QED  BY <3>1, <3>2 DEF HandlesInv
  <2> QED  BY <1>2, <2>3, <2>4 DEF FeedInv
<1>4. CASE e # t
  <2>1. PICK c \in Conns :
          /\ Reach(e, t, p, c)
          /\ wire' = [wire EXCEPT ![o] = [kind |-> "channel", of |-> e, at |-> <<t, p>>, conn |-> c]]
          /\ CloseUnheld(OpenWith(c))
    BY <1>4 DEF OpenOutbox, IsSelf
  <2>2. DialsAnew(e, t, p, c)
    BY <1>1, <2>1, ReachFeed
  <2>3. LoopsInv'
    BY <2>2 DEF DialsAnew
  <2>4. HandlesInv'
    <3>1. \A f \in Endpoints, k \in Places : (cache[f][k] # NoConn => LeadsTo(cache[f][k], f, k))'
      BY <2>2 DEF DialsAnew
    <3>2. ASSUME NEW q \in Outboxes
          PROVE  /\ wire'[q].kind = "channel" => LeadsTo(wire[q].conn, wire[q].of, wire[q].at)'
                 /\ wire'[q].kind = "loopback" => made'[wire'[q].inbox] = wire'[q].at
      <4>1. CASE q = o
        <5>1. /\ wire'[q].kind = "channel" /\ wire'[q].of = e /\ wire'[q].at = <<t, p>>
              /\ wire'[q].conn = c
          BY <2>1, <4>1 DEF TypeOK
        <5>2. LeadsTo(c, e, <<t, p>>)'
          BY <2>2 DEF DialsAnew
        <5> QED  BY <5>1, <5>2 DEF LeadsTo, PlaceOf, Peer
      <4>2. CASE q # o
        <5>1. wire'[q] = wire[q]
          BY <2>1, <4>2 DEF TypeOK
        <5>2. wire[q].kind = "channel" => link'[wire[q].conn] = link[wire[q].conn]
          BY <2>2 DEF DialsAnew
        <5> QED  BY <1>1, <5>1, <5>2 DEF FeedInv, HandlesInv, LeadsTo, PlaceOf, Peer
      <4> QED  BY <4>1, <4>2
    <3> QED  BY <3>1, <3>2 DEF HandlesInv
  <2>5. StreamsInv'
    <3>1. \A x \in streams' : x \in streams /\ life'[x.conn] = "open"
      BY <2>1 DEF CloseUnheld
    <3>2. \A x \in streams : link'[x.conn] = link[x.conn]
      BY <2>2 DEF DialsAnew, FeedInv, StreamsInv, TypeOK
    <3> QED  BY <3>1, <3>2 DEF FeedInv, StreamsInv, PlaceOf, Peer, Open
  <2> QED  BY <1>2, <2>3, <2>4, <2>5 DEF FeedInv
<1> QED  BY <1>3, <1>4

\* A stream is written for the place at the other end of the connection.
LEMMA WrittenPlace ==
  ASSUME link' \in [Conns -> Links], NEW e, NEW c \in Conns, NEW at, LeadsTo(c, e, at)'
  PROVE  IF link'[c].dialer = e THEN at = PlaceOf(c, "acceptor")' ELSE at = PlaceOf(c, "dialer")'
<1>1. link'[c].dialer # link'[c].acceptor
  BY LinkTypes
<1>2. PICK end \in Ends : Peer(c, end)' = e /\ at = PlaceOf(c, OtherEnd(end))'
  BY DEF LeadsTo
<1>3. CASE end = "dialer"
  BY <1>2, <1>3 DEF Peer, PlaceOf, OtherEnd
<1>4. CASE end = "acceptor"
  BY <1>1, <1>2, <1>4 DEF Peer, PlaceOf, OtherEnd
<1> QED  BY <1>3, <1>4 DEF Ends

\* Writing a stream where a connection leads keeps the streams' places.
LEMMA WriteFeed ==
  ASSUME StreamsInv, link' \in [Conns -> Links], NEW e, NEW c \in Conns, NEW at,
         LeadsTo(c, e, at)', Open(c)',
         \A x \in streams : link'[x.conn] = link[x.conn] /\ Open(x.conn)',
         NEW x \in streams \cup {Written(e, c, at)}
  PROVE  life'[x.conn] = "open"
         /\ x.at = <<IF x.to = "dialer" THEN link'[x.conn].dialer ELSE link'[x.conn].acceptor,
                     link'[x.conn].service>>
<1>1. CASE x \in streams
  BY <1>1 DEF StreamsInv, PlaceOf, Peer, Open
<1>2. CASE x = Written(e, c, at)
  <2>1. x.conn = c /\ x.at = at /\ x.to = OtherEnd(EndOf(e, c))
    BY <1>2 DEF Written
  <2>2. IF link'[c].dialer = e THEN at = PlaceOf(c, "acceptor")' ELSE at = PlaceOf(c, "dialer")'
    BY WrittenPlace
  <2> QED  BY <2>1, <2>2 DEF EndOf, OtherEnd, PlaceOf, Peer, Open
<1> QED  BY <1>1, <1>2

LEMMA SendFeed ==
  ASSUME TypeOK, FeedInv, NEW o \in Outboxes, Send(o)
  PROVE  FeedInv'
<1>1. UNCHANGED <<inboxes, router, made, life, link, loop, cache, wire>>
  BY DEF Send, serviceVars, connVars
<1>2. ServicesInv' /\ LoopsInv' /\ HandlesInv'
  BY <1>1 DEF FeedInv, ServicesInv, LoopsInv, HandlesInv, LeadsTo, PlaceOf, Peer
<1>3. CASE /\ wire[o].kind = "loopback" /\ UNCHANGED streams
           /\ pushed' = {[at |-> wire[o].at, into |-> wire[o].inbox]}
  <2>1. StreamsInv'
    BY <1>1, <1>3 DEF FeedInv, StreamsInv, PlaceOf, Peer, Open
  <2>2. made'[wire[o].inbox] = wire[o].at
    BY <1>1, <1>3 DEF FeedInv, HandlesInv
  <2>3. RightInbox'
    BY <1>3, <2>2 DEF RightInbox
  <2> QED  BY <1>2, <2>1, <2>3 DEF FeedInv
<1>4. CASE /\ wire[o].kind = "channel" /\ Open(wire[o].conn) /\ pushed' = {}
           /\ streams' = streams \cup {Written(wire[o].of, wire[o].conn, wire[o].at)}
  <2>1. PICK e \in Endpoints, c \in Conns, at \in Places :
          wire[o].of = e /\ wire[o].conn = c /\ wire[o].at = at
    <3>1. wire[o].of \in Endpoints /\ wire[o].conn \in Conns /\ wire[o].at \in Places
      BY <1>4, WireTypes DEF TypeOK
    <3> QED  BY <3>1
  <2>2. LeadsTo(c, e, at)
    BY <1>4, <2>1 DEF FeedInv, HandlesInv
  <2>3. LeadsTo(c, e, at)' /\ Open(c)'
    BY <1>1, <1>4, <2>1, <2>2 DEF LeadsTo, PlaceOf, Peer, Open
  <2>4. link' \in [Conns -> Links]
    BY <1>1 DEF TypeOK
  <2>5. \A x \in streams : link'[x.conn] = link[x.conn] /\ Open(x.conn)'
    BY <1>1 DEF FeedInv, StreamsInv, Open
  <2>6. streams' = streams \cup {Written(e, c, at)}
    BY <1>4, <2>1
  <2>7. \A x \in streams \cup {Written(e, c, at)} :
          life'[x.conn] = "open"
          /\ x.at = <<IF x.to = "dialer" THEN link'[x.conn].dialer ELSE link'[x.conn].acceptor,
                      link'[x.conn].service>>
    BY <2>3, <2>4, <2>5, WriteFeed DEF FeedInv
  <2>8. StreamsInv'
    BY <2>6, <2>7 DEF StreamsInv, PlaceOf, Peer, Open
  <2> QED  BY <1>2, <1>4, <2>8 DEF FeedInv, RightInbox
<1> QED  BY <1>3, <1>4 DEF Send, Push

LEMMA BroadcastFeed ==
  ASSUME TypeOK, TypeOK', FeedInv, NEW e \in Endpoints, NEW t \in Endpoints,
         NEW p \in Protocols, Broadcast(e, t, p)
  PROVE  FeedInv'
<1>1. UNCHANGED <<inboxes, router, made, wire>>
  BY DEF Broadcast, serviceVars
<1>2. ServicesInv'
  BY <1>1 DEF FeedInv, ServicesInv
<1>3. CASE e = t
  <2>1. /\ inboxes[e][Norm[p]] # NoBox
        /\ pushed' = {[at |-> <<t, Norm[p]>>, into |-> inboxes[e][Norm[p]]]}
        /\ UNCHANGED <<life, link, loop, cache, streams>>
    BY <1>3 DEF Broadcast, IsSelf, Push, connVars
  <2>2. made'[inboxes[e][Norm[p]]] = <<t, Norm[p]>>
    BY <1>1, <1>3, <2>1, NormType DEF FeedInv, ServicesInv
  <2>3. RightInbox'
    BY <2>1, <2>2 DEF RightInbox
  <2>4. LoopsInv' /\ HandlesInv' /\ StreamsInv'
    BY <1>1, <2>1 DEF FeedInv, LoopsInv, HandlesInv, StreamsInv, LeadsTo, PlaceOf, Peer, Open
  <2> QED  BY <1>2, <2>3, <2>4 DEF FeedInv
<1>4. CASE e # t
  <2>1. PICK c \in Conns :
          /\ Reach(e, t, p, c)
          /\ life' = [d \in Conns |-> IF d \in OpenWith(c) THEN "open" ELSE "closed"]
          /\ streams' = streams \cup {Written(e, c, <<t, p>>)}
    BY <1>4 DEF Broadcast, IsSelf
  <2>2. DialsAnew(e, t, p, c)
    BY <1>1, <2>1, ReachFeed
  <2>3. LoopsInv' /\ LeadsTo(c, e, <<t, p>>)' /\ Open(c)'
    BY <2>1, <2>2 DEF DialsAnew, Open
  <2>4. HandlesInv'
    <3>1. \A f \in Endpoints, k \in Places : (cache[f][k] # NoConn => LeadsTo(cache[f][k], f, k))'
      BY <2>2 DEF DialsAnew
    <3>2. ASSUME NEW q \in Outboxes
          PROVE  /\ wire'[q].kind = "channel" => LeadsTo(wire[q].conn, wire[q].of, wire[q].at)'
                 /\ wire'[q].kind = "loopback" => made'[wire'[q].inbox] = wire'[q].at
      <4>1. wire[q].kind = "channel" => link'[wire[q].conn] = link[wire[q].conn]
        BY <2>2 DEF DialsAnew
      <4> QED  BY <1>1, <4>1 DEF FeedInv, HandlesInv, LeadsTo, PlaceOf, Peer
    <3> QED  BY <3>1, <3>2 DEF HandlesInv
  <2>5. \A x \in streams : link'[x.conn] = link[x.conn] /\ Open(x.conn)'
    <3>1. \A x \in streams : x.conn \in Conns /\ Open(x.conn)
      BY DEF FeedInv, StreamsInv, TypeOK
    <3>2. \A d \in Conns : Open(d) => link'[d] = link[d] /\ Open(d)'
      BY <2>1, <2>2 DEF DialsAnew, Open, OpenWith, OpenConns
    <3> QED  BY <3>1, <3>2
  <2>6. \A x \in streams \cup {Written(e, c, <<t, p>>)} :
          life'[x.conn] = "open"
          /\ x.at = <<IF x.to = "dialer" THEN link'[x.conn].dialer ELSE link'[x.conn].acceptor,
                      link'[x.conn].service>>
    BY <2>3, <2>5, WriteFeed DEF FeedInv, TypeOK
  <2>7. StreamsInv'
    BY <2>1, <2>6 DEF StreamsInv, PlaceOf, Peer, Open
  <2>8. RightInbox'
    BY <1>4 DEF Broadcast, IsSelf, RightInbox
  <2> QED  BY <1>2, <2>3, <2>4, <2>7, <2>8 DEF FeedInv
<1> QED  BY <1>3, <1>4

LEMMA NextFeedInv == TypeOK /\ TypeOK' /\ FeedInv /\ [Next]_vars => FeedInv'
<1> SUFFICES ASSUME TypeOK, TypeOK', FeedInv, [Next]_vars PROVE FeedInv'
  OBVIOUS
<1>1. CASE UNCHANGED vars
  BY <1>1 DEF vars, serviceVars, connVars, FeedInv, ServicesInv, LoopsInv, HandlesInv, StreamsInv,
     RightInbox, LeadsTo, PlaceOf, Peer, Open
<1> QED
  BY <1>1, RegisterFeed, ShutFeed, HandleFeed, BreakFeed, OpenOutboxFeed, SendFeed,
     DropOutboxFeed, BroadcastFeed, ReceiveFeed DEF Next

LEMMA FeedCorrect == Spec => []FeedInv
<1> QED  BY TypeCorrect, InitFeedInv, NextFeedInv, PTL DEF Spec

\* Whatever endpoints register, remove, dial, drop and break in whatever
\* order, a message is pushed into an inbox that was made for the endpoint
\* and the service it was sent to.
THEOREM AlwaysRightInbox == Spec => []RightInbox
<1>1. FeedInv => RightInbox
  BY DEF FeedInv
<1> QED  BY <1>1, FeedCorrect, PTL

\* The loops of accepted connections feed the inbox that is registered now:
\* a reload of the router leaves none behind that feeds a removed one.
THEOREM AlwaysFeedsCurrent == Spec => []AcceptedFeedsCurrent
<1>1. FeedInv => AcceptedFeedsCurrent
  BY DEF FeedInv, LoopsInv, AcceptedFeedsCurrent
<1> QED  BY <1>1, FeedCorrect, PTL

-----------------------------------------------------------------------------
(* Connections that are dialed while the services stay have their loops.   *)

\* Both ends feed what is registered there, the acceptor's as soon as its
\* accept() task has taken the inbox from the router.
SettledFeeds(c) ==
  /\ loop[c]["dialer"] = inboxes[link[c].dialer][link[c].service]
  /\ c \notin offered => loop[c]["acceptor"] = inboxes[link[c].acceptor][link[c].service]
  /\ c \in offered =>
       router[link[c].acceptor][link[c].service] = inboxes[link[c].acceptor][link[c].service]

SettledInv == \A c \in Conns : Open(c) /\ c \in settled => SettledFeeds(c)

LEMMA InitSettledInv == Init => SettledInv
BY DEF Init, SettledInv

\* What keeps SettledFeeds of one connection.
LEMMA FeedsStay ==
  ASSUME NEW c, SettledFeeds(c), link'[c] = link[c], loop'[c] = loop[c],
         c \in offered' <=> c \in offered,
         \A f \in EndsOf(c) : inboxes'[f] = inboxes[f] /\ router'[f] = router[f]
  PROVE  SettledFeeds(c)'
BY DEF SettledFeeds, EndsOf

LEMMA RestartSettled ==
  ASSUME TypeOK, SettledInv, NEW e \in Endpoints, NEW p \in Protocols,
         Register(e, p) \/ Remove(e, p)
  PROVE  SettledInv'
<1>1. Restart(e) /\ \A f \in Endpoints \ {e} : inboxes'[f] = inboxes[f]
  BY DEF Register, Remove, TypeOK
<1> SUFFICES ASSUME NEW c \in Conns, Open(c)', c \in settled'
             PROVE  SettledFeeds(c)'
  BY DEF SettledInv, Open
<1>2. Open(c) /\ c \in settled /\ e \notin EndsOf(c)
  BY <1>1 DEF Restart, CloseUnheld, Open, OpenConns
<1>3. \A f \in EndsOf(c) : f \in Endpoints \ {e}
  BY <1>2, LinkTypes DEF EndsOf, TypeOK
<1>4. link[c].acceptor # e
  BY <1>2 DEF EndsOf
<1>5. link'[c] = link[c] /\ (c \in offered' <=> c \in offered)
  BY <1>1, <1>4 DEF Restart
<1>6. loop'[c] = loop[c]
  <2>1. loop'[c] = [loop[c] EXCEPT !["acceptor"] = loop[c]["acceptor"]]
    BY <1>1, <1>4 DEF Restart, TasksOf
  <2> QED  BY <2>1 DEF TypeOK
<1>7. \A f \in EndsOf(c) : inboxes'[f] = inboxes[f] /\ router'[f] = router[f]
  BY <1>1, <1>3 DEF Restart, TypeOK
<1> QED  BY <1>2, <1>5, <1>6, <1>7, FeedsStay DEF SettledInv

LEMMA ShutSettled ==
  ASSUME TypeOK, SettledInv, NEW e \in Endpoints, Shut(e)
  PROVE  SettledInv'
<1> SUFFICES ASSUME NEW c \in Conns, Open(c)', c \in settled'
             PROVE  SettledFeeds(c)'
  BY DEF SettledInv, Open
<1>1. Open(c) /\ c \in settled /\ e \notin EndsOf(c)
  BY DEF Shut, CloseUnheld, Open, OpenConns
<1>2. link'[c] = link[c] /\ loop'[c] = loop[c] /\ (c \in offered' <=> c \in offered)
  BY <1>1 DEF Shut
<1>3. \A f \in EndsOf(c) : f \in Endpoints \ {e}
  BY <1>1, LinkTypes DEF EndsOf, TypeOK
<1>4. \A f \in EndsOf(c) : inboxes'[f] = inboxes[f] /\ router'[f] = router[f]
  BY <1>3 DEF Shut, TypeOK
<1> QED  BY <1>1, <1>2, <1>4, FeedsStay DEF SettledInv

LEMMA HandleSettled ==
  ASSUME TypeOK, SettledInv, NEW d \in Conns, Handle(d)
  PROVE  SettledInv'
<1> SUFFICES ASSUME NEW c \in Conns, Open(c)', c \in settled'
             PROVE  SettledFeeds(c)'
  BY DEF SettledInv, Open
<1>1. UNCHANGED <<inboxes, router, link, settled>> /\ offered' = offered \ {d}
  BY DEF Handle, serviceVars
<1>2. SettledFeeds(c)
  BY <1>1 DEF Handle, CloseUnheld, Open, OpenConns, SettledInv
<1>3. CASE c # d
  <2>1. loop'[c] = loop[c]
    BY <1>3 DEF Handle, TypeOK
  <2> QED  BY <1>1, <1>2, <1>3, <2>1, FeedsStay
<1>4. CASE c = d
  <2>1. /\ loop'[c]["acceptor"] = router[link[c].acceptor][link[c].service]
        /\ loop'[c]["dialer"] = loop[c]["dialer"]
        /\ c \in offered
    BY <1>4 DEF Handle, TypeOK, Ends
  <2> QED  BY <1>1, <1>2, <1>4, <2>1 DEF SettledFeeds
<1> QED  BY <1>3, <1>4

LEMMA BreakSettled ==
  ASSUME TypeOK, SettledInv, NEW d \in Conns, Break(d)
  PROVE  SettledInv'
<1> SUFFICES ASSUME NEW c \in Conns, Open(c)', c \in settled'
             PROVE  SettledFeeds(c)'
  BY DEF SettledInv, Open
<1>1. UNCHANGED <<inboxes, router, link, settled>>
  BY DEF Break, serviceVars
<1>2. Open(c) /\ c # d
  BY DEF Break, CloseUnheld, Open, OpenConns
<1>3. loop'[c] = loop[c] /\ (c \in offered' <=> c \in offered)
  BY <1>2 DEF Break, TypeOK
<1> QED  BY <1>1, <1>2, <1>3, FeedsStay DEF SettledInv

\* A connection that is dialed has a loop at the dialer if it has the
\* service, and the acceptor's router has a handler for it.
LEMMA ReachSettled ==
  ASSUME TypeOK, ServicesInv, SettledInv, NEW e \in Endpoints, NEW t \in Endpoints, NEW p,
         NEW d \in Conns, Reach(e, t, p, d), UNCHANGED <<inboxes, router>>,
         \A c \in Conns : Open(c)' => c \in OpenWith(d)
  PROVE  SettledInv'
<1> SUFFICES ASSUME NEW c \in Conns, Open(c)', c \in settled'
             PROVE  SettledFeeds(c)'
  BY DEF SettledInv, Open
<1>1. p \in Services /\ c \in OpenWith(d)
  BY DEF Reach
<1>2. CASE UNCHANGED <<link, loop, offered, settled>> /\ Reusable(e, CacheKey(t, p))
           /\ d = cache[e][CacheKey(t, p)]
  <2>1. Open(c)
    BY <1>1, <1>2 DEF OpenWith, OpenConns, Reusable, Unused
  <2> QED  BY <1>2, <2>1, FeedsStay DEF SettledInv
<1>3. CASE Dial(e, t, p, d) /\ c # d
  <2>1. Open(c) /\ c \in settled
    BY <1>1, <1>3 DEF OpenWith, OpenConns, Dial
  <2>2. link'[c] = link[c] /\ loop'[c] = loop[c] /\ (c \in offered' <=> c \in offered)
    BY <1>3 DEF Dial, TypeOK
  <2> QED  BY <2>1, <2>2, FeedsStay DEF SettledInv
<1>4. CASE Dial(e, t, p, d) /\ c = d
  <2>1. link'[c] = [dialer |-> e, acceptor |-> t, service |-> p] /\ c \in offered'
    BY <1>4 DEF Dial, TypeOK
  <2>2. loop'[c]["dialer"] = inboxes[e][p]
    BY <1>4 DEF Dial, DialerLoop, TypeOK, Ends
  <2>3. router[t][p] = inboxes[t][p]
    BY <1>1, <1>4 DEF Dial, Listens, ServicesInv
  <2> QED  BY <2>1, <2>2, <2>3 DEF SettledFeeds
<1> QED  BY <1>2, <1>3, <1>4 DEF Reach

LEMMA OpenOutboxSettled ==
  ASSUME TypeOK, ServicesInv, SettledInv, NEW o \in Outboxes, NEW e \in Endpoints,
         NEW t \in Endpoints, NEW p \in Protocols, OpenOutbox(o, e, t, p)
  PROVE  SettledInv'
<1>1. UNCHANGED <<inboxes, router>>
  BY DEF OpenOutbox, serviceVars
<1>2. CASE UNCHANGED <<connVars, settled>>
  BY <1>1, <1>2 DEF connVars, SettledInv, SettledFeeds, Open
<1>3. CASE \E c \in Conns : Reach(e, t, p, c) /\ CloseUnheld(OpenWith(c))
  <2>1. PICK c \in Conns : Reach(e, t, p, c) /\ CloseUnheld(OpenWith(c))
    BY <1>3
  <2>2. \A d \in Conns : Open(d)' => d \in OpenWith(c)
    BY <2>1 DEF CloseUnheld, Open
  <2> QED  BY <1>1, <2>1, <2>2, ReachSettled
<1> QED  BY <1>2, <1>3 DEF OpenOutbox

LEMMA BroadcastSettled ==
  ASSUME TypeOK, ServicesInv, SettledInv, NEW e \in Endpoints,
         NEW t \in Endpoints, NEW p \in Protocols, Broadcast(e, t, p)
  PROVE  SettledInv'
<1>1. UNCHANGED <<inboxes, router>>
  BY DEF Broadcast, serviceVars
<1>2. CASE UNCHANGED <<connVars, settled>>
  BY <1>1, <1>2 DEF connVars, SettledInv, SettledFeeds, Open
<1>3. CASE \E c \in Conns :
             /\ Reach(e, t, p, c)
             /\ life' = [d \in Conns |-> IF d \in OpenWith(c) THEN "open" ELSE "closed"]
  <2>1. PICK c \in Conns :
               /\ Reach(e, t, p, c)
               /\ life' = [d \in Conns |-> IF d \in OpenWith(c) THEN "open" ELSE "closed"]
    BY <1>3
  <2>2. \A d \in Conns : Open(d)' => d \in OpenWith(c)
    BY <2>1 DEF Open
  <2> QED  BY <1>1, <2>1, <2>2, ReachSettled
<1> QED  BY <1>2, <1>3 DEF Broadcast

LEMMA NextSettledInv == TypeOK /\ FeedInv /\ SettledInv /\ [Next]_vars => SettledInv'
<1> SUFFICES ASSUME TypeOK, FeedInv, SettledInv, [Next]_vars PROVE SettledInv'
  OBVIOUS
<1>1. ServicesInv
  BY DEF FeedInv
<1>2. CASE UNCHANGED vars
  BY <1>2 DEF vars, serviceVars, connVars, SettledInv, SettledFeeds, Open
<1>3. ASSUME NEW o \in Outboxes, Send(o) PROVE SettledInv'
  BY <1>3 DEF Send, serviceVars, connVars, SettledInv, SettledFeeds, Open
<1>4. ASSUME NEW o \in Outboxes, DropOutbox(o) PROVE SettledInv'
  BY <1>4 DEF DropOutbox, serviceVars, SettledInv, SettledFeeds, Open, CloseUnheld, OpenConns
<1>5. ASSUME NEW x \in streams, Receive(x) PROVE SettledInv'
  BY <1>5 DEF Receive, serviceVars, connVars, SettledInv, SettledFeeds, Open
<1> QED
  BY <1>1, <1>2, <1>3, <1>4, <1>5, RestartSettled, ShutSettled, HandleSettled, BreakSettled,
     OpenOutboxSettled, BroadcastSettled DEF Next

\* While the services of both ends stay as they were when a connection was
\* dialed, what is written on it at either end has a reader: the loop that
\* get_or_connect starts, or the accept() task that is about to.
THEOREM AlwaysServed == Spec => []SettledIsServed
<1>1. TypeOK /\ FeedInv /\ SettledInv => SettledIsServed
  <2> SUFFICES ASSUME TypeOK, FeedInv, SettledInv,
                      NEW x \in streams, x.conn \in settled, Registered(x)
               PROVE  HasReader(x)
    BY DEF SettledIsServed
  <2>1. x.conn \in Conns /\ x.to \in Ends
    BY DEF TypeOK
  <2>2. Open(x.conn) /\ x.at = PlaceOf(x.conn, x.to)
    BY DEF FeedInv, StreamsInv
  <2>3. SettledFeeds(x.conn)
    BY <2>1, <2>2 DEF SettledInv
  <2>4. CASE x.to = "dialer"
    BY <2>2, <2>3, <2>4 DEF SettledFeeds, HasReader, PlaceOf, Peer
  <2>5. CASE x.to = "acceptor"
    BY <2>2, <2>3, <2>5 DEF SettledFeeds, HasReader, PlaceOf, Peer
  <2> QED  BY <2>1, <2>4, <2>5 DEF Ends
<1>2. Spec => []SettledInv
  BY TypeCorrect, FeedCorrect, InitSettledInv, NextSettledInv, PTL DEF Spec
<1> QED  BY <1>1, <1>2, TypeCorrect, FeedCorrect, PTL

-----------------------------------------------------------------------------
(* A connection lives exactly as long as both of its ends have a handle.   *)

OpenIsHeld == \A c \in Conns : Open(c) => Held(c)

LEMMA InitOpenIsHeld == Init => OpenIsHeld
BY DEF Init, OpenIsHeld, Open

LEMMA HandlesStay ==
  ASSUME OpenIsHeld, UNCHANGED <<connVars, wire>>
  PROVE  OpenIsHeld'
<1>1. \A c, end : Holds(c, end) => Holds(c, end)'
  BY DEF connVars, Holds, Peer, PeerKey, OtherEnd
<1> QED  BY <1>1 DEF connVars, OpenIsHeld, Open, Held

LEMMA CloseUnheldHeld ==
  ASSUME NEW alive, CloseUnheld(alive)
  PROVE  OpenIsHeld'
BY DEF CloseUnheld, OpenIsHeld, Open

\* A clone that is kept is still one.
LEMMA HoldsStay ==
  ASSUME NEW c, NEW end, Holds(c, end), link'[c] = link[c], loop'[c] = loop[c],
         offered \subseteq offered',
         cache[Peer(c, end)][PeerKey(c, end)] = c => cache'[Peer(c, end)][PeerKey(c, end)] = c,
         \A o \in Outboxes : wire[o].kind = "channel" => wire'[o] = wire[o]
  PROVE  Holds(c, end)'
BY DEF Holds, Peer, PeerKey, OtherEnd

\* What Reach hands out is held at both ends, and so is what was open: an
\* entry that it overwrites was dead.
LEMMA ReachHeld ==
  ASSUME TypeOK, OpenIsHeld, NEW e \in Endpoints, NEW t \in Endpoints, NEW p,
         NEW c \in Conns, Reach(e, t, p, c),
         \A o \in Outboxes : wire[o].kind = "channel" => wire'[o] = wire[o],
         NEW d \in OpenWith(c)
  PROVE  Held(d)'
<1>1. p \in Services /\ d \in Conns
  BY DEF Reach, OpenWith, OpenConns
<1>2. CASE /\ Reusable(e, CacheKey(t, p)) /\ c = cache[e][CacheKey(t, p)]
           /\ UNCHANGED <<link, loop, offered, cache, settled>>
  <2>1. Open(d)
    BY <1>1, <1>2 DEF OpenWith, OpenConns, Reusable, Unused
  <2>2. \A end \in Ends : Holds(d, end)
    BY <1>1, <2>1 DEF OpenIsHeld, Held
  <2>3. \A end \in Ends : Holds(d, end)'
    BY <1>2, <2>2, HoldsStay
  <2> QED  BY <2>3 DEF Held
<1>3. CASE ~Reusable(e, CacheKey(t, p)) /\ Dial(e, t, p, c)
  <2>1. <<t, p>> \in Places
    BY <1>1 DEF Places
  <2>2. CASE d = c
    <3>1. link'[d] = [dialer |-> e, acceptor |-> t, service |-> p] /\ d \in offered'
      BY <1>3, <2>2 DEF Dial, TypeOK
    <3>2. cache'[e][<<t, p>>] = d
      BY <1>3, <2>1, <2>2 DEF Dial, CacheKey, TypeOK
    <3>3. Holds(d, "dialer")' /\ Holds(d, "acceptor")'
      BY <3>1, <3>2 DEF Holds, Peer, PeerKey, OtherEnd
    <3> QED  BY <3>3 DEF Held, Ends
  <2>3. CASE d # c
    <3>1. Open(d) /\ Held(d)
      BY <1>1, <2>3 DEF OpenWith, OpenConns, OpenIsHeld
    <3>2. link'[d] = link[d] /\ loop'[d] = loop[d] /\ offered \subseteq offered'
      BY <1>1, <1>3, <2>3 DEF Dial, TypeOK
    <3>3. ASSUME NEW f \in Endpoints, NEW k \in Places, cache[f][k] = d
          PROVE  cache'[f][k] = d
      <4>1. ~(f = e /\ k = <<t, p>>)
        BY <1>1, <1>3, <3>1, <3>3 DEF Reusable, OpenConns, CacheKey
      <4> QED  BY <1>3, <2>1, <3>3, <4>1 DEF Dial, CacheKey, TypeOK
    <3>4. \A end \in Ends : Peer(d, end) \in Endpoints /\ PeerKey(d, end) \in Places
      BY <1>1, LinkTypes DEF TypeOK, Peer, PeerKey, OtherEnd, Places
    <3>5. \A end \in Ends : Holds(d, end)'
      BY <3>1, <3>2, <3>3, <3>4, HoldsStay DEF Held
    <3> QED  BY <3>5 DEF Held
  <2> QED  BY <2>2, <2>3
<1> QED  BY <1>2, <1>3 DEF Reach

LEMMA BroadcastHeld ==
  ASSUME TypeOK, OpenIsHeld, NEW e \in Endpoints, NEW t \in Endpoints, NEW p \in Protocols,
         Broadcast(e, t, p)
  PROVE  OpenIsHeld'
<1>1. wire' = wire
  BY DEF Broadcast
<1>2. CASE UNCHANGED connVars
  BY <1>1, <1>2, HandlesStay
<1>3. CASE \E c \in Conns :
             /\ Reach(e, t, p, c)
             /\ life' = [d \in Conns |-> IF d \in OpenWith(c) THEN "open" ELSE "closed"]
  <2>1. PICK c \in Conns :
               /\ Reach(e, t, p, c)
               /\ life' = [d \in Conns |-> IF d \in OpenWith(c) THEN "open" ELSE "closed"]
    BY <1>3
  <2>2. \A d \in OpenWith(c) : Held(d)'
    BY <1>1, <2>1, ReachHeld
  <2> QED  BY <2>1, <2>2 DEF OpenIsHeld, Open
<1> QED  BY <1>2, <1>3 DEF Broadcast

\* Opening an outbox: what it holds is a connection that stays open.
LEMMA OpenOutboxHeals ==
  ASSUME TypeOK, FeedInv, OpenIsHeld, NEW o \in Outboxes, NEW e \in Endpoints,
         NEW t \in Endpoints, NEW p \in Protocols, OpenOutbox(o, e, t, p)
  PROVE  /\ OpenIsHeld'
         /\ \A q \in Outboxes : wire[q] = NoWire /\ wire'[q].kind = "channel" =>
              life'[wire'[q].conn] = "open"
<1>1. wire[o] = NoWire
  BY DEF OpenOutbox
<1>2. CASE /\ UNCHANGED connVars
           /\ wire' = [wire EXCEPT ![o] = [kind |-> "loopback", of |-> e, at |-> <<t, Norm[p]>>,
                                           inbox |-> inboxes[e][Norm[p]]]]
  <2>1. \A q \in Outboxes : wire[q].kind = "channel" => wire'[q] = wire[q]
    BY <1>1, <1>2 DEF TypeOK, NoWire
  <2>2. \A c, end : Holds(c, end) => Holds(c, end)'
    BY <1>2, <2>1, HoldsStay DEF connVars
  <2>3. OpenIsHeld'
    BY <1>2, <2>2 DEF connVars, OpenIsHeld, Open, Held
  <2>4. \A q \in Outboxes : wire[q] = NoWire => wire'[q].kind # "channel"
    BY <1>2 DEF TypeOK, NoWire
  <2> QED  BY <2>3, <2>4
<1>3. CASE \E c \in Conns :
             /\ Reach(e, t, p, c)
             /\ wire' = [wire EXCEPT ![o] = [kind |-> "channel", of |-> e, at |-> <<t, p>>, conn |-> c]]
             /\ CloseUnheld(OpenWith(c))
  <2>1. PICK c \in Conns :
             /\ Reach(e, t, p, c)
             /\ wire' = [wire EXCEPT ![o] = [kind |-> "channel", of |-> e, at |-> <<t, p>>, conn |-> c]]
             /\ CloseUnheld(OpenWith(c))
    BY <1>3
  <2>2. \A q \in Outboxes : wire[q].kind = "channel" => wire'[q] = wire[q]
    BY <1>1, <2>1 DEF TypeOK, NoWire
  <2>3. c \in OpenWith(c)
    BY <1>1, <2>1 DEF Reach, Reusable, OpenWith, OpenConns, Dial
  <2>4. Held(c)'
    BY <2>1, <2>2, <2>3, ReachHeld
  <2>5. life'[c] = "open"
    BY <2>1, <2>3, <2>4 DEF CloseUnheld
  <2>6. OpenIsHeld'
    BY <2>1, CloseUnheldHeld
  <2>7. \A q \in Outboxes : wire[q] = NoWire /\ wire'[q].kind = "channel" => wire'[q].conn = c
    BY <2>1 DEF TypeOK, NoWire
  <2> QED  BY <2>5, <2>6, <2>7
<1> QED  BY <1>2, <1>3 DEF OpenOutbox

\* No other step gives a handle that has no outbox a channel.
LEMMA NextHeals ==
  ASSUME TypeOK, FeedInv, OpenIsHeld, [Next]_vars
  PROVE  /\ OpenIsHeld'
         /\ \A o \in Outboxes : wire[o] = NoWire /\ wire'[o].kind = "channel" =>
              life'[wire'[o].conn] = "open"
<1>1. NoWire.kind # "channel"
  BY DEF NoWire
<1>2. CASE \E o \in Outboxes, e, t \in Endpoints, p \in Protocols : OpenOutbox(o, e, t, p)
  BY <1>2, OpenOutboxHeals
<1>3. CASE wire' = wire /\ \E alive : CloseUnheld(alive)
  BY <1>1, <1>3, CloseUnheldHeld
<1>4. CASE UNCHANGED <<connVars, wire>>
  BY <1>1, <1>4, HandlesStay
<1>5. ASSUME NEW o \in Outboxes, DropOutbox(o)
      PROVE  OpenIsHeld' /\ \A q \in Outboxes : wire'[q] \in {wire[q], NoWire}
  <2>1. \A q \in Outboxes : wire'[q] \in {wire[q], NoWire}
    BY <1>5 DEF DropOutbox, TypeOK
  <2> QED  BY <1>5, <2>1, CloseUnheldHeld DEF DropOutbox
<1>6. ASSUME NEW e \in Endpoints, NEW t \in Endpoints, NEW p \in Protocols, Broadcast(e, t, p)
      PROVE  OpenIsHeld' /\ wire' = wire
  BY <1>6, BroadcastHeld DEF Broadcast
<1>7. ASSUME NEW e \in Endpoints,
             Shut(e) \/ \E p \in Protocols : Register(e, p) \/ Remove(e, p)
      PROVE  wire' = wire /\ \E alive : CloseUnheld(alive)
  BY <1>7 DEF Shut, Register, Remove, Restart
<1>8. ASSUME NEW c \in Conns, Handle(c) \/ Break(c)
      PROVE  wire' = wire /\ \E alive : CloseUnheld(alive)
  BY <1>8 DEF Handle, Break
<1>9. ASSUME NEW o \in Outboxes, Send(o)
      PROVE  UNCHANGED <<connVars, wire>>
  BY <1>9 DEF Send
<1>10. ASSUME NEW x \in streams, Receive(x)
       PROVE  UNCHANGED <<connVars, wire>>
  BY <1>10 DEF Receive
<1>11. CASE UNCHANGED vars
  BY <1>4, <1>11 DEF vars
<1> QED
  BY <1>1, <1>2, <1>3, <1>4, <1>5, <1>6, <1>7, <1>8, <1>9, <1>10, <1>11 DEF Next

\* connect_outbox() gives a connection that is open: one of the cache is
\* used only while close_reason() says so, and one that is dialed anew is
\* held by the outbox here and by the accept() task there.
THEOREM ReopenAlwaysHeals == Spec => ReopenHeals
<1>1. TypeOK /\ FeedInv /\ OpenIsHeld /\ [Next]_vars => OpenIsHeld'
  BY NextHeals
<1>2. Spec => []OpenIsHeld
  BY <1>1, TypeCorrect, FeedCorrect, InitOpenIsHeld, PTL DEF Spec
<1>3. TypeOK /\ FeedInv /\ OpenIsHeld /\ [Next]_vars =>
        [\A o \in Outboxes :
           wire[o] = NoWire /\ wire'[o].kind = "channel" => life'[wire'[o].conn] = "open"]_vars
  BY NextHeals
<1> QED  BY <1>2, <1>3, TypeCorrect, FeedCorrect, PTL DEF Spec, ReopenHeals

=============================================================================
