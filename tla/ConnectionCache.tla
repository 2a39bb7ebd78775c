-------------------------- MODULE ConnectionCache --------------------------
(***************************************************************************)
(* The connection cache of IrohEndpoint (src/iroh/endpoint.rs): callers of *)
(* open_addr_cached and get_or_connect, the handlers of inbound            *)
(* connections (InboxProtocolHandler::accept) that share the cache with    *)
(* them, router reloads, and close().                                      *)
(*                                                                         *)
(* A key is a pair (endpoint_id, protocol).  A critical section of the     *)
(* cache's mutex is one step; between two of them, and at every await,     *)
(* other tasks run and connections die.  The handles of a connection that  *)
(* has died and is used nowhere stand for a later connection again.        *)
(***************************************************************************)
EXTENDS Naturals, Sequences

CONSTANTS
  Keys,      \* cache keys
  DialIn,    \* the keys whose peer may also connect to this endpoint
  Prompt,    \* the keys whose peer lets connect() end; others may hang
  Callers,   \* tasks that send
  Conns,     \* connections
  NoConn     \* no connection

ASSUME KeySets == Keys # {} /\ DialIn \subseteq Keys /\ Prompt \subseteq Keys
ASSUME NoConnIsNone == NoConn \notin Conns

VARIABLES
  cache,     \* connection_cache
  queue,     \* connect_locks: who holds (the head) or awaits each lock
  pc,        \* where each caller is
  key,       \* its cache_key
  opens,     \* it is in open_addr_cached, not in get_or_connect
  held,      \* its local connection
  life,      \* "open", or "closed" (close_reason() is set)
  keyOf,     \* the key of each connection
  handler,   \* the accept() task of an inbound connection
  drained,   \* what close() took from the cache
  phase      \* how far close() is

callVars == <<queue, pc, key, opens, held>>
connVars == <<life, keyOf>>
vars == <<cache, callVars, connVars, handler, drained, phase>>

Points == {"idle", "look", "probe", "evict", "queue", "wait", "dial", "open", "insert"}

\* Types, and which points of a caller have a connection in hand.
TypeOK ==
  /\ cache \in [Keys -> Conns \cup {NoConn}]
  /\ queue \in [Keys -> Seq(Callers)]
  /\ pc \in [Callers -> Points]
  /\ key \in [Callers -> Keys]
  /\ opens \in [Callers -> BOOLEAN]
  /\ held \in [Callers -> Conns \cup {NoConn}]
  /\ life \in [Conns -> {"open", "closed"}]
  /\ keyOf \in [Conns -> Keys]
  /\ handler \in [Conns -> {"none", "started", "looping"}]
  /\ drained \subseteq Conns
  /\ phase \in {"up", "drained", "emptied", "closed", "down"}
  /\ \A p \in Callers : held[p] # NoConn <=> pc[p] \in {"probe", "evict", "open", "insert"}

Init ==
  /\ cache = [k \in Keys |-> NoConn]
  /\ queue = [k \in Keys |-> <<>>]
  /\ pc = [p \in Callers |-> "idle"]
  /\ key \in [Callers -> {CHOOSE k \in Keys : TRUE}]
  /\ opens = [p \in Callers |-> FALSE]
  /\ held = [p \in Callers |-> NoConn]
  /\ life = [c \in Conns |-> "closed"]
  /\ keyOf \in [Conns -> {CHOOSE k \in Keys : TRUE}]
  /\ handler = [c \in Conns |-> "none"]
  /\ drained = {}
  /\ phase = "up"

-----------------------------------------------------------------------------
(* The cache and the locks.                                                *)

Closed(c) == life[c] = "closed"

\* Mutant: a blind remove(key).
EvictAnyway(k) == [cache EXCEPT ![k] = NoConn]

\* evict_if_closed looks at the entry again, under the lock.
EvictIfClosed(k) ==
  IF cache[k] # NoConn /\ Closed(cache[k]) THEN [cache EXCEPT ![k] = NoConn] ELSE cache

\* Mutant: one lock for all peers.
OneLock(k) == CHOOSE j \in Keys : TRUE

\* The entry of connect_locks: a fair mutex of its own for every key.
LockOf(k) == k

Waiters(p) == queue[LockOf(key[p])]
InQueue(p) == \E i \in 1 .. Len(Waiters(p)) : Waiters(p)[i] = p
HasLock(p) == Waiters(p) # <<>> /\ Head(Waiters(p)) = p

Without(s, i) == [j \in 1 .. Len(s) - 1 |-> IF j < i THEN s[j] ELSE s[j + 1]]

\* The guard is dropped, or the wait for it given up, if there is one.
Unqueued(p) ==
  \/ /\ ~InQueue(p)
     /\ UNCHANGED queue
  \/ \E i \in 1 .. Len(Waiters(p)) :
       /\ Waiters(p)[i] = p
       /\ queue' = [queue EXCEPT ![LockOf(key[p])] = Without(@, i)]

Goes(p, point, c) ==
  /\ pc' = [pc EXCEPT ![p] = point]
  /\ held' = [held EXCEPT ![p] = c]

\* Return from the call, with a channel, a connection or an error.
Returns(p) == Goes(p, "idle", NoConn) /\ Unqueued(p)

\* Mutant: the dead connection is kept for later.
MissesHolding(p) == Goes(p, IF InQueue(p) THEN "dial" ELSE "queue", held[p])

\* The fast path goes on to the lock, the check under the lock to connect().
Misses(p) == Goes(p, IF InQueue(p) THEN "dial" ELSE "queue", NoConn)

-----------------------------------------------------------------------------
(* open_addr_cached and get_or_connect.                                    *)

\* close() takes &mut self: it excludes calls while it runs.
Call(p) ==
  /\ pc[p] = "idle" /\ phase \in {"up", "down"}
  /\ \E k \in Keys, b \in BOOLEAN :
       /\ key' = [key EXCEPT ![p] = k]
       /\ opens' = [opens EXCEPT ![p] = b]
  /\ Goes(p, "look", NoConn)
  /\ UNCHANGED <<cache, queue, connVars, handler, drained, phase>>

Look(p) ==
  /\ pc[p] = "look"
  /\ LET c == cache[key[p]] IN IF c = NoConn THEN Misses(p) ELSE Goes(p, "probe", c)
  /\ UNCHANGED <<cache, queue, key, opens, connVars, handler, drained, phase>>

\* close_reason() is unset and, in open_addr_cached, open_bi() succeeds.
Reuse(p) ==
  /\ pc[p] = "probe" /\ ~Closed(held[p])
  /\ Returns(p)
  /\ UNCHANGED <<cache, key, opens, connVars, handler, drained, phase>>

FindStale(p) ==
  /\ pc[p] = "probe" /\ Closed(held[p])
  /\ Goes(p, "evict", held[p])
  /\ UNCHANGED <<cache, queue, key, opens, connVars, handler, drained, phase>>

Evict(p) ==
  /\ pc[p] = "evict"
  /\ cache' = EvictIfClosed(key[p])
  /\ Misses(p)
  /\ UNCHANGED <<queue, key, opens, connVars, handler, drained, phase>>

Enqueue(p) ==
  /\ pc[p] = "queue"
  /\ queue' = [queue EXCEPT ![LockOf(key[p])] = Append(@, p)]
  /\ Goes(p, "wait", NoConn)
  /\ UNCHANGED <<cache, key, opens, connVars, handler, drained, phase>>

Lock(p) ==
  /\ pc[p] = "wait" /\ HasLock(p)
  /\ Goes(p, "look", NoConn)
  /\ UNCHANGED <<cache, queue, key, opens, connVars, handler, drained, phase>>

\* No task and no map refers to this closed connection any more.
Unused(c) ==
  /\ Closed(c) /\ handler[c] = "none" /\ c \notin drained
  /\ \A k \in Keys : cache[k] # c
  /\ \A p \in Callers : held[p] # c

Connected(c, k) ==
  /\ life' = [life EXCEPT ![c] = "open"]
  /\ keyOf' = [keyOf EXCEPT ![c] = k]

\* connect() succeeds.
Dial(p) ==
  /\ pc[p] = "dial" /\ phase = "up"
  /\ \E c \in Conns :
       /\ Unused(c)
       /\ Connected(c, key[p])
       /\ Goes(p, IF opens[p] THEN "open" ELSE "insert", c)
  /\ UNCHANGED <<cache, queue, key, opens, handler, drained, phase>>

DialFails(p) ==
  /\ pc[p] = "dial"
  /\ Returns(p)
  /\ UNCHANGED <<cache, key, opens, connVars, handler, drained, phase>>

\* open_bi() on the fresh connection, before it is cached.
OpenFirst(p) ==
  /\ pc[p] = "open"
  /\ IF Closed(held[p])
     THEN Returns(p)
     ELSE Goes(p, "insert", held[p]) /\ UNCHANGED queue
  /\ UNCHANGED <<cache, key, opens, connVars, handler, drained, phase>>

Insert(p) ==
  /\ pc[p] = "insert"
  /\ cache' = [cache EXCEPT ![key[p]] = held[p]]
  /\ Returns(p)
  /\ UNCHANGED <<key, opens, connVars, handler, drained, phase>>

\* The caller drops the future at an await; a connection that only the
\* future holds is closed with it.
Cancel(p) ==
  /\ pc[p] \in {"wait", "dial", "open"} \/ (pc[p] = "probe" /\ opens[p])
  /\ life' = IF pc[p] = "open" THEN [life EXCEPT ![held[p]] = "closed"] ELSE life
  /\ Returns(p)
  /\ UNCHANGED <<cache, key, opens, keyOf, handler, drained, phase>>

-----------------------------------------------------------------------------
(* Connections that come in, and connections that end.                     *)

Accept(c, k) ==
  /\ phase \in {"up", "drained", "emptied"} /\ Unused(c)
  /\ Connected(c, k)
  /\ handler' = [handler EXCEPT ![c] = "started"]
  /\ UNCHANGED <<cache, callVars, drained, phase>>

\* accept() caches the connection for replies and begins its loop.
HandlerInserts(c) ==
  /\ handler[c] = "started"
  /\ cache' = [cache EXCEPT ![keyOf[c]] = c]
  /\ handler' = [handler EXCEPT ![c] = "looping"]
  /\ UNCHANGED <<callVars, connVars, drained, phase>>

\* Mutant: the entry stays.
KeepEntry(k) == cache

\* The end of accept(): remove(&cache_key), whatever the entry is.
Removed(k) == [cache EXCEPT ![k] = NoConn]

HandlerEnds(c) ==
  /\ handler[c] = "looping" /\ Closed(c)
  /\ cache' = Removed(keyOf[c])
  /\ handler' = [handler EXCEPT ![c] = "none"]
  /\ UNCHANGED <<callVars, connVars, drained, phase>>

\* The peer closes the connection, or it times out.
Dies(c) ==
  /\ life[c] = "open"
  /\ life' = [life EXCEPT ![c] = "closed"]
  /\ UNCHANGED <<cache, callVars, keyOf, handler, drained, phase>>

NoCalls == \A p \in Callers : pc[p] = "idle"

\* service() and remove_service() replace the router: the old one and the
\* accept() tasks that it runs are dropped where they are.
Reload ==
  /\ phase = "up" /\ NoCalls
  /\ handler' = [c \in Conns |-> "none"]
  /\ UNCHANGED <<cache, callVars, connVars, drained, phase>>

-----------------------------------------------------------------------------
(* close().                                                                *)

Drain ==
  /\ phase = "up" /\ NoCalls
  /\ drained' = {cache[k] : k \in Keys} \ {NoConn}
  /\ cache' = [k \in Keys |-> NoConn]
  /\ phase' = "drained"
  /\ UNCHANGED <<callVars, connVars, handler>>

CloseDrained ==
  /\ phase = "drained"
  /\ life' = [c \in Conns |-> IF c \in drained THEN "closed" ELSE life[c]]
  /\ drained' = {}
  /\ phase' = "emptied"
  /\ UNCHANGED <<cache, callVars, keyOf, handler>>

\* Mutant: the router is shut down while connections are still open.
CloseNothing == life

\* endpoint.close() closes what is left, inbound connections included.
CloseAll == [c \in Conns |-> "closed"]

CloseEndpoint ==
  /\ phase = "emptied"
  /\ life' = CloseAll
  /\ phase' = "closed"
  /\ UNCHANGED <<cache, callVars, keyOf, handler, drained>>

\* router.shutdown() waits for the accept() tasks.
Shutdown ==
  /\ phase = "closed"
  /\ \A c \in Conns : handler[c] = "none"
  /\ phase' = "down"
  /\ UNCHANGED <<cache, callVars, connVars, handler, drained>>

-----------------------------------------------------------------------------

\* What a caller does without the help of the peer.
CallerRuns(p) ==
  \/ Look(p) \/ Reuse(p) \/ FindStale(p) \/ Evict(p)
  \/ Enqueue(p) \/ Lock(p) \/ OpenFirst(p) \/ Insert(p)

DialEnds(p) == Dial(p) \/ DialFails(p)
HandlerRuns(c) == HandlerInserts(c) \/ HandlerEnds(c)
Closing == CloseDrained \/ CloseEndpoint \/ Shutdown

Next ==
  \/ \E p \in Callers : Call(p) \/ CallerRuns(p) \/ DialEnds(p) \/ Cancel(p)
  \/ \E c \in Conns : HandlerRuns(c) \/ Dies(c) \/ \E k \in DialIn : Accept(c, k)
  \/ Reload \/ Drain \/ Closing

Spec == Init /\ [][Next]_vars

\* Tokio keeps polling tasks that can run; the tokio mutex is fair.  connect()
\* has no timeout: it ends only if the peer is prompt.  Nobody has to call or
\* to cancel, and no connection has to die.
Fairness ==
  /\ \A p \in Callers :
       /\ WF_vars(CallerRuns(p))
       /\ WF_vars(key[p] \in Prompt /\ DialEnds(p))
  /\ \A c \in Conns : WF_vars(HandlerRuns(c))
  /\ WF_vars(Closing)

FairSpec == Spec /\ Fairness

-----------------------------------------------------------------------------
(* Properties.                                                             *)

\* A caller that finds its connection dead never evicts one that is alive:
\* between its look and its eviction others may have replaced the entry.
\* Live entries are removed by close() and by the end of an accept() only.
SendersEvictOnlyStale ==
  [][\A k \in Keys :
       cache[k] # NoConn /\ ~Closed(cache[k]) /\ cache'[k] = NoConn
         => handler' # handler \/ phase' # phase]_vars

\* endpoint.rs:368-371: a "blind `remove(key)` would then delete that fresh
\* connection"; the cache loses a connection that is open only in close().
OnlyStaleIsEvicted ==
  [][\A k \in Keys :
       cache[k] # NoConn /\ ~Closed(cache[k]) /\ cache'[k] = NoConn
         => phase' # phase]_vars

\* However many callers send to a peer that does not connect to us, at most
\* one connection to it is open: calls that overlap share it, it is never
\* forgotten while it lives, and no call that is given up leaves one behind.
SharedConnection ==
  \A c, d \in Conns :
    life[c] = "open" /\ life[d] = "open" /\ keyOf[c] = keyOf[d] /\ keyOf[c] \notin DialIn
      => c = d

\* endpoint.rs:416-417: "a hung connect() to one peer can never block
\* connections to a different peer": a call for a prompt peer ends.
CallersReturn ==
  \A p \in Callers : pc[p] # "idle" /\ key[p] \in Prompt ~> pc[p] = "idle"

\* endpoint.rs:474-479: close() does not wait forever for an accept() task
\* that waits for the next stream of its connection.
CloseReturns == phase = "drained" ~> phase = "down"

\* When close() has returned, the cache is empty, also of connections that
\* came in and were cached after close() had drained it.
ClosedIsEmpty == phase = "down" => \A k \in Keys : cache[k] = NoConn

=============================================================================
