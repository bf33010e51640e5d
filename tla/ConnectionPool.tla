--------------------------- MODULE ConnectionPool ---------------------------
(***************************************************************************)
(* The overlay of one node: network/connection_pool.{h,cc} with the two    *)
(* RPC handlers of network/distfs_service.cc that call it.  One worker     *)
(* thread pings its connections, exchanges peers with them, fills free     *)
(* places from the candidates (expand) and trades its poorest connections  *)
(* for richer ones (explore); handler threads serve the other nodes.       *)
(*                                                                         *)
(* There are two mutexes.  The worker holds them across RPCs; a handler    *)
(* takes them one after the other, and what it does under one is a step,   *)
(* except for a peer exchange, which pushes a list of any length.          *)
(*                                                                         *)
(* Other nodes are the environment: an RPC returns any answer, or fails    *)
(* (its deadline passed, no connection, another fs_id).  A call of an own  *)
(* url is served by a handler of this very node.  Of time only this is     *)
(* kept, that a connection may or may not be due at any ping.  What a      *)
(* connection advertises is a set of chunks, its last_info and last_pex    *)
(* are left out, and so are the requests and replies, which no state of    *)
(* this node depends on.                                                   *)
(***************************************************************************)
EXTENDS OrderedSet, FiniteSets, SequencesExt

CONSTANTS
  Urls,             \* the addresses that peers are known by
  OwnUrls,          \* those that lead to this node
  Bootstrap,        \* the url the metadata came from, or None
  Nodes,            \* the ids of the other nodes
  Self,             \* node_id
  Chunks,           \* chunk ids
  Worker, Handlers, \* the threads
  ConnectionLimit,  \* active_connections_limit
  CandidateLimit,   \* the limit of peer_candidates
  ExpandTurns, ExploreTurns,   \* how many candidates a round tries: 5 and 10
  None

ASSUME UrlsAssumption == OwnUrls \subseteq Urls /\ Bootstrap \in (Urls \ OwnUrls) \cup {None}
ASSUME NodesAssumption == Self \notin Nodes /\ Nodes # {}
ASSUME ChunksAssumption == IsFiniteSet(Chunks)
ASSUME ThreadsAssumption == Worker \notin Handlers
ASSUME LimitAssumption == ConnectionLimit \in Nat \ {0} /\ CandidateLimit \in Nat \ {0}
ASSUME TurnsAssumption == ExpandTurns \in Nat /\ ExploreTurns \in Nat
ASSUME NoneAssumption ==
  None \notin Urls \cup Nodes \cup {Self} \cup Handlers \cup {Worker, "served"}
ASSUME ServedAssumption == "served" \notin Handlers

VARIABLES
  connections,  \* connections: the list, poorest first
  active,       \* active_peers: the urls of the connections
  candidates,   \* peer_candidates
  connOwner,    \* the thread that holds connections_mutex
  peerOwner,    \* the thread that holds peer_list_mutex
  pc,           \* where the worker is
  it,           \* the iterator of worker_get_info and worker_get_pex
  turn,         \* the counter of worker_expand and worker_explore
  least,        \* min_chunks of worker_explore
  fresh,        \* the connection being made
  serving,      \* where each handler is
  call,         \* call[h]: who calls h, and what it advertises
  loop          \* the handler that serves this node's call of itself

locks == <<connOwner, peerOwner>>
handlers == <<serving, call>>
vars == <<connections, active, candidates, connOwner, peerOwner, pc, it, turn,
          least, fresh, serving, call, loop>>

Connection == [url : Urls, node : Nodes \cup {Self, None}, has : SUBSET Chunks]
NoConnection == [url |-> None, node |-> None, has |-> {}]

Calling == {"infoCall", "pexCall", "expandCall", "exploreCall"}
WorkerLabel ==
  {"sleep", "infoEach", "infoDrop", "pex", "pexPeers", "pexEach", "pexTake",
   "expand", "expandEach", "expandAdd", "expandMark", "explore",
   "explorePeers", "exploreEach", "exploreSwap", "exploreMark", "dead"} \cup Calling
HandlerLabel == {"idle", "info", "update", "pex", "take"}

TypeOK ==
  /\ connections \in Seq(Connection)
  /\ active \in SUBSET Urls
  /\ candidates \in Seq(Urls)
  /\ Ordered(candidates, CandidateLimit)
  /\ connOwner \in Handlers \cup {Worker, None}
  /\ peerOwner \in Handlers \cup {Worker, None}
  /\ pc \in WorkerLabel
  /\ it \in Nat
  /\ turn \in 0..(ExpandTurns + ExploreTurns)
  /\ least \in Nat
  /\ fresh \in Connection \cup {NoConnection}
  /\ serving \in [Handlers -> HandlerLabel]
  /\ call \in [Handlers -> Connection \cup {NoConnection}]
  /\ loop \in Handlers \cup {"served", None}

(* The constructor, lines 9-23: what the bootstrap peer has is not known.  *)
Init ==
  /\ IF Bootstrap = None
     THEN connections = << >> /\ active = {}
     ELSE /\ \E n \in Nodes :
               connections = <<[url |-> Bootstrap, node |-> n, has |-> {}]>>
          /\ active = {Bootstrap}
  /\ candidates = << >>
  /\ connOwner = None
  /\ peerOwner = None
  /\ pc = "sleep"
  /\ it = 0
  /\ turn = 0
  /\ least = 0
  /\ fresh = NoConnection
  /\ serving = [h \in Handlers |-> "idle"]
  /\ call = [h \in Handlers |-> NoConnection]
  /\ loop = None
----------------------------------------------------------------------------
Count(c) == Cardinality(c.has)

(* connections.sort() with operator<, which keeps equals in their order.   *)
Sortings(list) ==
  LET at == DOMAIN list
      Before(j, k) == \/ Count(list[j]) < Count(list[k])
                      \/ Count(list[j]) = Count(list[k]) /\ j < k
  IN  {[k \in at |-> list[p[k]]] :
         p \in {q \in Bijection(at, at) :
                  \A j, k \in at : j < k => Before(q[j], q[k])}}

(* The urls of a list of connections.                                      *)
UrlsOf(list) == {list[k].url : k \in DOMAIN list}

(* Mutant: the test of active_peers is missing.                            *)
HeardAnyway(u) == candidates' = Pushed(candidates, u, CandidateLimit)

(* A url is a candidate unless it is connected, or was when it was heard.  *)
Heard(u) ==
  candidates' = IF u \in active THEN candidates
                                ELSE Pushed(candidates, u, CandidateLimit)

Due == connections[it]

(* An answer of a url: another node may be anyone, while this node answers *)
(* only once its handler has returned.                                     *)
Answers(u) == IF u \in OwnUrls THEN {n \in {Self} : loop = "served"} ELSE Nodes

Goto(label) == pc' = label
----------------------------------------------------------------------------
(* worker_get_info, lines 85-118, under connections_mutex.                 *)
InfoLock ==
  /\ pc = "sleep"
  /\ connOwner = None
  /\ connOwner' = Worker
  /\ it' = 1
  /\ Goto("infoEach")
  /\ UNCHANGED <<connections, active, candidates, peerOwner, turn, least, fresh,
                 handlers, loop>>

(* Line 98: the connection is due, or not.                                 *)
InfoCall ==
  /\ pc = "infoEach"
  /\ it <= Len(connections)
  /\ Goto("infoCall")
  /\ UNCHANGED <<connections, active, candidates, locks, it, turn, least, fresh,
                 handlers, loop>>

InfoSkip ==
  /\ pc = "infoEach"
  /\ it <= Len(connections)
  /\ it' = it + 1
  /\ UNCHANGED <<connections, active, candidates, locks, pc, turn, least, fresh,
                 handlers, loop>>

InfoAnswered ==
  /\ pc = "infoCall"
  /\ Answers(Due.url) # {}
  /\ \E has \in SUBSET Chunks :
       connections' = [connections EXCEPT ![it].has = has]
  /\ it' = it + 1
  /\ loop' = None
  /\ Goto("infoEach")
  /\ UNCHANGED <<active, candidates, locks, turn, least, fresh, handlers>>

(* Mutant: line 110 is missing.                                            *)
InfoRefusedKept ==
  /\ pc = "infoCall"
  /\ loop' = None
  /\ Goto("infoDrop")
  /\ UNCHANGED <<connections, active, candidates, locks, it, turn, least, fresh,
                 handlers>>

(* Mutant: it is tried again at once.                                      *)
InfoRefusedRetries ==
  /\ pc = "infoCall"
  /\ loop' = None
  /\ Goto("infoEach")
  /\ UNCHANGED <<connections, active, candidates, locks, it, turn, least, fresh,
                 handlers>>

(* Lines 109-110: active_peers is changed without its mutex, so that a     *)
(* handler may run before ...                                              *)
InfoRefused ==
  /\ pc = "infoCall"
  /\ active' = active \ {Due.url}
  /\ loop' = None
  /\ Goto("infoDrop")
  /\ UNCHANGED <<connections, candidates, locks, it, turn, least, fresh, handlers>>

(* ... line 111.                                                           *)
InfoDrop ==
  /\ pc = "infoDrop"
  /\ connections' = RemoveAt(connections, it)
  /\ Goto("infoEach")
  /\ UNCHANGED <<active, candidates, locks, it, turn, least, fresh, handlers, loop>>

InfoEnd ==
  /\ pc = "infoEach"
  /\ it > Len(connections)
  /\ connections' \in Sortings(connections)
  /\ connOwner' = None
  /\ it' = 0
  /\ Goto("pex")
  /\ UNCHANGED <<active, candidates, peerOwner, turn, least, fresh, handlers, loop>>

(* worker_get_pex, lines 120-161, under both.                              *)
PexConnLock ==
  /\ pc = "pex"
  /\ connOwner = None
  /\ connOwner' = Worker
  /\ Goto("pexPeers")
  /\ UNCHANGED <<connections, active, candidates, peerOwner, it, turn, least, fresh,
                 handlers, loop>>

PexPeerLock ==
  /\ pc = "pexPeers"
  /\ peerOwner = None
  /\ peerOwner' = Worker
  /\ it' = 1
  /\ Goto("pexEach")
  /\ UNCHANGED <<connections, active, candidates, connOwner, turn, least, fresh,
                 handlers, loop>>

PexCall ==
  /\ pc = "pexEach"
  /\ it <= Len(connections)
  /\ Goto("pexCall")
  /\ UNCHANGED <<connections, active, candidates, locks, it, turn, least, fresh,
                 handlers, loop>>

PexSkip ==
  /\ pc = "pexEach"
  /\ it <= Len(connections)
  /\ it' = it + 1
  /\ UNCHANGED <<connections, active, candidates, locks, pc, turn, least, fresh,
                 handlers, loop>>

(* Lines 142-147: the peers of the answer, one after the other.            *)
PexAnswered ==
  /\ pc = "pexCall"
  /\ Answers(Due.url) # {}
  /\ loop' = None
  /\ Goto("pexTake")
  /\ UNCHANGED <<connections, active, candidates, locks, it, turn, least, fresh, handlers>>

PexTake ==
  /\ pc = "pexTake"
  /\ \E u \in Urls : Heard(u)
  /\ UNCHANGED <<connections, active, locks, pc, it, turn, least, fresh, handlers, loop>>

PexNext ==
  /\ pc = "pexTake"
  /\ it' = it + 1
  /\ Goto("pexEach")
  /\ UNCHANGED <<connections, active, candidates, locks, turn, least, fresh, handlers, loop>>

(* Lines 151-154, with both mutexes.                                       *)
PexRefused ==
  /\ pc = "pexCall"
  /\ active' = active \ {Due.url}
  /\ connections' = RemoveAt(connections, it)
  /\ loop' = None
  /\ Goto("pexEach")
  /\ UNCHANGED <<candidates, locks, it, turn, least, fresh, handlers>>

PexEnd ==
  /\ pc = "pexEach"
  /\ it > Len(connections)
  /\ connections' \in Sortings(connections)
  /\ connOwner' = None
  /\ peerOwner' = None
  /\ it' = 0
  /\ Goto("expand")
  /\ UNCHANGED <<active, candidates, turn, least, fresh, handlers, loop>>
----------------------------------------------------------------------------
(* worker_expand, lines 163-208, under peer_list_mutex.                    *)
ExpandLock ==
  /\ pc = "expand"
  /\ peerOwner = None
  /\ peerOwner' = Worker
  /\ Goto("expandEach")
  /\ UNCHANGED <<connections, active, candidates, connOwner, it, turn, least, fresh,
                 handlers, loop>>

(* Mutant: the limit is not tested for every candidate.                    *)
MayExpandOnce ==
  /\ turn < ExpandTurns /\ candidates # << >>
  /\ turn = 0 => Cardinality(active) < ConnectionLimit

MayExpand ==
  turn < ExpandTurns /\ Cardinality(active) < ConnectionLimit /\ candidates # << >>

(* The oldest candidate is called.                                         *)
Pop ==
  /\ fresh' = [url |-> Head(candidates), node |-> None, has |-> {}]
  /\ candidates' = Tail(candidates)
  /\ turn' = turn + 1

(* Mutant: the mutex is released for the call.                             *)
ExpandPopUnlocked ==
  /\ pc = "expandEach"
  /\ MayExpand
  /\ Pop
  /\ peerOwner' = None
  /\ Goto("expandCall")
  /\ UNCHANGED <<connections, active, connOwner, it, least, handlers, loop>>

ExpandPop ==
  /\ pc = "expandEach"
  /\ MayExpand
  /\ Pop
  /\ Goto("expandCall")
  /\ UNCHANGED <<connections, active, locks, it, least, handlers, loop>>

(* Lines 169-173 and 184-187.                                              *)
ExpandRefused ==
  /\ pc = "expandCall"
  /\ fresh' = NoConnection
  /\ loop' = None
  /\ Goto("expandEach")
  /\ UNCHANGED <<connections, active, candidates, locks, it, turn, least, handlers>>

(* Lines 188-190 only report a loop.                                       *)
Answered(has) ==
  \E n \in Answers(fresh.url) : fresh' = [fresh EXCEPT !.node = n, !.has = has]

ExpandAnswered ==
  /\ pc = "expandCall"
  /\ \E has \in SUBSET Chunks : Answered(has)
  /\ loop' = None
  /\ Goto("expandAdd")
  /\ UNCHANGED <<connections, active, candidates, locks, it, turn, least, handlers>>

ExpandAdd ==
  /\ pc = "expandAdd"
  /\ connOwner = None
  /\ connections' \in Sortings(Append(connections, fresh))
  /\ Goto("expandMark")
  /\ UNCHANGED <<active, candidates, locks, it, turn, least, fresh, handlers, loop>>

(* Line 204, as line 271.                                                  *)
Mark ==
  /\ active' = active \cup {fresh.url}
  /\ fresh' = NoConnection

ExpandMark ==
  /\ pc = "expandMark"
  /\ Mark
  /\ Goto("expandEach")
  /\ UNCHANGED <<connections, candidates, locks, it, turn, least, handlers, loop>>

ExpandEnd ==
  /\ pc = "expandEach"
  /\ ~MayExpand
  /\ peerOwner' = None
  /\ turn' = 0
  /\ Goto("explore")
  /\ UNCHANGED <<connections, active, candidates, connOwner, it, least, fresh, handlers, loop>>

(* worker_explore, lines 210-275.  last_explore is never set, so that line *)
(* 211 holds whenever the clock is right.  Lines 212-218 look at the first *)
(* connection ...                                                          *)
ExploreLeast ==
  /\ pc = "explore"
  /\ connOwner = None
  /\ least' = IF connections = << >> THEN 0 ELSE Count(connections[1])
  /\ Goto("explorePeers")
  /\ UNCHANGED <<connections, active, candidates, locks, it, turn, fresh, handlers, loop>>

(* ... before the candidates are locked.                                   *)
ExploreLock ==
  /\ pc = "explorePeers"
  /\ peerOwner = None
  /\ peerOwner' = Worker
  /\ Goto("exploreEach")
  /\ UNCHANGED <<connections, active, candidates, connOwner, it, turn, least, fresh,
                 handlers, loop>>

MayExplore == candidates # << >> /\ turn < ExploreTurns

ExplorePop ==
  /\ pc = "exploreEach"
  /\ MayExplore
  /\ Pop
  /\ Goto("exploreCall")
  /\ UNCHANGED <<connections, active, locks, it, least, handlers, loop>>

ExploreRefused ==
  /\ pc = "exploreCall"
  /\ fresh' = NoConnection
  /\ loop' = None
  /\ Goto("exploreEach")
  /\ UNCHANGED <<connections, active, candidates, locks, it, turn, least, handlers>>

(* Lines 250-253: not richer than the poorest connection was.              *)
ExplorePoor ==
  /\ pc = "exploreCall"
  /\ Answers(fresh.url) # {}
  /\ \E has \in SUBSET Chunks : Cardinality(has) <= least
  /\ fresh' = NoConnection
  /\ loop' = None
  /\ Goto("exploreEach")
  /\ UNCHANGED <<connections, active, candidates, locks, it, turn, least, handlers>>

ExploreRich ==
  /\ pc = "exploreCall"
  /\ \E has \in SUBSET Chunks : Cardinality(has) > least /\ Answered(has)
  /\ loop' = None
  /\ Goto("exploreSwap")
  /\ UNCHANGED <<connections, active, candidates, locks, it, turn, least, handlers>>

ExploreSwap ==
  /\ pc = "exploreSwap"
  /\ connOwner = None
  /\ connections # << >>
  /\ active' = active \ {connections[1].url}
  /\ connections' \in Sortings(Append(Tail(connections), fresh))
  /\ Goto("exploreMark")
  /\ UNCHANGED <<candidates, locks, it, turn, least, fresh, handlers, loop>>

(* Lines 264-267 with an empty list: the behaviour of begin() and erase()  *)
(* is undefined there; the library's code destroys an object that is none. *)
ExploreSwapNothing ==
  /\ pc = "exploreSwap"
  /\ connOwner = None
  /\ connections = << >>
  /\ Goto("dead")
  /\ UNCHANGED <<connections, active, candidates, locks, it, turn, least, fresh,
                 handlers, loop>>

ExploreMark ==
  /\ pc = "exploreMark"
  /\ Mark
  /\ Goto("exploreEach")
  /\ UNCHANGED <<connections, candidates, locks, it, turn, least, handlers, loop>>

ExploreEnd ==
  /\ pc = "exploreEach"
  /\ ~MayExplore
  /\ peerOwner' = None
  /\ turn' = 0
  /\ least' = 0
  /\ Goto("sleep")
  /\ UNCHANGED <<connections, active, candidates, connOwner, it, fresh, handlers, loop>>
----------------------------------------------------------------------------
Serve(h, label, caller) ==
  /\ pc # "dead"
  /\ serving[h] = "idle"
  /\ serving' = [serving EXCEPT ![h] = label]
  /\ call' = [call EXCEPT ![h] = caller]

Callers == [url : Urls \ OwnUrls, node : Nodes, has : SUBSET Chunks]

(* Another node calls InfoExchange, distfs_service.cc lines 39-54.         *)
InfoRequest(h) ==
  /\ \E caller \in Callers : Serve(h, "info", caller)
  /\ UNCHANGED <<connections, active, candidates, locks, pc, it, turn, least, fresh, loop>>

(* Another node calls PeerExchange, distfs_service.cc lines 56-62.         *)
PexRequest(h) ==
  /\ Serve(h, "pex", NoConnection)
  /\ UNCHANGED <<connections, active, candidates, locks, pc, it, turn, least, fresh, loop>>

(* The worker's call came back to this node.                               *)
Target == IF pc \in {"infoCall", "pexCall"} THEN Due.url ELSE fresh.url

LoopBack(h) ==
  /\ pc \in Calling
  /\ loop = None
  /\ Target \in OwnUrls
  /\ \E has \in SUBSET Chunks :
       Serve(h, IF pc = "pexCall" THEN "pex" ELSE "info",
             [url |-> Target, node |-> Self, has |-> has])
  /\ loop' = h
  /\ UNCHANGED <<connections, active, candidates, locks, pc, it, turn, least, fresh>>

(* info_from, lines 290-297 ...                                            *)
InfoHeard(h) ==
  /\ pc # "dead"
  /\ serving[h] = "info"
  /\ peerOwner = None
  /\ Heard(call[h].url)
  /\ serving' = [serving EXCEPT ![h] = "update"]
  /\ UNCHANGED <<connections, active, locks, pc, it, turn, least, fresh, call, loop>>

Return(h) ==
  /\ serving' = [serving EXCEPT ![h] = "idle"]
  /\ call' = [call EXCEPT ![h] = NoConnection]
  /\ loop' = IF loop = h THEN "served" ELSE loop

(* ... and lines 298-312: the first connection to the caller's node.       *)
Known(h) == {k \in DOMAIN connections : connections[k].node = call[h].node}

(* Mutant: changed is not set in line 305.                                 *)
InfoUpdateUnsorted(h) ==
  /\ pc # "dead"
  /\ serving[h] = "update"
  /\ connOwner = None
  /\ IF Known(h) = {}
     THEN UNCHANGED connections
     ELSE connections' = [connections EXCEPT ![Min(Known(h))].has = call[h].has]
  /\ Return(h)
  /\ UNCHANGED <<active, candidates, locks, pc, it, turn, least, fresh>>

InfoUpdate(h) ==
  /\ pc # "dead"
  /\ serving[h] = "update"
  /\ connOwner = None
  /\ IF Known(h) = {}
     THEN UNCHANGED connections
     ELSE connections' \in
            Sortings([connections EXCEPT ![Min(Known(h))].has = call[h].has])
  /\ Return(h)
  /\ UNCHANGED <<active, candidates, locks, pc, it, turn, least, fresh>>

(* pex_from, connection_pool.h lines 76-94: it pushes what it was sent and *)
(* reads the connections without their mutex, for its answer only.         *)
PexReceive(h) ==
  /\ pc # "dead"
  /\ serving[h] = "pex"
  /\ peerOwner = None
  /\ peerOwner' = h
  /\ serving' = [serving EXCEPT ![h] = "take"]
  /\ UNCHANGED <<connections, active, candidates, connOwner, pc, it, turn, least, fresh,
                 call, loop>>

PexHeard(h) ==
  /\ pc # "dead"
  /\ serving[h] = "take"
  /\ \E u \in Urls : Heard(u)
  /\ UNCHANGED <<connections, active, locks, pc, it, turn, least, fresh, handlers, loop>>

PexReply(h) ==
  /\ pc # "dead"
  /\ serving[h] = "take"
  /\ peerOwner' = None
  /\ Return(h)
  /\ UNCHANGED <<connections, active, candidates, connOwner, pc, it, turn, least, fresh>>

(* The process is gone.                                                    *)
Dead == pc = "dead" /\ UNCHANGED vars

WorkerStep ==
  \/ InfoLock \/ InfoCall \/ InfoSkip \/ InfoAnswered \/ InfoRefused \/ InfoDrop
  \/ InfoEnd
  \/ PexConnLock \/ PexPeerLock \/ PexCall \/ PexSkip \/ PexAnswered \/ PexNext
  \/ PexRefused \/ PexEnd
  \/ ExpandLock \/ ExpandPop \/ ExpandRefused \/ ExpandAnswered \/ ExpandAdd
  \/ ExpandMark \/ ExpandEnd
  \/ ExploreLeast \/ ExploreLock \/ ExplorePop \/ ExploreRefused \/ ExplorePoor
  \/ ExploreRich \/ ExploreSwap \/ ExploreSwapNothing \/ ExploreMark \/ ExploreEnd

HandlerStep(h) == InfoHeard(h) \/ InfoUpdate(h) \/ PexReceive(h) \/ PexReply(h)

Next ==
  \/ WorkerStep \/ PexTake \/ Dead
  \/ \E h \in Handlers :
       \/ InfoRequest(h) \/ PexRequest(h) \/ LoopBack(h)
       \/ HandlerStep(h) \/ PexHeard(h)

Spec == Init /\ [][Next]_vars

(* Every RPC of the worker has a deadline, every list of peers an end, and *)
(* a thread that waits for a mutex gets it when it is released often       *)
(* enough: the worker sleeps two seconds in every round without either.    *)
FairSpec == Spec /\ SF_vars(WorkerStep) /\ \A h \in Handlers : SF_vars(HandlerStep(h))
----------------------------------------------------------------------------
(* active_peers, which the limit and the candidates are tested against,    *)
(* names exactly the connections, but for the one that lines 204 and 271   *)
(* are about to add and the one that line 111 is about to erase: the two   *)
(* are kept under different mutexes, one of them not at all in line 110.   *)
Marking == IF pc \in {"expandMark", "exploreMark"} THEN {fresh.url} ELSE {}
Dropping == IF pc = "infoDrop" THEN {Due.url} ELSE {}

PeersAreConnections ==
  /\ UrlsOf(connections) = active \cup Marking \cup Dropping
  /\ active \cap (Marking \cup Dropping) = {}

(* No address has two connections, and none that has one is a candidate    *)
(* for another.  What a handler hears between lines 110 and 111 may be a   *)
(* candidate while it is still listed, but only that: by the time the      *)
(* candidates are called its connection is gone.                           *)
OnePerUrl ==
  /\ \A j, k \in DOMAIN connections : connections[j].url = connections[k].url => j = k
  /\ Members(candidates) \cap UrlsOf(connections) \subseteq Dropping

(* The limit holds in every state, since a round of exploration only       *)
(* replaces.                                                               *)
WithinLimit == Len(connections) <= ConnectionLimit

(* Whoever takes connections_mutex finds the poorest connection in front,  *)
(* which lines 216 and 264 rely on.                                        *)
PoorestFirst ==
  connOwner = None =>
    \A j, k \in DOMAIN connections :
      j < k => Count(connections[j]) <= Count(connections[k])

(* The node never connects to itself.  Lines 188-190 and 247-249 do not    *)
(* prevent it: they report a loop and go on.  That a handler needs the     *)
(* mutex the worker holds across the call does, the call times out.        *)
NoLoop == \A k \in DOMAIN connections : connections[k].node # Self

(* Every call of another node is answered, though the worker holds its     *)
(* mutexes across calls of its own and the two take them in both orders.   *)
CallsAreServed ==
  \A h \in Handlers : serving[h] # "idle" ~> serving[h] = "idle" \/ pc = "dead"

(* The worker comes round again.                                           *)
RoundsEnd == pc # "sleep" ~> pc = "sleep" \/ pc = "dead"

(* connection_pool.cc:265, "Replacing %s with %s": there is a connection   *)
(* to replace.                                                             *)
SomethingToReplace == pc # "dead"
=============================================================================
