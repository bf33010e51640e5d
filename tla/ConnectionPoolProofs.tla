------------------------ MODULE ConnectionPoolProofs ------------------------
(***************************************************************************)
(* Theorems about ConnectionPool, for any number of addresses, nodes,      *)
(* chunks and handlers and any limits.                                     *)
(*                                                                         *)
(* The inductive invariant IInv adds to the properties who holds which     *)
(* mutex where (Locking), that the address being called is neither         *)
(* connected nor a candidate any more, and that a call of this node by     *)
(* itself is stuck at the mutex that the caller holds (Called).            *)
(***************************************************************************)
EXTENDS ConnectionPool, FiniteSetTheorems, TLAPS

Injective(list) ==
  \A j, k \in DOMAIN list : list[j].url = list[k].url => j = k
Foreign(list) == \A k \in DOMAIN list : list[k].node # Self
Rising(list) ==
  \A j, k \in DOMAIN list : j < k => Count(list[j]) <= Count(list[k])

ConnHeld ==
  {"infoEach", "infoCall", "infoDrop", "pexPeers", "pexEach", "pexCall", "pexTake"}
PeerHeld ==
  {"pexEach", "pexCall", "pexTake", "expandEach", "expandCall", "expandAdd", "expandMark",
   "exploreEach", "exploreCall", "exploreSwap", "exploreMark", "dead"}
Counting == {"infoEach", "infoCall", "infoDrop", "pexEach", "pexCall", "pexTake"}
Making == {"expandCall", "expandAdd", "expandMark", "exploreCall", "exploreSwap", "exploreMark"}

Locking ==
  /\ connOwner \in {Worker, None}
  /\ connOwner = Worker <=> pc \in ConnHeld
  /\ peerOwner = Worker <=> pc \in PeerHeld
  /\ \A h \in Handlers : serving[h] = "take" <=> peerOwner = h

Iterating ==
  /\ pc \in Counting => it >= 1
  /\ pc \in {"infoCall", "infoDrop", "pexCall"} => it <= Len(connections)

Called ==
  /\ pc \in Making =>
       fresh \in Connection /\ fresh.url \notin Members(candidates) /\ fresh.url \notin active
  /\ pc \in {"expandCall", "expandAdd"} => Len(connections) < ConnectionLimit
  /\ pc \in {"expandAdd", "exploreSwap"} => fresh.node # Self
  /\ pc \in {"expandCall", "exploreCall"} =>
       loop # "served" /\ \A h \in Handlers : loop = h => serving[h] = "info"
  /\ pc \notin Calling => loop = None
  /\ \A h \in Handlers : serving[h] \in {"info", "update"} => call[h] \in Connection

IInv ==
  /\ TypeOK
  /\ PeersAreConnections
  /\ OnePerUrl
  /\ WithinLimit
  /\ PoorestFirst
  /\ NoLoop
  /\ Locking
  /\ Iterating
  /\ Called
----------------------------------------------------------------------------
(* What the operations on the list of connections keep.                    *)
LEMMA Sorted ==
  ASSUME NEW list \in Seq(Connection), NEW s \in Sortings(list)
  PROVE  /\ s \in Seq(Connection) /\ Len(s) = Len(list)
         /\ UrlsOf(s) = UrlsOf(list)
         /\ Injective(list) => Injective(s)
         /\ Foreign(list) => Foreign(s)
         /\ Rising(s)
<1> DEFINE at == DOMAIN list
<1>1. PICK p \in Bijection(at, at) :
        /\ s = [k \in at |-> list[p[k]]]
        /\ \A j, k \in at : j < k =>
             \/ Count(list[p[j]]) < Count(list[p[k]])
             \/ Count(list[p[j]]) = Count(list[p[k]]) /\ p[j] < p[k]
  BY DEF Sortings
<1>2. /\ p \in [at -> at]
      /\ \A j, k \in at : p[j] = p[k] => j = k
      /\ \A j \in at : \E k \in at : p[k] = j
  BY DEF Bijection, Injection, Surjection, IsInjective
<1>3. at = 1..Len(list) /\ Len(list) \in Nat
  OBVIOUS
<1>4. s \in Seq(Connection) /\ Len(s) = Len(list) /\ DOMAIN s = at
  BY <1>1, <1>2, <1>3
<1>5. UrlsOf(s) = UrlsOf(list)
  BY <1>1, <1>2, <1>4 DEF UrlsOf
<1>6. Injective(list) => Injective(s)
  BY <1>1, <1>2, <1>4 DEF Injective
<1>7. Foreign(list) => Foreign(s)
  BY <1>1, <1>2, <1>4 DEF Foreign
<1>8. Rising(s)
  <2>1. ASSUME NEW k \in at
        PROVE  Count(s[k]) = Count(list[p[k]]) /\ Count(s[k]) \in Nat
    <3>1. s[k] = list[p[k]] /\ p[k] \in at
      BY <1>1, <1>2
    <3>2. s[k] \in Connection
      BY <1>3, <3>1
    <3>3. s[k].has \in SUBSET Chunks
      BY <3>2 DEF Connection
    <3> QED
      BY <3>1, <3>3, ChunksAssumption, FS_Subset, FS_CardinalityType DEF Count
  <2> QED
    BY <1>1, <1>4, <2>1 DEF Rising
<1> QED
  BY <1>4, <1>5, <1>6, <1>7, <1>8

Refresh(list, i, has) == [list EXCEPT ![i].has = has]

LEMMA Refreshed ==
  ASSUME NEW list \in Seq(Connection), NEW i, NEW has \in SUBSET Chunks,
         NEW s, s = Refresh(list, i, has)
  PROVE  /\ s \in Seq(Connection) /\ Len(s) = Len(list)
         /\ UrlsOf(s) = UrlsOf(list)
         /\ Injective(list) => Injective(s)
         /\ Foreign(list) => Foreign(s)
<1>1. Len(list) \in Nat /\ DOMAIN list = 1..Len(list)
  OBVIOUS
<1>2. DOMAIN s = 1..Len(list)
  BY <1>1 DEF Refresh
<1>3. ASSUME NEW k \in 1..Len(list)
      PROVE  s[k] \in Connection /\ s[k].url = list[k].url /\ s[k].node = list[k].node
  <2>1. list[k] \in Connection
    BY <1>1
  <2>2. s[k] = IF k = i THEN [list[k] EXCEPT !.has = has] ELSE list[k]
    BY <1>1 DEF Refresh
  <2> QED
    BY <2>1, <2>2 DEF Connection
<1>4. s \in [1..Len(list) -> Connection]
  BY <1>1, <1>2, <1>3 DEF Refresh
<1>5. s \in Seq(Connection) /\ Len(s) = Len(list)
  BY <1>1, <1>4
<1> QED
  BY <1>1, <1>2, <1>3, <1>5 DEF UrlsOf, Injective, Foreign

LEMMA Removed ==
  ASSUME NEW list \in Seq(Connection), NEW i \in DOMAIN list, NEW s, s = RemoveAt(list, i)
  PROVE  /\ s \in Seq(Connection) /\ Len(s) = Len(list) - 1
         /\ Injective(list) => Injective(s) /\ UrlsOf(s) = UrlsOf(list) \ {list[i].url}
         /\ Foreign(list) => Foreign(s)
<1>1. i \in 1..Len(list) /\ Len(list) \in Nat /\ DOMAIN list = 1..Len(list)
  OBVIOUS
<1> DEFINE front == SubSeq(list, 1, i - 1)
           back == SubSeq(list, i + 1, Len(list))
<1>a. /\ front \in Seq(Connection) /\ Len(front) = i - 1
      /\ \A k \in 1..(i - 1) : front[k] = list[k]
  BY <1>1
<1>b. /\ back \in Seq(Connection) /\ Len(back) = Len(list) - i
      /\ \A k \in 1..(Len(list) - i) : back[k] = list[i + k]
  BY <1>1
<1>c. s = front \o back
  BY DEF RemoveAt
<1>2. s = front \o back /\ s \in Seq(Connection) /\ Len(s) = Len(list) - 1
  <2> HIDE DEF front, back
  <2>1. front \in Seq(Connection) /\ back \in Seq(Connection)
    BY <1>a, <1>b
  <2>2. s \in Seq(Connection) /\ Len(s) = Len(front) + Len(back)
    BY <1>c, <2>1
  <2>3. Len(front) = i - 1 /\ Len(back) = Len(list) - i
    BY <1>a, <1>b
  <2> QED
    BY <1>1, <1>c, <2>2, <2>3
<1>3. DOMAIN s = 1..(Len(list) - 1)
  BY <1>1, <1>2
<1>4. ASSUME NEW k \in 1..(Len(list) - 1)
      PROVE  s[k] = list[IF k < i THEN k ELSE k + 1]
  <2> HIDE DEF front, back
  <2>1. CASE k < i
    BY <1>1, <1>2, <1>a, <1>b, <2>1
  <2>2. CASE ~(k < i)
    <3> DEFINE m == k - (i - 1)
    <3>1. s[k] = back[m] /\ m \in 1..(Len(list) - i)
      BY <1>1, <1>2, <1>a, <1>b, <2>2
    <3>2. i + m = k + 1
      BY <1>1
    <3> HIDE DEF m
    <3>3. back[m] = list[i + m]
      BY <1>b, <3>1
    <3>4. s[k] = list[k + 1]
      BY <3>1, <3>2, <3>3
    <3> QED
      BY <2>2, <3>4
  <2> QED
    BY <2>1, <2>2
<1>5. ASSUME Injective(list)
      PROVE  Injective(s)
  <2> SUFFICES ASSUME NEW j \in 1..(Len(list) - 1), NEW k \in 1..(Len(list) - 1),
                      s[j].url = s[k].url
               PROVE  j = k
    BY <1>3 DEF Injective
  <2> DEFINE At(m) == IF m < i THEN m ELSE m + 1
  <2>1. /\ At(j) \in 1..Len(list) /\ s[j] = list[At(j)]
        /\ At(k) \in 1..Len(list) /\ s[k] = list[At(k)]
    BY <1>1, <1>4
  <2>2. At(j) = At(k)
    BY <1>1, <1>5, <2>1 DEF Injective
  <2> QED
    BY <1>1, <2>2
<1>6. Foreign(list) => Foreign(s)
  BY <1>1, <1>3, <1>4 DEF Foreign
<1>7. ASSUME Injective(list)
      PROVE  UrlsOf(s) = UrlsOf(list) \ {list[i].url}
  <2>1. ASSUME NEW u \in UrlsOf(s)
        PROVE  u \in UrlsOf(list) /\ u # list[i].url
    <3>1. PICK k \in 1..(Len(list) - 1) : u = s[k].url
      BY <1>3 DEF UrlsOf
    <3> DEFINE j == IF k < i THEN k ELSE k + 1
    <3>2. j \in DOMAIN list /\ j # i /\ u = list[j].url
      BY <1>1, <1>4, <3>1
    <3> QED
      BY <1>7, <3>2 DEF UrlsOf, Injective
  <2>2. ASSUME NEW u \in UrlsOf(list), u # list[i].url
        PROVE  u \in UrlsOf(s)
    <3>1. PICK j \in 1..Len(list) : u = list[j].url /\ j # i
      BY <1>1, <2>2 DEF UrlsOf
    <3> DEFINE k == IF j < i THEN j ELSE j - 1
    <3>2. k \in 1..(Len(list) - 1) /\ s[k] = list[j]
      BY <1>1, <1>4, <3>1
    <3> QED
      BY <1>3, <3>1, <3>2 DEF UrlsOf
  <2> QED
    BY <2>1, <2>2
<1> QED
  BY <1>2, <1>5, <1>6, <1>7

LEMMA Appended ==
  ASSUME NEW list \in Seq(Connection), NEW c \in Connection, NEW s, s = Append(list, c)
  PROVE  /\ s \in Seq(Connection) /\ Len(s) = Len(list) + 1
         /\ UrlsOf(s) = UrlsOf(list) \cup {c.url}
         /\ Injective(list) /\ c.url \notin UrlsOf(list) => Injective(s)
         /\ Foreign(list) /\ c.node # Self => Foreign(s)
<1>1. Len(list) \in Nat /\ DOMAIN list = 1..Len(list)
  OBVIOUS
<1>2. s \in Seq(Connection) /\ Len(s) = Len(list) + 1 /\ DOMAIN s = 1..(Len(list) + 1)
  BY <1>1
<1>3. \A k \in 1..(Len(list) + 1) : s[k] = IF k = Len(list) + 1 THEN c ELSE list[k]
  BY <1>1
<1>4. UrlsOf(s) = UrlsOf(list) \cup {c.url}
  BY <1>1, <1>2, <1>3 DEF UrlsOf
<1>5. Injective(list) /\ c.url \notin UrlsOf(list) => Injective(s)
  BY <1>1, <1>2, <1>3 DEF UrlsOf, Injective
<1>6. Foreign(list) /\ c.node # Self => Foreign(s)
  BY <1>1, <1>2, <1>3 DEF Foreign
<1> QED
  BY <1>2, <1>4, <1>5, <1>6

LEMMA Shifted ==
  ASSUME NEW list \in Seq(Connection), list # << >>
  PROVE  Tail(list) = RemoveAt(list, 1) /\ 1 \in DOMAIN list
<1>1. Len(list) \in Nat \ {0} /\ DOMAIN list = 1..Len(list)
  OBVIOUS
<1>2. SubSeq(list, 1, 0) = << >> /\ SubSeq(list, 2, Len(list)) \in Seq(Connection)
  BY <1>1
<1>3. SubSeq(list, 2, Len(list)) = Tail(list)
  BY <1>1
<1> QED
  BY <1>1, <1>2, <1>3 DEF RemoveAt

(* As many connections as addresses.                                       *)
LEMMA Counted ==
  ASSUME NEW list \in Seq(Connection), Injective(list)
  PROVE  IsFiniteSet(UrlsOf(list)) /\ Cardinality(UrlsOf(list)) = Len(list)
<1> DEFINE f == [k \in 1..Len(list) |-> list[k].url]
<1>1. Len(list) \in Nat /\ DOMAIN list = 1..Len(list)
  OBVIOUS
<1>2. f \in Bijection(1..Len(list), UrlsOf(list))
  BY <1>1 DEF Bijection, Injection, Surjection, IsInjective, UrlsOf, Injective
<1>3. IsFiniteSet(1..Len(list)) /\ Cardinality(1..Len(list)) = Len(list)
  BY <1>1, FS_Interval
<1>4. ExistsBijection(1..Len(list), UrlsOf(list))
  BY <1>2 DEF ExistsBijection
<1> QED
  BY <1>3, <1>4, FS_Bijection

(* What the operations on the list of candidates keep.                     *)
LEMMA PushedKeeps ==
  ASSUME NEW q \in Seq(Urls), Ordered(q, CandidateLimit), NEW u \in Urls,
         NEW s, s = Pushed(q, u, CandidateLimit)
  PROVE  /\ s \in Seq(Urls) /\ Ordered(s, CandidateLimit)
         /\ Members(s) \subseteq Members(q) \cup {u}
<1>1. Len(q) \in Nat /\ DOMAIN q = 1..Len(q) /\ CandidateLimit \in Nat \ {0}
  BY LimitAssumption
<1>2. CASE u \in Members(q)
  BY <1>2 DEF Pushed
<1>3. CASE u \notin Members(q)
  <2> DEFINE l == Append(q, u)
  <2>1. l \in Seq(Urls) /\ Len(l) = Len(q) + 1 /\ DOMAIN l = 1..(Len(q) + 1)
    BY <1>1
  <2>2. \A k \in 1..(Len(q) + 1) : l[k] = IF k = Len(q) + 1 THEN u ELSE q[k]
    BY <1>1
  <2>3. \A j, k \in DOMAIN l : l[j] = l[k] => j = k
    BY <1>1, <1>3, <2>1, <2>2 DEF Ordered, Members
  <2>4. Members(l) \subseteq Members(q) \cup {u}
    BY <1>1, <2>1, <2>2 DEF Members
  <2>5. CASE Len(q) < CandidateLimit
    <3>1. s = l
      BY <1>3, <2>5 DEF Pushed
    <3> QED
      BY <1>1, <2>1, <2>3, <2>4, <2>5, <3>1 DEF Ordered
  <2>6. CASE ~(Len(q) < CandidateLimit)
    <3> HIDE DEF l
    <3>1. s = Tail(l) /\ l # << >>
      BY <1>1, <1>3, <2>1, <2>6 DEF Pushed, l
    <3>2. s \in Seq(Urls) /\ Len(s) = Len(q) /\ DOMAIN s = 1..Len(q)
      BY <1>1, <2>1, <3>1
    <3>3. \A k \in 1..Len(q) : s[k] = l[k + 1] /\ k + 1 \in DOMAIN l
      BY <1>1, <2>1, <3>1
    <3>4. Members(s) \subseteq Members(l)
      BY <3>2, <3>3 DEF Members
    <3>5. \A j, k \in DOMAIN s : s[j] = s[k] => j = k
      <4> SUFFICES ASSUME NEW j \in 1..Len(q), NEW k \in 1..Len(q), s[j] = s[k]
                   PROVE  j = k
        BY <3>2
      <4>1. j + 1 = k + 1
        BY <2>3, <3>3
      <4> QED
        BY <4>1
    <3>6. Len(q) <= CandidateLimit
      BY DEF Ordered
    <3> QED
      BY <2>4, <3>2, <3>4, <3>5, <3>6 DEF Ordered
  <2> QED
    BY <2>5, <2>6
<1> QED
  BY <1>2, <1>3

LEMMA PoppedKeeps ==
  ASSUME NEW q \in Seq(Urls), Ordered(q, CandidateLimit), q # << >>
  PROVE  /\ Head(q) \in Urls /\ Head(q) \in Members(q)
         /\ Tail(q) \in Seq(Urls) /\ Ordered(Tail(q), CandidateLimit)
         /\ Members(Tail(q)) \subseteq Members(q) \ {Head(q)}
<1>1. /\ Len(q) \in Nat \ {0} /\ DOMAIN q = 1..Len(q) /\ CandidateLimit \in Nat \ {0}
      /\ Len(q) <= CandidateLimit
  BY LimitAssumption DEF Ordered
<1>2. Head(q) = q[1] /\ q[1] \in Urls
  BY <1>1
<1>3. Tail(q) \in Seq(Urls) /\ Len(Tail(q)) = Len(q) - 1 /\ DOMAIN Tail(q) = 1..(Len(q) - 1)
  BY <1>1
<1>4. \A k \in 1..(Len(q) - 1) : Tail(q)[k] = q[k + 1] /\ k + 1 \in DOMAIN q
  BY <1>1
<1>5. \A j, k \in DOMAIN q : q[j] = q[k] => j = k
  BY DEF Ordered
<1>6. Ordered(Tail(q), CandidateLimit)
  <2>1. ASSUME NEW j \in 1..(Len(q) - 1), NEW k \in 1..(Len(q) - 1), Tail(q)[j] = Tail(q)[k]
        PROVE  j = k
    <3>1. j + 1 = k + 1
      BY <1>4, <1>5, <2>1
    <3> QED
      BY <3>1
  <2> QED
    BY <1>1, <1>3, <2>1 DEF Ordered
<1>7. Members(Tail(q)) \subseteq Members(q) \ {Head(q)}
  <2> SUFFICES ASSUME NEW k \in 1..(Len(q) - 1)
               PROVE  Tail(q)[k] \in Members(q) /\ Tail(q)[k] # q[1]
    BY <1>2, <1>3 DEF Members
  <2>1. Tail(q)[k] = q[k + 1] /\ k + 1 \in DOMAIN q /\ k + 1 # 1 /\ 1 \in DOMAIN q
    BY <1>1, <1>4
  <2> QED
    BY <1>5, <2>1 DEF Members
<1> QED
  BY <1>1, <1>2, <1>3, <1>6, <1>7 DEF Members
----------------------------------------------------------------------------
(* Steps that leave connections, addresses and candidates as they are.     *)
LEMMA QuietKeeps ==
  ASSUME IInv, UNCHANGED <<connections, active, candidates>>, Marking' = Marking,
         Dropping' = Dropping, connOwner' = None => connOwner = None
  PROVE  PeersAreConnections' /\ OnePerUrl' /\ WithinLimit' /\ PoorestFirst' /\ NoLoop'
<1>1. PeersAreConnections'
  BY DEF IInv, PeersAreConnections
<1>2. OnePerUrl' /\ WithinLimit' /\ NoLoop'
  BY DEF IInv, OnePerUrl, WithinLimit, NoLoop
<1>3. PoorestFirst'
  BY DEF IInv, PoorestFirst
<1> QED
  BY <1>1, <1>2, <1>3

LEMMA LeastTyped ==
  ASSUME IInv, connections # << >>
  PROVE  Count(connections[1]) \in Nat
<1>1. connections[1] \in Connection
  BY DEF IInv, TypeOK
<1>2. connections[1].has \in SUBSET Chunks
  BY <1>1 DEF Connection
<1> QED
  BY <1>2, ChunksAssumption, FS_Subset, FS_CardinalityType DEF Count

(* Taking mutexes, choosing and skipping connections.                      *)
LEMMA InfoAndPexQuiet ==
  ASSUME IInv, \/ InfoLock \/ InfoCall \/ InfoSkip \/ PexConnLock \/ PexPeerLock \/ PexCall \/ PexSkip \/ PexAnswered \/ PexNext
  PROVE  IInv'
<1> USE NoneAssumption, ThreadsAssumption, ServedAssumption, TurnsAssumption
<1>1. CASE InfoLock
  <2>1. PeersAreConnections' /\ OnePerUrl' /\ WithinLimit' /\ PoorestFirst' /\ NoLoop'
    BY <1>1, QuietKeeps DEF InfoLock, Goto, Marking, Dropping, Due, locks
  <2>2. TypeOK'
    BY <1>1 DEF InfoLock, Goto, IInv, TypeOK, WorkerLabel, Calling, locks, handlers
  <2>3. Locking'
    BY <1>1 DEF InfoLock, Goto, IInv, Locking, ConnHeld, PeerHeld, locks, handlers
  <2>4. Iterating'
    BY <1>1 DEF InfoLock, Goto, IInv, TypeOK, Iterating, Counting, locks
  <2>5. Called'
    BY <1>1 DEF InfoLock, Goto, IInv, Called, Making, Calling, locks, handlers
  <2> QED
    BY <2>1, <2>2, <2>3, <2>4, <2>5 DEF IInv
<1>2. CASE InfoCall
  <2>1. PeersAreConnections' /\ OnePerUrl' /\ WithinLimit' /\ PoorestFirst' /\ NoLoop'
    BY <1>2, QuietKeeps DEF InfoCall, Goto, Marking, Dropping, Due, locks
  <2>2. TypeOK'
    BY <1>2 DEF InfoCall, Goto, IInv, TypeOK, WorkerLabel, Calling, locks, handlers
  <2>3. Locking'
    BY <1>2 DEF InfoCall, Goto, IInv, Locking, ConnHeld, PeerHeld, locks, handlers
  <2>4. Iterating'
    BY <1>2 DEF InfoCall, Goto, IInv, TypeOK, Iterating, Counting, locks
  <2>5. Called'
    BY <1>2 DEF InfoCall, Goto, IInv, Called, Making, Calling, locks, handlers
  <2> QED
    BY <2>1, <2>2, <2>3, <2>4, <2>5 DEF IInv
<1>3. CASE InfoSkip
  <2>1. PeersAreConnections' /\ OnePerUrl' /\ WithinLimit' /\ PoorestFirst' /\ NoLoop'
    BY <1>3, QuietKeeps DEF InfoSkip, Goto, Marking, Dropping, Due, locks
  <2>2. TypeOK'
    BY <1>3 DEF InfoSkip, Goto, IInv, TypeOK, WorkerLabel, Calling, locks, handlers
  <2>3. Locking'
    BY <1>3 DEF InfoSkip, Goto, IInv, Locking, ConnHeld, PeerHeld, locks, handlers
  <2>4. Iterating'
    BY <1>3 DEF InfoSkip, Goto, IInv, TypeOK, Iterating, Counting, locks
  <2>5. Called'
    BY <1>3 DEF InfoSkip, Goto, IInv, Called, Making, Calling, locks, handlers
  <2> QED
    BY <2>1, <2>2, <2>3, <2>4, <2>5 DEF IInv
<1>4. CASE PexConnLock
  <2>1. PeersAreConnections' /\ OnePerUrl' /\ WithinLimit' /\ PoorestFirst' /\ NoLoop'
    BY <1>4, QuietKeeps DEF PexConnLock, Goto, Marking, Dropping, Due, locks
  <2>2. TypeOK'
    BY <1>4 DEF PexConnLock, Goto, IInv, TypeOK, WorkerLabel, Calling, locks, handlers
  <2>3. Locking'
    BY <1>4 DEF PexConnLock, Goto, IInv, Locking, ConnHeld, PeerHeld, locks, handlers
  <2>4. Iterating'
    BY <1>4 DEF PexConnLock, Goto, IInv, TypeOK, Iterating, Counting, locks
  <2>5. Called'
    BY <1>4 DEF PexConnLock, Goto, IInv, Called, Making, Calling, locks, handlers
  <2> QED
    BY <2>1, <2>2, <2>3, <2>4, <2>5 DEF IInv
<1>5. CASE PexPeerLock
  <2>1. PeersAreConnections' /\ OnePerUrl' /\ WithinLimit' /\ PoorestFirst' /\ NoLoop'
    BY <1>5, QuietKeeps DEF PexPeerLock, Goto, Marking, Dropping, Due, locks
  <2>2. TypeOK'
    BY <1>5 DEF PexPeerLock, Goto, IInv, TypeOK, WorkerLabel, Calling, locks, handlers
  <2>3. Locking'
    BY <1>5 DEF PexPeerLock, Goto, IInv, Locking, ConnHeld, PeerHeld, locks, handlers
  <2>4. Iterating'
    BY <1>5 DEF PexPeerLock, Goto, IInv, TypeOK, Iterating, Counting, locks
  <2>5. Called'
    BY <1>5 DEF PexPeerLock, Goto, IInv, Called, Making, Calling, locks, handlers
  <2> QED
    BY <2>1, <2>2, <2>3, <2>4, <2>5 DEF IInv
<1>6. CASE PexCall
  <2>1. PeersAreConnections' /\ OnePerUrl' /\ WithinLimit' /\ PoorestFirst' /\ NoLoop'
    BY <1>6, QuietKeeps DEF PexCall, Goto, Marking, Dropping, Due, locks
  <2>2. TypeOK'
    BY <1>6 DEF PexCall, Goto, IInv, TypeOK, WorkerLabel, Calling, locks, handlers
  <2>3. Locking'
    BY <1>6 DEF PexCall, Goto, IInv, Locking, ConnHeld, PeerHeld, locks, handlers
  <2>4. Iterating'
    BY <1>6 DEF PexCall, Goto, IInv, TypeOK, Iterating, Counting, locks
  <2>5. Called'
    BY <1>6 DEF PexCall, Goto, IInv, Called, Making, Calling, locks, handlers
  <2> QED
    BY <2>1, <2>2, <2>3, <2>4, <2>5 DEF IInv
<1>7. CASE PexSkip
  <2>1. PeersAreConnections' /\ OnePerUrl' /\ WithinLimit' /\ PoorestFirst' /\ NoLoop'
    BY <1>7, QuietKeeps DEF PexSkip, Goto, Marking, Dropping, Due, locks
  <2>2. TypeOK'
    BY <1>7 DEF PexSkip, Goto, IInv, TypeOK, WorkerLabel, Calling, locks, handlers
  <2>3. Locking'
    BY <1>7 DEF PexSkip, Goto, IInv, Locking, ConnHeld, PeerHeld, locks, handlers
  <2>4. Iterating'
    BY <1>7 DEF PexSkip, Goto, IInv, TypeOK, Iterating, Counting, locks
  <2>5. Called'
    BY <1>7 DEF PexSkip, Goto, IInv, Called, Making, Calling, locks, handlers
  <2> QED
    BY <2>1, <2>2, <2>3, <2>4, <2>5 DEF IInv
<1>8. CASE PexAnswered
  <2>1. PeersAreConnections' /\ OnePerUrl' /\ WithinLimit' /\ PoorestFirst' /\ NoLoop'
    BY <1>8, QuietKeeps DEF PexAnswered, Goto, Marking, Dropping, Due, locks
  <2>2. TypeOK'
    BY <1>8 DEF PexAnswered, Goto, IInv, TypeOK, WorkerLabel, Calling, locks, handlers
  <2>3. Locking'
    BY <1>8 DEF PexAnswered, Goto, IInv, Locking, ConnHeld, PeerHeld, locks, handlers
  <2>4. Iterating'
    BY <1>8 DEF PexAnswered, Goto, IInv, TypeOK, Iterating, Counting, locks
  <2>5. Called'
    BY <1>8 DEF PexAnswered, Goto, IInv, Called, Making, Calling, locks, handlers
  <2> QED
    BY <2>1, <2>2, <2>3, <2>4, <2>5 DEF IInv
<1>9. CASE PexNext
  <2>1. PeersAreConnections' /\ OnePerUrl' /\ WithinLimit' /\ PoorestFirst' /\ NoLoop'
    BY <1>9, QuietKeeps DEF PexNext, Goto, Marking, Dropping, Due, locks
  <2>2. TypeOK'
    BY <1>9 DEF PexNext, Goto, IInv, TypeOK, WorkerLabel, Calling, locks, handlers
  <2>3. Locking'
    BY <1>9 DEF PexNext, Goto, IInv, Locking, ConnHeld, PeerHeld, locks, handlers
  <2>4. Iterating'
    BY <1>9 DEF PexNext, Goto, IInv, TypeOK, Iterating, Counting, locks
  <2>5. Called'
    BY <1>9 DEF PexNext, Goto, IInv, Called, Making, Calling, locks, handlers
  <2> QED
    BY <2>1, <2>2, <2>3, <2>4, <2>5 DEF IInv
<1> QED
  BY <1>1, <1>2, <1>3, <1>4, <1>5, <1>6, <1>7, <1>8, <1>9

(* Calls of candidates and their answers.                                  *)
LEMMA ExpandQuiet ==
  ASSUME IInv, \/ ExpandLock \/ ExpandRefused \/ ExpandAnswered \/ ExpandEnd
  PROVE  IInv'
<1> USE NoneAssumption, ThreadsAssumption, ServedAssumption, TurnsAssumption
<1>1. CASE ExpandLock
  <2>1. PeersAreConnections' /\ OnePerUrl' /\ WithinLimit' /\ PoorestFirst' /\ NoLoop'
    BY <1>1, QuietKeeps DEF ExpandLock, Goto, Marking, Dropping, Due, locks
  <2>2. TypeOK'
    BY <1>1 DEF ExpandLock, Goto, IInv, TypeOK, WorkerLabel, Calling, locks, handlers
  <2>3. Locking'
    BY <1>1 DEF ExpandLock, Goto, IInv, Locking, ConnHeld, PeerHeld, locks, handlers
  <2>4. Iterating'
    BY <1>1 DEF ExpandLock, Goto, IInv, TypeOK, Iterating, Counting, locks
  <2>5. Called'
    BY <1>1 DEF ExpandLock, Goto, IInv, Called, Making, Calling, locks, handlers
  <2> QED
    BY <2>1, <2>2, <2>3, <2>4, <2>5 DEF IInv
<1>2. CASE ExpandRefused
  <2>1. PeersAreConnections' /\ OnePerUrl' /\ WithinLimit' /\ PoorestFirst' /\ NoLoop'
    BY <1>2, QuietKeeps DEF ExpandRefused, Goto, Marking, Dropping, Due, locks
  <2>2. TypeOK'
    BY <1>2 DEF ExpandRefused, Goto, IInv, TypeOK, WorkerLabel, Calling, locks, handlers
  <2>3. Locking'
    BY <1>2 DEF ExpandRefused, Goto, IInv, Locking, ConnHeld, PeerHeld, locks, handlers
  <2>4. Iterating'
    BY <1>2 DEF ExpandRefused, Goto, IInv, TypeOK, Iterating, Counting, locks
  <2>5. Called'
    BY <1>2 DEF ExpandRefused, Goto, IInv, Called, Making, Calling, locks, handlers
  <2> QED
    BY <2>1, <2>2, <2>3, <2>4, <2>5 DEF IInv
<1>3. CASE ExpandAnswered
  <2>1. PeersAreConnections' /\ OnePerUrl' /\ WithinLimit' /\ PoorestFirst' /\ NoLoop'
    BY <1>3, QuietKeeps DEF ExpandAnswered, Goto, Marking, Dropping, Due, locks
  <2>a. fresh' \in Connection /\ fresh'.url = fresh.url /\ fresh'.node # Self
    <3>1. fresh \in Connection /\ loop # "served"
      BY <1>3 DEF ExpandAnswered, IInv, Called, Making
    <3>2. PICK n \in Answers(fresh.url), has \in SUBSET Chunks :
            fresh' = [fresh EXCEPT !.node = n, !.has = has]
      BY <1>3 DEF ExpandAnswered, Answered
    <3>3. n \in Nodes
      BY <3>1, <3>2 DEF Answers
    <3> QED
      BY <3>1, <3>2, <3>3, NodesAssumption DEF Connection
  <2>2. TypeOK'
    BY <1>3, <2>a DEF ExpandAnswered, Goto, IInv, TypeOK, WorkerLabel, Calling, locks, handlers
  <2>3. Locking'
    BY <1>3 DEF ExpandAnswered, Goto, IInv, Locking, ConnHeld, PeerHeld, locks, handlers
  <2>4. Iterating'
    BY <1>3 DEF ExpandAnswered, Goto, IInv, TypeOK, Iterating, Counting, locks
  <2>5. Called'
    BY <1>3, <2>a DEF ExpandAnswered, Goto, IInv, Called, Making, Calling, locks, handlers
  <2> QED
    BY <2>1, <2>2, <2>3, <2>4, <2>5 DEF IInv
<1>4. CASE ExpandEnd
  <2>1. PeersAreConnections' /\ OnePerUrl' /\ WithinLimit' /\ PoorestFirst' /\ NoLoop'
    BY <1>4, QuietKeeps DEF ExpandEnd, Goto, Marking, Dropping, Due, locks
  <2>2. TypeOK'
    BY <1>4 DEF ExpandEnd, Goto, IInv, TypeOK, WorkerLabel, Calling, locks, handlers
  <2>3. Locking'
    BY <1>4 DEF ExpandEnd, Goto, IInv, Locking, ConnHeld, PeerHeld, locks, handlers
  <2>4. Iterating'
    BY <1>4 DEF ExpandEnd, Goto, IInv, TypeOK, Iterating, Counting, locks
  <2>5. Called'
    BY <1>4 DEF ExpandEnd, Goto, IInv, Called, Making, Calling, locks, handlers
  <2> QED
    BY <2>1, <2>2, <2>3, <2>4, <2>5 DEF IInv
<1> QED
  BY <1>1, <1>2, <1>3, <1>4

(* Those of the second kind.                                               *)
LEMMA ExploreQuiet ==
  ASSUME IInv, \/ ExploreLeast \/ ExploreLock \/ ExploreRefused \/ ExplorePoor \/ ExploreRich \/ ExploreSwapNothing \/ ExploreEnd
  PROVE  IInv'
<1> USE NoneAssumption, ThreadsAssumption, ServedAssumption, TurnsAssumption
<1>1. CASE ExploreLeast
  <2>1. PeersAreConnections' /\ OnePerUrl' /\ WithinLimit' /\ PoorestFirst' /\ NoLoop'
    BY <1>1, QuietKeeps DEF ExploreLeast, Goto, Marking, Dropping, Due, locks
  <2>2. TypeOK'
    BY <1>1, LeastTyped DEF ExploreLeast, Goto, IInv, TypeOK, WorkerLabel, Calling, locks, handlers
  <2>3. Locking'
    BY <1>1 DEF ExploreLeast, Goto, IInv, Locking, ConnHeld, PeerHeld, locks, handlers
  <2>4. Iterating'
    BY <1>1 DEF ExploreLeast, Goto, IInv, TypeOK, Iterating, Counting, locks
  <2>5. Called'
    BY <1>1 DEF ExploreLeast, Goto, IInv, Called, Making, Calling, locks, handlers
  <2> QED
    BY <2>1, <2>2, <2>3, <2>4, <2>5 DEF IInv
<1>2. CASE ExploreLock
  <2>1. PeersAreConnections' /\ OnePerUrl' /\ WithinLimit' /\ PoorestFirst' /\ NoLoop'
    BY <1>2, QuietKeeps DEF ExploreLock, Goto, Marking, Dropping, Due, locks
  <2>2. TypeOK'
    BY <1>2 DEF ExploreLock, Goto, IInv, TypeOK, WorkerLabel, Calling, locks, handlers
  <2>3. Locking'
    BY <1>2 DEF ExploreLock, Goto, IInv, Locking, ConnHeld, PeerHeld, locks, handlers
  <2>4. Iterating'
    BY <1>2 DEF ExploreLock, Goto, IInv, TypeOK, Iterating, Counting, locks
  <2>5. Called'
    BY <1>2 DEF ExploreLock, Goto, IInv, Called, Making, Calling, locks, handlers
  <2> QED
    BY <2>1, <2>2, <2>3, <2>4, <2>5 DEF IInv
<1>3. CASE ExploreRefused
  <2>1. PeersAreConnections' /\ OnePerUrl' /\ WithinLimit' /\ PoorestFirst' /\ NoLoop'
    BY <1>3, QuietKeeps DEF ExploreRefused, Goto, Marking, Dropping, Due, locks
  <2>2. TypeOK'
    BY <1>3 DEF ExploreRefused, Goto, IInv, TypeOK, WorkerLabel, Calling, locks, handlers
  <2>3. Locking'
    BY <1>3 DEF ExploreRefused, Goto, IInv, Locking, ConnHeld, PeerHeld, locks, handlers
  <2>4. Iterating'
    BY <1>3 DEF ExploreRefused, Goto, IInv, TypeOK, Iterating, Counting, locks
  <2>5. Called'
    BY <1>3 DEF ExploreRefused, Goto, IInv, Called, Making, Calling, locks, handlers
  <2> QED
    BY <2>1, <2>2, <2>3, <2>4, <2>5 DEF IInv
<1>4. CASE ExplorePoor
  <2>1. PeersAreConnections' /\ OnePerUrl' /\ WithinLimit' /\ PoorestFirst' /\ NoLoop'
    BY <1>4, QuietKeeps DEF ExplorePoor, Goto, Marking, Dropping, Due, locks
  <2>2. TypeOK'
    BY <1>4 DEF ExplorePoor, Goto, IInv, TypeOK, WorkerLabel, Calling, locks, handlers
  <2>3. Locking'
    BY <1>4 DEF ExplorePoor, Goto, IInv, Locking, ConnHeld, PeerHeld, locks, handlers
  <2>4. Iterating'
    BY <1>4 DEF ExplorePoor, Goto, IInv, TypeOK, Iterating, Counting, locks
  <2>5. Called'
    BY <1>4 DEF ExplorePoor, Goto, IInv, Called, Making, Calling, locks, handlers
  <2> QED
    BY <2>1, <2>2, <2>3, <2>4, <2>5 DEF IInv
<1>5. CASE ExploreRich
  <2>1. PeersAreConnections' /\ OnePerUrl' /\ WithinLimit' /\ PoorestFirst' /\ NoLoop'
    BY <1>5, QuietKeeps DEF ExploreRich, Goto, Marking, Dropping, Due, locks
  <2>a. fresh' \in Connection /\ fresh'.url = fresh.url /\ fresh'.node # Self
    <3>1. fresh \in Connection /\ loop # "served"
      BY <1>5 DEF ExploreRich, IInv, Called, Making
    <3>2. PICK n \in Answers(fresh.url), has \in SUBSET Chunks :
            fresh' = [fresh EXCEPT !.node = n, !.has = has]
      BY <1>5 DEF ExploreRich, Answered
    <3>3. n \in Nodes
      BY <3>1, <3>2 DEF Answers
    <3> QED
      BY <3>1, <3>2, <3>3, NodesAssumption DEF Connection
  <2>2. TypeOK'
    BY <1>5, <2>a DEF ExploreRich, Goto, IInv, TypeOK, WorkerLabel, Calling, locks, handlers
  <2>3. Locking'
    BY <1>5 DEF ExploreRich, Goto, IInv, Locking, ConnHeld, PeerHeld, locks, handlers
  <2>4. Iterating'
    BY <1>5 DEF ExploreRich, Goto, IInv, TypeOK, Iterating, Counting, locks
  <2>5. Called'
    BY <1>5, <2>a DEF ExploreRich, Goto, IInv, Called, Making, Calling, locks, handlers
  <2> QED
    BY <2>1, <2>2, <2>3, <2>4, <2>5 DEF IInv
<1>6. CASE ExploreSwapNothing
  <2>1. PeersAreConnections' /\ OnePerUrl' /\ WithinLimit' /\ PoorestFirst' /\ NoLoop'
    BY <1>6, QuietKeeps DEF ExploreSwapNothing, Goto, Marking, Dropping, Due, locks
  <2>2. TypeOK'
    BY <1>6 DEF ExploreSwapNothing, Goto, IInv, TypeOK, WorkerLabel, Calling, locks, handlers
  <2>3. Locking'
    BY <1>6 DEF ExploreSwapNothing, Goto, IInv, Locking, ConnHeld, PeerHeld, locks, handlers
  <2>4. Iterating'
    BY <1>6 DEF ExploreSwapNothing, Goto, IInv, TypeOK, Iterating, Counting, locks
  <2>5. Called'
    BY <1>6 DEF ExploreSwapNothing, Goto, IInv, Called, Making, Calling, locks, handlers
  <2> QED
    BY <2>1, <2>2, <2>3, <2>4, <2>5 DEF IInv
<1>7. CASE ExploreEnd
  <2>1. PeersAreConnections' /\ OnePerUrl' /\ WithinLimit' /\ PoorestFirst' /\ NoLoop'
    BY <1>7, QuietKeeps DEF ExploreEnd, Goto, Marking, Dropping, Due, locks
  <2>2. TypeOK'
    BY <1>7 DEF ExploreEnd, Goto, IInv, TypeOK, WorkerLabel, Calling, locks, handlers
  <2>3. Locking'
    BY <1>7 DEF ExploreEnd, Goto, IInv, Locking, ConnHeld, PeerHeld, locks, handlers
  <2>4. Iterating'
    BY <1>7 DEF ExploreEnd, Goto, IInv, TypeOK, Iterating, Counting, locks
  <2>5. Called'
    BY <1>7 DEF ExploreEnd, Goto, IInv, Called, Making, Calling, locks, handlers
  <2> QED
    BY <2>1, <2>2, <2>3, <2>4, <2>5 DEF IInv
<1> QED
  BY <1>1, <1>2, <1>3, <1>4, <1>5, <1>6, <1>7

(* What the invariant says of the list where nothing is being added to it. *)
LEMMA Settled ==
  ASSUME IInv
  PROVE  /\ connections \in Seq(Connection) /\ Injective(connections) /\ Foreign(connections)
         /\ Len(connections) \in Nat
         /\ pc \notin {"expandMark", "exploreMark", "infoDrop"} => UrlsOf(connections) = active
BY DEF IInv, TypeOK, PeersAreConnections, OnePerUrl, NoLoop, Injective, Foreign, Marking,
       Dropping

LEMMA Apart ==
  ASSUME IInv, pc # "infoDrop"
  PROVE  Members(candidates) \cap UrlsOf(connections) = {}
BY DEF IInv, OnePerUrl, Dropping

(* A ping or an exchange is answered.                                      *)
LEMMA InfoAnsweredKeeps ==
  ASSUME IInv, InfoAnswered
  PROVE  IInv'
<1> USE NoneAssumption, ThreadsAssumption
<1>1. PICK has \in SUBSET Chunks : connections' = Refresh(connections, it, has)
  BY DEF InfoAnswered, Refresh
<1>2. /\ connections' \in Seq(Connection) /\ Len(connections') = Len(connections)
      /\ UrlsOf(connections') = UrlsOf(connections)
      /\ Injective(connections') /\ Foreign(connections')
  <2>1. connections \in Seq(Connection) /\ Injective(connections) /\ Foreign(connections)
    BY Settled
  <2> QED
    BY <1>1, <2>1, Refreshed
<1>3. PeersAreConnections'
  BY <1>2, Settled DEF InfoAnswered, Goto, PeersAreConnections, Marking, Dropping
<1>4. OnePerUrl' /\ WithinLimit' /\ NoLoop'
  BY <1>2, Apart DEF InfoAnswered, IInv, OnePerUrl, Injective, WithinLimit, NoLoop, Foreign
<1>5. Locking' /\ PoorestFirst'
  BY DEF InfoAnswered, Goto, IInv, Locking, PoorestFirst, ConnHeld, PeerHeld, locks, handlers
<1>6. TypeOK' /\ Iterating'
  BY <1>2 DEF InfoAnswered, Goto, IInv, TypeOK, WorkerLabel, Iterating, Counting, locks, handlers
<1>7. Called'
  BY DEF InfoAnswered, Goto, IInv, Called, Making, Calling, locks, handlers
<1> QED
  BY <1>3, <1>4, <1>5, <1>6, <1>7 DEF IInv

(* A ping fails: the address goes first, which leaves a connection that is *)
(* about to be dropped.                                                    *)
LEMMA InfoRefusedKeeps ==
  ASSUME IInv, InfoRefused
  PROVE  IInv'
<1> USE NoneAssumption, ThreadsAssumption
<1>1. /\ pc = "infoCall" /\ pc' = "infoDrop" /\ active' = active \ {connections[it].url}
      /\ UNCHANGED <<connections, candidates, locks, it, turn, least, fresh, handlers>>
  BY DEF InfoRefused, Goto, Due
<1>2. connections[it].url \in UrlsOf(connections)
  BY <1>1, Settled DEF IInv, TypeOK, Iterating, Counting, UrlsOf
<1>3. PeersAreConnections'
  BY <1>1, <1>2, Settled DEF PeersAreConnections, Marking, Dropping, Due
<1>4. OnePerUrl' /\ WithinLimit' /\ NoLoop' /\ PoorestFirst'
  BY <1>1 DEF IInv, OnePerUrl, Dropping, WithinLimit, NoLoop, PoorestFirst, locks
<1>5. Locking' /\ Iterating'
  BY <1>1 DEF IInv, Locking, Iterating, Counting, ConnHeld, PeerHeld, locks, handlers
<1>6. TypeOK'
  BY <1>1 DEF InfoRefused, IInv, TypeOK, WorkerLabel, locks, handlers
<1>7. Called'
  BY <1>1 DEF InfoRefused, IInv, Called, Making, Calling, locks, handlers
<1> QED
  BY <1>3, <1>4, <1>5, <1>6, <1>7 DEF IInv

(* The connection goes, alone or, when an exchange fails, with its address. *)
LEMMA DropKeeps ==
  ASSUME IInv, InfoDrop \/ PexRefused
  PROVE  IInv'
<1> USE NoneAssumption, ThreadsAssumption
<1>1. it \in DOMAIN connections /\ pc \in {"infoDrop", "pexCall"}
  BY Settled DEF InfoDrop, PexRefused, IInv, TypeOK, Iterating, Counting
<1>2. /\ connections' = RemoveAt(connections, it)
      /\ active' \subseteq active /\ active' = UrlsOf(connections) \ {connections[it].url}
  <2>1. CASE InfoDrop
    <3>1. /\ connections' = RemoveAt(connections, it) /\ active' = active
          /\ pc = "infoDrop"
      BY <2>1 DEF InfoDrop
    <3>2. Marking = {} /\ Dropping = {connections[it].url}
      BY <3>1 DEF Marking, Dropping, Due
    <3> QED
      BY <3>1, <3>2 DEF IInv, PeersAreConnections
  <2>2. CASE PexRefused
    BY <2>2, Settled DEF PexRefused, Due
  <2> QED
    BY <2>1, <2>2
<1>3. /\ connections' \in Seq(Connection) /\ Len(connections') = Len(connections) - 1
      /\ UrlsOf(connections') = UrlsOf(connections) \ {connections[it].url}
      /\ Injective(connections') /\ Foreign(connections')
  BY <1>1, <1>2, Settled, Removed
<1>4. pc' \in {"infoEach", "pexEach"} /\ UNCHANGED <<candidates, locks, it>>
  BY DEF InfoDrop, PexRefused, Goto
<1>5. PeersAreConnections'
  BY <1>2, <1>3, <1>4 DEF PeersAreConnections, Marking, Dropping
<1>6. WithinLimit'
  BY <1>3, Settled, LimitAssumption DEF IInv, WithinLimit
<1>7. OnePerUrl' /\ NoLoop'
  <2>1. Dropping \subseteq {connections[it].url}
    BY DEF Dropping, Due
  <2> QED
    BY <1>3, <1>4, <2>1 DEF IInv, OnePerUrl, Injective, NoLoop, Foreign
<1>8. Locking' /\ PoorestFirst'
  BY DEF InfoDrop, PexRefused, Goto, IInv, Locking, PoorestFirst, ConnHeld, PeerHeld, locks,
         handlers
<1>9. TypeOK' /\ Iterating'
  BY <1>2, <1>3 DEF InfoDrop, PexRefused, Goto, IInv, TypeOK, WorkerLabel, Iterating, Counting,
                    locks, handlers
<1>10. Called'
  BY DEF InfoDrop, PexRefused, Goto, IInv, Called, Making, Calling, locks, handlers
<1> QED
  BY <1>5, <1>6, <1>7, <1>8, <1>9, <1>10 DEF IInv

(* The list is sorted.                                                     *)
LEMMA EndKeeps ==
  ASSUME IInv, InfoEnd \/ PexEnd
  PROVE  IInv'
<1> USE NoneAssumption, ThreadsAssumption
<1>1. connections' \in Sortings(connections) /\ UNCHANGED <<active, candidates>>
  BY DEF InfoEnd, PexEnd
<1>2. /\ connections' \in Seq(Connection) /\ Len(connections') = Len(connections)
      /\ UrlsOf(connections') = UrlsOf(connections)
      /\ Injective(connections') /\ Foreign(connections') /\ Rising(connections')
  BY <1>1, Settled, Sorted
<1>3. PeersAreConnections'
  BY <1>1, <1>2, Settled DEF InfoEnd, PexEnd, Goto, PeersAreConnections, Marking, Dropping
<1>4. OnePerUrl' /\ WithinLimit' /\ NoLoop' /\ PoorestFirst'
  <2>1. pc # "infoDrop"
    BY DEF InfoEnd, PexEnd
  <2> QED
    BY <1>1, <1>2, <2>1, Apart DEF IInv, OnePerUrl, Injective, WithinLimit, NoLoop, Foreign,
                                   PoorestFirst, Rising
<1>5. Locking'
  BY DEF InfoEnd, PexEnd, Goto, IInv, Locking, ConnHeld, PeerHeld, handlers
<1>6. TypeOK' /\ Iterating'
  BY <1>1, <1>2 DEF InfoEnd, PexEnd, Goto, IInv, TypeOK, WorkerLabel, Iterating, Counting, handlers
<1>7. Called'
  BY <1>1 DEF InfoEnd, PexEnd, Goto, IInv, Called, Making, Calling, handlers
<1> QED
  BY <1>3, <1>4, <1>5, <1>6, <1>7 DEF IInv

(* A candidate is called: it is no candidate any more, and was not         *)
(* connected.                                                              *)
LEMMA PopKeeps ==
  ASSUME IInv, ExpandPop \/ ExplorePop
  PROVE  IInv'
<1> USE NoneAssumption, ThreadsAssumption, TurnsAssumption
<1>1. /\ candidates # << >> /\ candidates' = Tail(candidates)
      /\ fresh' = [url |-> Head(candidates), node |-> None, has |-> {}]
      /\ pc \in {"expandEach", "exploreEach"} /\ pc' \in {"expandCall", "exploreCall"}
      /\ UNCHANGED <<connections, active, locks, it, handlers, loop>>
  BY DEF ExpandPop, ExplorePop, MayExpand, MayExplore, Pop, Goto
<1>2. candidates \in Seq(Urls) /\ Ordered(candidates, CandidateLimit)
  BY DEF IInv, TypeOK
<1>3. /\ Head(candidates) \in Urls /\ Head(candidates) \in Members(candidates)
      /\ candidates' \in Seq(Urls) /\ Ordered(candidates', CandidateLimit)
      /\ Members(candidates') \subseteq Members(candidates) \ {Head(candidates)}
  BY <1>1, <1>2, PoppedKeeps
<1>4. fresh' \in Connection /\ fresh'.url = Head(candidates)
  BY <1>1, <1>3 DEF Connection
<1>5. UrlsOf(connections) = active /\ Head(candidates) \notin active
  BY <1>1, <1>3, Settled, Apart
<1>6. PeersAreConnections' /\ OnePerUrl' /\ WithinLimit' /\ PoorestFirst' /\ NoLoop'
  <2>1. PeersAreConnections'
    BY <1>1, <1>5 DEF PeersAreConnections, Marking, Dropping
  <2>2. OnePerUrl' /\ WithinLimit' /\ PoorestFirst' /\ NoLoop'
    BY <1>1, <1>3, Apart DEF IInv, OnePerUrl, WithinLimit, PoorestFirst, NoLoop, locks
  <2> QED
    BY <2>1, <2>2
<1>7. pc' = "expandCall" => Len(connections) < ConnectionLimit
  <2> SUFFICES ASSUME ExpandPop
               PROVE  Len(connections) < ConnectionLimit
    BY DEF ExpandPop, ExplorePop, Goto
  <2>1. Cardinality(active) < ConnectionLimit
    BY DEF ExpandPop, MayExpand
  <2> QED
    BY <1>5, <2>1, Settled, Counted
<1>8. Locking' /\ Iterating'
  BY <1>1 DEF IInv, Locking, Iterating, Counting, ConnHeld, PeerHeld, locks, handlers
<1>9. TypeOK'
  <2>1. turn' \in 0..(ExpandTurns + ExploreTurns) /\ UNCHANGED least
    BY DEF ExpandPop, ExplorePop, MayExpand, MayExplore, Pop, IInv, TypeOK
  <2> QED
    BY <1>1, <1>3, <1>4, <2>1 DEF IInv, TypeOK, WorkerLabel, Calling, locks, handlers
<1>10. Called'
  BY <1>1, <1>3, <1>4, <1>5, <1>7 DEF IInv, Called, Making, Calling, handlers
<1> QED
  BY <1>6, <1>8, <1>9, <1>10 DEF IInv

(* A new connection is added, or takes the place of the poorest; then its  *)
(* address is.                                                             *)
LEMMA ExpandAddKeeps ==
  ASSUME IInv, ExpandAdd
  PROVE  IInv'
<1> USE NoneAssumption, ThreadsAssumption
<1> DEFINE list == Append(connections, fresh)
<1>1. /\ fresh \in Connection /\ fresh.url \notin Members(candidates) /\ fresh.url \notin active
      /\ fresh.node # Self /\ Len(connections) < ConnectionLimit /\ UrlsOf(connections) = active
  BY Settled DEF ExpandAdd, IInv, Called, Making
<1>2. /\ list \in Seq(Connection) /\ Len(list) = Len(connections) + 1
      /\ UrlsOf(list) = active \cup {fresh.url} /\ Injective(list) /\ Foreign(list)
  BY <1>1, Settled, Appended
<1>3. connections' \in Sortings(list)
  BY DEF ExpandAdd
<1>4. /\ connections' \in Seq(Connection) /\ Len(connections') = Len(connections) + 1
      /\ UrlsOf(connections') = active \cup {fresh.url}
      /\ Injective(connections') /\ Foreign(connections') /\ Rising(connections')
  <2> HIDE DEF list
  <2> QED
    BY <1>2, <1>3, Sorted
<1>5. PeersAreConnections'
  BY <1>1, <1>4 DEF ExpandAdd, Goto, PeersAreConnections, Marking, Dropping
<1>6. WithinLimit'
  BY <1>1, <1>4, Settled, LimitAssumption DEF WithinLimit
<1>7. OnePerUrl' /\ NoLoop' /\ PoorestFirst'
  BY <1>1, <1>4, Settled, Apart DEF ExpandAdd, IInv, OnePerUrl, Injective, NoLoop, Foreign, PoorestFirst,
                             Rising
<1>8. Locking' /\ Iterating'
  BY DEF ExpandAdd, Goto, IInv, Locking, Iterating, Counting, ConnHeld, PeerHeld, locks, handlers
<1>9. TypeOK'
  BY <1>4 DEF ExpandAdd, Goto, IInv, TypeOK, WorkerLabel, locks, handlers
<1>10. Called'
  BY <1>1 DEF ExpandAdd, Goto, IInv, Called, Making, Calling, handlers
<1> QED
  BY <1>5, <1>6, <1>7, <1>8, <1>9, <1>10 DEF IInv

LEMMA ExploreSwapKeeps ==
  ASSUME IInv, ExploreSwap
  PROVE  IInv'
<1> USE NoneAssumption, ThreadsAssumption
<1> DEFINE rest == Tail(connections)
           list == Append(rest, fresh)
           url == connections[1].url
<1>1. /\ fresh \in Connection /\ fresh.url \notin Members(candidates) /\ fresh.url \notin active
      /\ fresh.node # Self /\ UrlsOf(connections) = active
  BY Settled DEF ExploreSwap, IInv, Called, Making
<1>2. connections # << >> /\ active' = active \ {url} /\ connections' \in Sortings(list)
  BY DEF ExploreSwap
<1>3. rest = RemoveAt(connections, 1) /\ 1 \in DOMAIN connections
  BY <1>2, Settled, Shifted
<1>4. /\ rest \in Seq(Connection) /\ Len(rest) = Len(connections) - 1
      /\ UrlsOf(rest) = active \ {url} /\ Injective(rest) /\ Foreign(rest)
  <2> HIDE DEF rest
  <2> QED
    BY <1>1, <1>3, Settled, Removed
<1>5. /\ list \in Seq(Connection) /\ Len(list) = Len(connections)
      /\ UrlsOf(list) = active' \cup {fresh.url} /\ Injective(list) /\ Foreign(list)
  <2> HIDE DEF rest
  <2>1. fresh.url \notin UrlsOf(rest)
    BY <1>1, <1>4
  <2>2. /\ list \in Seq(Connection) /\ Len(list) = Len(rest) + 1
        /\ UrlsOf(list) = UrlsOf(rest) \cup {fresh.url} /\ Injective(list) /\ Foreign(list)
    BY <1>1, <1>4, <2>1, Appended
  <2> QED
    BY <1>2, <1>4, <2>2, Settled
<1>6. /\ connections' \in Seq(Connection) /\ Len(connections') = Len(connections)
      /\ UrlsOf(connections') = active' \cup {fresh.url}
      /\ Injective(connections') /\ Foreign(connections') /\ Rising(connections')
  <2> HIDE DEF list
  <2> QED
    BY <1>2, <1>5, Sorted
<1>7. PeersAreConnections'
  BY <1>1, <1>2, <1>6 DEF ExploreSwap, Goto, PeersAreConnections, Marking, Dropping
<1>8. UrlsOf(connections') \subseteq UrlsOf(connections) \cup {fresh.url}
  BY <1>1, <1>2, <1>6
<1>9. OnePerUrl' /\ WithinLimit' /\ NoLoop' /\ PoorestFirst'
  BY <1>1, <1>6, <1>8, Apart DEF ExploreSwap, IInv, OnePerUrl, Injective, WithinLimit, NoLoop, Foreign,
                          PoorestFirst, Rising
<1>10. Locking' /\ Iterating'
  BY DEF ExploreSwap, Goto, IInv, Locking, Iterating, Counting, ConnHeld, PeerHeld, locks, handlers
<1>11. TypeOK'
  BY <1>2, <1>6 DEF ExploreSwap, Goto, IInv, TypeOK, WorkerLabel, locks, handlers
<1>12. Called'
  BY <1>1, <1>2 DEF ExploreSwap, Goto, IInv, Called, Making, Calling, handlers
<1> QED
  BY <1>7, <1>9, <1>10, <1>11, <1>12 DEF IInv

LEMMA MarkKeeps ==
  ASSUME IInv, ExpandMark \/ ExploreMark
  PROVE  IInv'
<1> USE NoneAssumption, ThreadsAssumption
<1>1. /\ pc \in {"expandMark", "exploreMark"} /\ pc' \in {"expandEach", "exploreEach"}
      /\ active' = active \cup {fresh.url} /\ fresh' = NoConnection
      /\ UNCHANGED <<connections, candidates, locks, it, turn, least, handlers, loop>>
  BY DEF ExpandMark, ExploreMark, Mark, Goto
<1>2. fresh.url \in Urls
  BY <1>1 DEF IInv, Called, Making, Connection
<1>3. PeersAreConnections'
  BY <1>1 DEF IInv, PeersAreConnections, Marking, Dropping
<1>4. OnePerUrl' /\ WithinLimit' /\ NoLoop' /\ PoorestFirst'
  BY <1>1, Apart DEF IInv, OnePerUrl, WithinLimit, NoLoop, PoorestFirst, locks
<1>5. Locking' /\ Iterating'
  BY <1>1 DEF IInv, Locking, Iterating, Counting, ConnHeld, PeerHeld, locks, handlers
<1>6. TypeOK'
  BY <1>1, <1>2 DEF IInv, TypeOK, WorkerLabel, locks, handlers
<1>7. Called'
  BY <1>1 DEF IInv, Called, Making, Calling, handlers
<1> QED
  BY <1>3, <1>4, <1>5, <1>6, <1>7 DEF IInv

(* A url is heard of, which nobody is adding at the time.                  *)
LEMMA HeardKeeps ==
  ASSUME IInv, NEW u \in Urls, Heard(u), pc \notin Making, UNCHANGED <<connections, pc, it>>
  PROVE  /\ candidates' \in Seq(Urls) /\ Ordered(candidates', CandidateLimit)
         /\ OnePerUrl'
<1>1. candidates \in Seq(Urls) /\ Ordered(candidates, CandidateLimit)
  BY DEF IInv, TypeOK
<1>2. UrlsOf(connections) \ Dropping = active /\ Dropping' = Dropping
  BY DEF IInv, PeersAreConnections, Marking, Dropping, Due, Making
<1>3. CASE u \in active
  BY <1>1, <1>2, <1>3 DEF Heard, IInv, OnePerUrl
<1>4. CASE u \notin active
  <2>1. candidates' = Pushed(candidates, u, CandidateLimit)
    BY <1>4 DEF Heard
  <2>2. /\ candidates' \in Seq(Urls) /\ Ordered(candidates', CandidateLimit)
        /\ Members(candidates') \subseteq Members(candidates) \cup {u}
    BY <1>1, <2>1, PushedKeeps
  <2> QED
    BY <1>2, <1>4, <2>2 DEF IInv, OnePerUrl
<1> QED
  BY <1>3, <1>4

LEMMA PexTakeKeeps ==
  ASSUME IInv, PexTake
  PROVE  IInv'
<1>1. PICK u \in Urls : Heard(u)
  BY DEF PexTake
<1>2. /\ pc = "pexTake"
      /\ UNCHANGED <<connections, active, locks, pc, it, turn, least, fresh, handlers, loop>>
  BY DEF PexTake
<1>3. candidates' \in Seq(Urls) /\ Ordered(candidates', CandidateLimit) /\ OnePerUrl'
  BY <1>1, <1>2, HeardKeeps DEF Making
<1>4. PeersAreConnections' /\ WithinLimit' /\ PoorestFirst' /\ NoLoop'
  BY <1>2 DEF IInv, PeersAreConnections, Marking, Dropping, Due, WithinLimit, PoorestFirst,
              NoLoop, locks
<1>5. Locking' /\ Iterating' /\ Called'
  BY <1>2 DEF IInv, Locking, Iterating, Called, Making, locks, handlers
<1>6. TypeOK'
  BY <1>2, <1>3 DEF IInv, TypeOK, locks, handlers
<1> QED
  BY <1>3, <1>4, <1>5, <1>6 DEF IInv

(* The handlers: calls arrive ...                                          *)
LEMMA RequestKeeps ==
  ASSUME IInv, NEW h \in Handlers, InfoRequest(h) \/ PexRequest(h) \/ LoopBack(h)
  PROVE  IInv'
<1> USE NoneAssumption, ThreadsAssumption, ServedAssumption
<1>1. PICK label \in {"info", "pex"}, caller \in Connection \cup {NoConnection} :
        /\ Serve(h, label, caller)
        /\ label = "info" => caller \in Connection
        /\ pc # "pexCall" /\ loop' # loop => label = "info"
  <2>1. CASE InfoRequest(h)
    BY <2>1 DEF InfoRequest, Callers, Connection
  <2>2. CASE PexRequest(h)
    BY <2>2 DEF PexRequest
  <2>3. CASE LoopBack(h)
    <3>1. PICK has \in SUBSET Chunks :
            Serve(h, IF pc = "pexCall" THEN "pex" ELSE "info",
                  [url |-> Target, node |-> Self, has |-> has])
      BY <2>3 DEF LoopBack
    <3>2. Target \in Urls
      BY <2>3, UrlsAssumption DEF LoopBack
    <3>3. [url |-> Target, node |-> Self, has |-> has] \in Connection
      BY <3>2 DEF Connection
    <3> QED
      BY <3>1, <3>3
  <2> QED
    BY <2>1, <2>2, <2>3
<1>2. /\ serving[h] = "idle" /\ serving' = [serving EXCEPT ![h] = label]
      /\ call' = [call EXCEPT ![h] = caller]
  BY <1>1 DEF Serve
<1>3. /\ UNCHANGED <<connections, active, candidates, locks, pc, it, turn, least, fresh>>
      /\ \/ loop' = loop
         \/ loop = None /\ loop' = h /\ pc \in Calling
  BY DEF InfoRequest, PexRequest, LoopBack
<1>4. serving \in [Handlers -> HandlerLabel] /\ call \in [Handlers -> Connection \cup {NoConnection}]
  BY DEF IInv, TypeOK
<1>5. PeersAreConnections' /\ OnePerUrl' /\ WithinLimit' /\ PoorestFirst' /\ NoLoop'
  BY <1>3, QuietKeeps DEF Marking, Dropping, Due, locks
<1>6. Locking' /\ Iterating'
  BY <1>2, <1>3, <1>4 DEF IInv, Locking, Iterating, locks
<1>7. TypeOK'
  BY <1>2, <1>3, <1>4 DEF IInv, TypeOK, HandlerLabel, locks
<1>8. Called'
  <2>1. \A g \in Handlers : serving'[g] \in {"info", "update"} => call'[g] \in Connection
    BY <1>1, <1>2, <1>4 DEF IInv, Called
  <2>2. pc \in {"expandCall", "exploreCall"} =>
          loop' # "served" /\ \A g \in Handlers : loop' = g => serving'[g] = "info"
    BY <1>1, <1>2, <1>3, <1>4 DEF IInv, Called
  <2> QED
    BY <1>3, <2>1, <2>2 DEF IInv, Called
<1> QED
  BY <1>5, <1>6, <1>7, <1>8 DEF IInv

(* ... take a mutex or wait for it, also when it is this node that calls   *)
(* itself ...                                                              *)
LEMMA InfoHeardKeeps ==
  ASSUME IInv, NEW h \in Handlers, InfoHeard(h)
  PROVE  IInv'
<1> USE NoneAssumption, ThreadsAssumption, ServedAssumption
<1>1. /\ serving[h] = "info" /\ peerOwner = None /\ Heard(call[h].url)
      /\ serving' = [serving EXCEPT ![h] = "update"]
      /\ UNCHANGED <<connections, active, locks, pc, it, turn, least, fresh, call, loop>>
  BY DEF InfoHeard
<1>2. pc \notin PeerHeld
  BY <1>1 DEF IInv, Locking
<1>3. call[h].url \in Urls
  BY <1>1 DEF IInv, Called, Connection
<1>4. candidates' \in Seq(Urls) /\ Ordered(candidates', CandidateLimit) /\ OnePerUrl'
  BY <1>1, <1>2, <1>3, HeardKeeps DEF Making, PeerHeld
<1>5. PeersAreConnections' /\ WithinLimit' /\ PoorestFirst' /\ NoLoop'
  BY <1>1 DEF IInv, PeersAreConnections, Marking, Dropping, Due, WithinLimit, PoorestFirst,
              NoLoop, locks
<1>6. serving \in [Handlers -> HandlerLabel]
  BY DEF IInv, TypeOK
<1>7. Locking' /\ Iterating'
  BY <1>1, <1>6 DEF IInv, Locking, Iterating, locks
<1>8. TypeOK'
  BY <1>1, <1>4, <1>6 DEF IInv, TypeOK, HandlerLabel, locks
<1>9. Called'
  BY <1>1, <1>2, <1>6 DEF IInv, Called, Making, PeerHeld
<1> QED
  BY <1>4, <1>5, <1>7, <1>8, <1>9 DEF IInv

LEMMA PexReceiveKeeps ==
  ASSUME IInv, NEW h \in Handlers, PexReceive(h)
  PROVE  IInv'
<1> USE NoneAssumption, ThreadsAssumption, ServedAssumption
<1>1. /\ serving[h] = "pex" /\ peerOwner = None /\ peerOwner' = h
      /\ serving' = [serving EXCEPT ![h] = "take"]
      /\ UNCHANGED <<connections, active, candidates, connOwner, pc, it, turn, least, fresh, call,
                     loop>>
  BY DEF PexReceive
<1>2. serving \in [Handlers -> HandlerLabel]
  BY DEF IInv, TypeOK
<1>3. PeersAreConnections' /\ OnePerUrl' /\ WithinLimit' /\ PoorestFirst' /\ NoLoop'
  BY <1>1, QuietKeeps DEF Marking, Dropping, Due
<1>4. Locking' /\ Iterating'
  BY <1>1, <1>2 DEF IInv, Locking, Iterating
<1>5. TypeOK'
  BY <1>1, <1>2 DEF IInv, TypeOK, HandlerLabel
<1>6. Called'
  BY <1>1, <1>2 DEF IInv, Called
<1> QED
  BY <1>3, <1>4, <1>5, <1>6 DEF IInv

LEMMA PexHeardKeeps ==
  ASSUME IInv, NEW h \in Handlers, PexHeard(h)
  PROVE  IInv'
<1> USE NoneAssumption, ThreadsAssumption
<1>1. PICK u \in Urls : Heard(u)
  BY DEF PexHeard
<1>2. /\ serving[h] = "take"
      /\ UNCHANGED <<connections, active, locks, pc, it, turn, least, fresh, handlers, loop>>
  BY DEF PexHeard
<1>3. pc \notin PeerHeld
  BY <1>2 DEF IInv, Locking
<1>4. candidates' \in Seq(Urls) /\ Ordered(candidates', CandidateLimit) /\ OnePerUrl'
  BY <1>1, <1>2, <1>3, HeardKeeps DEF Making, PeerHeld
<1>5. PeersAreConnections' /\ WithinLimit' /\ PoorestFirst' /\ NoLoop'
  BY <1>2 DEF IInv, PeersAreConnections, Marking, Dropping, Due, WithinLimit, PoorestFirst,
              NoLoop, locks
<1>6. Locking' /\ Iterating'
  BY <1>2 DEF IInv, Locking, Iterating, locks, handlers
<1>7. TypeOK'
  BY <1>2, <1>4 DEF IInv, TypeOK, locks, handlers
<1>8. Called'
  BY <1>2, <1>3 DEF IInv, Called, Making, PeerHeld, handlers
<1> QED
  BY <1>4, <1>5, <1>6, <1>7, <1>8 DEF IInv

(* ... and return.                                                         *)
LEMMA ReturnKeeps ==
  ASSUME IInv, NEW h \in Handlers, serving[h] \in {"update", "take"}, Return(h), UNCHANGED pc,
         UNCHANGED <<active, candidates, it, turn, least, fresh>>,
         Len(connections') = Len(connections)
  PROVE  /\ serving' \in [Handlers -> HandlerLabel]
         /\ call' \in [Handlers -> Connection \cup {NoConnection}]
         /\ loop' \in Handlers \cup {"served", None}
         /\ Called'
<1> USE NoneAssumption, ServedAssumption
<1>1. /\ serving' = [serving EXCEPT ![h] = "idle"]
      /\ call' = [call EXCEPT ![h] = NoConnection]
      /\ loop' = IF loop = h THEN "served" ELSE loop
  BY DEF Return
<1>2. /\ serving \in [Handlers -> HandlerLabel]
      /\ call \in [Handlers -> Connection \cup {NoConnection}]
      /\ loop \in Handlers \cup {"served", None}
  BY DEF IInv, TypeOK
<1>3. /\ pc \in {"expandCall", "exploreCall"} => loop # h
      /\ pc \notin Calling => loop # h
  BY DEF IInv, Called
<1>4. serving' \in [Handlers -> HandlerLabel] /\ loop' \in Handlers \cup {"served", None}
  BY <1>1, <1>2 DEF HandlerLabel
<1>5. call' \in [Handlers -> Connection \cup {NoConnection}]
  BY <1>1, <1>2
<1>6. Called'
  BY <1>1, <1>2, <1>3 DEF IInv, Called
<1> QED
  BY <1>4, <1>5, <1>6

LEMMA InfoUpdateKeeps ==
  ASSUME IInv, NEW h \in Handlers, InfoUpdate(h)
  PROVE  IInv'
<1> USE NoneAssumption, ThreadsAssumption
<1> DEFINE i == Min(Known(h))
           list == Refresh(connections, i, call[h].has)
<1>1. /\ serving[h] = "update" /\ Return(h)
      /\ connections' = connections \/ connections' \in Sortings(list)
      /\ UNCHANGED <<active, candidates, locks, pc, it, turn, least, fresh>>
  BY DEF InfoUpdate, Refresh
<1>2. call[h].has \in SUBSET Chunks
  BY <1>1 DEF IInv, Called, Connection
<1>3. /\ connections' \in Seq(Connection) /\ Len(connections') = Len(connections)
      /\ UrlsOf(connections') = UrlsOf(connections)
      /\ Injective(connections') /\ Foreign(connections')
      /\ connections' = connections \/ Rising(connections')
  <2> HIDE DEF i
  <2>1. CASE connections' = connections
    BY <2>1, Settled
  <2>2. CASE connections' \in Sortings(list)
    <3>1. /\ list \in Seq(Connection) /\ Len(list) = Len(connections)
          /\ UrlsOf(list) = UrlsOf(connections) /\ Injective(list) /\ Foreign(list)
      BY <1>2, Settled, Refreshed
    <3> HIDE DEF list
    <3> QED
      BY <2>2, <3>1, Sorted
  <2> QED
    BY <1>1, <2>1, <2>2
<1>4. PeersAreConnections'
  <2>1. pc # "infoDrop"
    BY DEF InfoUpdate, IInv, Locking, ConnHeld
  <2> QED
    BY <1>1, <1>3, <2>1 DEF IInv, PeersAreConnections, Marking, Dropping
<1>5. OnePerUrl' /\ WithinLimit' /\ NoLoop'
  <2>1. pc # "infoDrop"
    BY DEF InfoUpdate, IInv, Locking, ConnHeld
  <2> QED
    BY <1>1, <1>3, <2>1, Apart DEF IInv, OnePerUrl, Injective, WithinLimit, NoLoop, Foreign
<1>6. PoorestFirst'
  BY <1>1, <1>3 DEF IInv, PoorestFirst, Rising, locks
<1>7. /\ serving' \in [Handlers -> HandlerLabel]
      /\ call' \in [Handlers -> Connection \cup {NoConnection}]
      /\ loop' \in Handlers \cup {"served", None}
      /\ Called'
  BY <1>1, <1>3, ReturnKeeps
<1>8. TypeOK'
  BY <1>1, <1>3, <1>7 DEF IInv, TypeOK, locks
<1>9. serving \in [Handlers -> HandlerLabel] /\ serving' = [serving EXCEPT ![h] = "idle"]
  BY <1>1 DEF IInv, TypeOK, Return
<1>10. Locking' /\ Iterating'
  BY <1>1, <1>3, <1>9 DEF IInv, Locking, Iterating, locks
<1> QED
  BY <1>4, <1>5, <1>6, <1>7, <1>8, <1>10 DEF IInv

LEMMA PexReplyKeeps ==
  ASSUME IInv, NEW h \in Handlers, PexReply(h)
  PROVE  IInv'
<1> USE NoneAssumption, ThreadsAssumption
<1>1. /\ serving[h] = "take" /\ Return(h) /\ peerOwner' = None
      /\ UNCHANGED <<connections, active, candidates, connOwner, pc, it, turn, least, fresh>>
  BY DEF PexReply
<1>2. PeersAreConnections' /\ OnePerUrl' /\ WithinLimit' /\ PoorestFirst' /\ NoLoop'
  BY <1>1, QuietKeeps DEF Marking, Dropping, Due
<1>3. /\ serving' \in [Handlers -> HandlerLabel]
      /\ call' \in [Handlers -> Connection \cup {NoConnection}]
      /\ loop' \in Handlers \cup {"served", None}
      /\ Called'
  BY <1>1, ReturnKeeps
<1>4. TypeOK'
  BY <1>1, <1>3 DEF IInv, TypeOK
<1>5. serving \in [Handlers -> HandlerLabel] /\ serving' = [serving EXCEPT ![h] = "idle"]
  BY <1>1 DEF IInv, TypeOK, Return
<1>6. Locking' /\ Iterating'
  BY <1>1, <1>5 DEF IInv, Locking, Iterating
<1> QED
  BY <1>2, <1>3, <1>4, <1>6 DEF IInv
----------------------------------------------------------------------------
LEMMA InitIInv == Init => IInv
<1> SUFFICES ASSUME Init
             PROVE  IInv
  OBVIOUS
<1> USE NoneAssumption, ThreadsAssumption, UrlsAssumption, LimitAssumption, TurnsAssumption
<1>1. CASE Bootstrap = None
  <2>1. connections = << >> /\ active = {}
    BY <1>1 DEF Init
  <2>2. /\ PeersAreConnections /\ OnePerUrl /\ WithinLimit /\ PoorestFirst /\ NoLoop
    BY <2>1 DEF Init, PeersAreConnections, Marking, Dropping, UrlsOf, OnePerUrl, WithinLimit, PoorestFirst,
                NoLoop
  <2> QED
    BY <2>1, <2>2 DEF Init, IInv, TypeOK, Ordered, WorkerLabel, HandlerLabel, Calling, Locking,
                      Iterating, Called, ConnHeld, PeerHeld, Counting, Making
<1>2. CASE Bootstrap # None
  <2>1. PICK n \in Nodes : connections = <<[url |-> Bootstrap, node |-> n, has |-> {}]>>
    BY <1>2 DEF Init
  <2>2. /\ Bootstrap \in Urls /\ n # Self /\ active = {Bootstrap}
        /\ [url |-> Bootstrap, node |-> n, has |-> {}] \in Connection
    BY <1>2, NodesAssumption DEF Init, Connection
  <2>3. /\ connections \in Seq(Connection) /\ Len(connections) = 1 /\ DOMAIN connections = {1}
        /\ connections[1].url = Bootstrap /\ connections[1].node # Self
    BY <2>1, <2>2
  <2>4. UrlsOf(connections) = {Bootstrap}
    BY <2>3 DEF UrlsOf
  <2>5. /\ PeersAreConnections /\ OnePerUrl /\ WithinLimit /\ PoorestFirst /\ NoLoop
    BY <2>2, <2>3, <2>4 DEF Init, PeersAreConnections, Marking, Dropping, OnePerUrl, Members, WithinLimit,
                            PoorestFirst, NoLoop
  <2> QED
    BY <2>2, <2>3, <2>5 DEF Init, IInv, TypeOK, Ordered, WorkerLabel, HandlerLabel, Calling,
                            Locking, Iterating, Called, ConnHeld, PeerHeld, Counting, Making
<1> QED
  BY <1>1, <1>2

LEMMA NextIInv == IInv /\ [Next]_vars => IInv'
<1> SUFFICES ASSUME IInv, [Next]_vars
             PROVE  IInv'
  OBVIOUS
<1>1. CASE WorkerStep
  BY <1>1, InfoAndPexQuiet, ExpandQuiet, ExploreQuiet, InfoAnsweredKeeps, InfoRefusedKeeps, DropKeeps, EndKeeps,
     PopKeeps, ExpandAddKeeps, ExploreSwapKeeps, MarkKeeps DEF WorkerStep
<1>2. CASE PexTake
  BY <1>2, PexTakeKeeps
<1>3. ASSUME NEW h \in Handlers,
             \/ InfoRequest(h) \/ PexRequest(h) \/ LoopBack(h) \/ HandlerStep(h) \/ PexHeard(h)
      PROVE  IInv'
  BY <1>3, RequestKeeps, InfoHeardKeeps, PexReceiveKeeps, PexHeardKeeps, InfoUpdateKeeps,
     PexReplyKeeps DEF HandlerStep
<1>4. CASE UNCHANGED vars
  BY <1>4 DEF IInv, TypeOK, PeersAreConnections, Marking, Dropping, Due, OnePerUrl, WithinLimit, PoorestFirst,
              NoLoop, Locking, Iterating, Called, vars, locks, handlers
<1> QED
  BY <1>1, <1>2, <1>3, <1>4 DEF Next, Dead

LEMMA Invariant == Spec => []IInv
BY InitIInv, NextIInv, PTL DEF Spec

(* Every variable of the overlay keeps its type; the queue of candidates   *)
(* stays within its limit and has none twice.                              *)
THEOREM TypeCorrect == Spec => []TypeOK
<1>1. IInv => TypeOK
  BY DEF IInv
<1> QED
  BY <1>1, Invariant, PTL

(* active_peers names the connections, but for the one about to be marked  *)
(* (lines 204 and 271) and the one about to be erased (line 111).          *)
THEOREM PeersAreConnectionsHolds == Spec => []PeersAreConnections
<1>1. IInv => PeersAreConnections
  BY DEF IInv
<1> QED
  BY <1>1, Invariant, PTL

(* No address is connected twice, and none is connected and a candidate    *)
(* but for one whose connection line 111 is about to erase.                *)
THEOREM OnePerUrlHolds == Spec => []OnePerUrl
<1>1. IInv => OnePerUrl
  BY DEF IInv
<1> QED
  BY <1>1, Invariant, PTL

(* There are never more connections than active_connections_limit, though  *)
(* line 165 tests another set, under another mutex.                        *)
THEOREM WithinLimitHolds == Spec => []WithinLimit
<1>1. IInv => WithinLimit
  BY DEF IInv
<1> QED
  BY <1>1, Invariant, PTL

(* With connections_mutex free, the poorest connection is in front.        *)
THEOREM PoorestFirstHolds == Spec => []PoorestFirst
<1>1. IInv => PoorestFirst
  BY DEF IInv
<1> QED
  BY <1>1, Invariant, PTL

(* The node never has a connection to itself: the call comes back to a     *)
(* handler that waits for the mutex its caller holds.                      *)
THEOREM NoLoopHolds == Spec => []NoLoop
<1>1. IInv => NoLoop
  BY DEF IInv
<1> QED
  BY <1>1, Invariant, PTL
=============================================================================
