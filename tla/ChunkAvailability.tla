-------------------------- MODULE ChunkAvailability --------------------------
(***************************************************************************)
(* How a node learns which chunks its peers have: the bit mask of          *)
(* network/chunk_availability.{h,cc}, built from ChunkStore::available()   *)
(* by a peer and read by this node.  A mask comes as the answer of an      *)
(* InfoExchange that this node called, or with one that the peer called.   *)
(*                                                                         *)
(* A string of bytes is a sequence of sets of bits.  The stores change     *)
(* while a mask is under way; `answer`, `ping` and `heard` are the sets    *)
(* that the masks under way, and the view of this node, were made from.    *)
(***************************************************************************)
EXTENDS Integers, Sequences, FiniteSetsExt

CONSTANTS
  Ids,    \* chunk ids
  Peers,  \* the other nodes
  None    \* no mask under way

ASSUME IdsAssumption == Ids \subseteq Nat /\ IsFiniteSet(Ids)

VARIABLES
  stored,     \* stored[p]: in_store of p
  answer,     \* answer[p]: what p had when it answered this node, or None
  ping,       \* ping[p]: what p had when it called this node, or None
  connected,  \* the peers this node has a connection to
  heard,      \* heard[p]: what p had when the last mask that arrived was made
  view        \* view[p]: `chunks` of the availability of the connection to p

masks == <<stored, answer, ping, connected, heard, view>>
----------------------------------------------------------------------------
Bit == 0..7

(* bitmask(), lines 24-35.  The loop sets bit x % 8 of byte x / 8 of every *)
(* x; a bit of the byte just behind the string is not part of it.          *)
(* Mutant: the length is a byte short whenever the last byte is not full.  *)
ShortMask(chunks) ==
  LET size == IF chunks = {} THEN 0 ELSE (Max(chunks) + 1) \div 8
  IN  [k \in 1..size |-> {b \in Bit : 8 * (k - 1) + b \in chunks}]

Bitmask(chunks) ==
  LET size == IF chunks = {} THEN 0 ELSE (Max(chunks) \div 8) + (Max(chunks) % 8)
  IN  [k \in 1..size |-> {b \in Bit : 8 * (k - 1) + b \in chunks}]

(* The constructor from a string, lines 9-18.                              *)
Decoded(mask) ==
  {x \in 0..(8 * Len(mask) - 1) : x % 8 \in mask[(x \div 8) + 1]}

(* What comes out of the two.                                              *)
Lossy(chunks) ==
  IF chunks # {} /\ Max(chunks) % 8 = 0 THEN chunks \ {Max(chunks)} ELSE chunks
----------------------------------------------------------------------------
MasksTypeOK ==
  /\ stored \in [Peers -> SUBSET Ids]
  /\ answer \in [Peers -> (SUBSET Ids) \cup {None}]
  /\ ping \in [Peers -> (SUBSET Ids) \cup {None}]
  /\ connected \in SUBSET Peers
  /\ heard \in [Peers -> SUBSET Ids]
  /\ view \in [Peers -> SUBSET Ids]

(* The constructor of the ConnectionPool, which runs a round of the        *)
(* worker, has connected some of the peers.                                *)
MasksInit ==
  /\ stored \in [Peers -> SUBSET Ids]
  /\ answer = [p \in Peers |-> None]
  /\ ping = [p \in Peers |-> None]
  /\ connected \in SUBSET Peers
  /\ heard = [p \in Peers |-> IF p \in connected THEN stored[p] ELSE {}]
  /\ view = [p \in Peers |-> Decoded(Bitmask(heard[p]))]

(* ChunkStore inserts and erases.                                          *)
Change(p) ==
  /\ \E i \in Ids : stored' = [stored EXCEPT ![p] = IF i \in @ THEN @ \ {i} ELSE @ \cup {i}]
  /\ UNCHANGED <<answer, ping, connected, heard, view>>

(* InfoExchange of p makes its answer, distfs_service.cc line 49.          *)
Answer(p) ==
  /\ answer[p] = None
  /\ answer' = [answer EXCEPT ![p] = stored[p]]
  /\ UNCHANGED <<stored, ping, connected, heard, view>>

(* What this node believes of p from now on.                               *)
Learn(p, chunks) ==
  /\ heard' = [heard EXCEPT ![p] = chunks]
  /\ view' = [view EXCEPT ![p] = Decoded(Bitmask(chunks))]

(* worker_get_info reads the answer, connection_pool.cc line 104, as does  *)
(* worker_expand, line 197, for a new connection.                          *)
Receive(p) ==
  /\ answer[p] # None
  /\ Learn(p, answer[p])
  /\ connected' = connected \cup {p}
  /\ answer' = [answer EXCEPT ![p] = None]
  /\ UNCHANGED <<stored, ping>>

(* Its deadline has passed: the view goes with the connection, lines       *)
(* 109-111.                                                                *)
TimeOut(p) ==
  /\ Learn(p, {})
  /\ connected' = connected \ {p}
  /\ answer' = [answer EXCEPT ![p] = None]
  /\ UNCHANGED <<stored, ping>>

(* The worker of p calls this node, lines 90-94 ...                        *)
Ping(p) ==
  /\ ping[p] = None
  /\ ping' = [ping EXCEPT ![p] = stored[p]]
  /\ UNCHANGED <<stored, answer, connected, heard, view>>

(* ... whose handler waits for connections_mutex, and finds a connection   *)
(* or not, lines 299-308.                                                  *)
Pinged(p) ==
  /\ ping[p] # None
  /\ IF p \in connected THEN Learn(p, ping[p]) ELSE UNCHANGED <<heard, view>>
  /\ ping' = [ping EXCEPT ![p] = None]
  /\ UNCHANGED <<stored, answer, connected>>

MasksNext ==
  \E p \in Peers :
    Change(p) \/ Answer(p) \/ Receive(p) \/ TimeOut(p) \/ Ping(p) \/ Pinged(p)

MasksSpec == MasksInit /\ [][MasksNext]_masks
----------------------------------------------------------------------------
(* A peer is never believed to have a chunk it did not have when it made   *)
(* the mask, and of what it had only the largest can be missing, when that *)
(* is the first of its byte: the length of the mask in line 30 is right    *)
(* for every other set.                                                    *)
AllButTheTop ==
  \A p \in Peers :
    /\ view[p] \subseteq heard[p]
    /\ \A i \in heard[p] \ view[p] : i % 8 = 0 /\ \A j \in heard[p] : j <= i
=============================================================================
