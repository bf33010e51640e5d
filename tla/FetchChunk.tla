----------------------------- MODULE FetchChunk -----------------------------
(***************************************************************************)
(* How a node gets chunks from its peers: ConnectionPool::fetch_chunk and  *)
(* connection_for_block, GetChunk of the peers, and the loop of the mirror *)
(* command in main.cc, over the masks of ChunkAvailability.  A node either *)
(* mirrors, with one thread that fetches every chunk once, or mounts, with *)
(* threads that fetch chunks as they miss them.                            *)
(*                                                                         *)
(* A chunk is sent in Parts parts; a part is "good" when it is what the    *)
(* image has at that place of the chunk that was asked for, and a checksum *)
(* tells apart exactly the files that consist of all the good parts.       *)
(* Which file a peer reads out is not known: its own may be cut short or   *)
(* be under way, and its image may be another one (FsId).  What the worker *)
(* does to the connections is in ConnectionPool, what a write does to the  *)
(* store in ChunkStore; here each is one step.                             *)
(***************************************************************************)
EXTENDS ChunkAvailability, FsId

CONSTANTS
  Main, Readers,   \* the thread of a mirror, the threads of a mount
  Parts,           \* CHUNK_SIZE_BYTES / WIRE_CHUNK_SIZE_BYTES, rounded up
  Image,           \* get_hashes(): the checksums of the chunks
  ImageOf,         \* ImageOf[p]: those that p has
  Old,             \* what a file of the cache directory may hold at start
  MaxFaults        \* a bound: how often a call fails, a store changes, a file
                   \* that a peer reads out is not whole or a write fails

ASSUME ThreadsAssumption == Main \notin Readers
ASSUME PartsAssumption == Parts \in Nat \ {0}
ASSUME ImageAssumption == Image \in Seq(Seq(Nat)) /\ Ids = 0..(Len(Image) - 1)
ASSUME FaultsAssumption == MaxFaults \in Nat
ASSUME NoneAssumption == None \notin Peers

VARIABLES
  faults,    \* so far
  mode,      \* the command: mirror or mount
  next,      \* the loop variable of a mirror
  mine,      \* mine[i]: the file of i in the store of this node, or None
  missed,    \* the chunks a mirror was told that nobody has
  torn,      \* those whose write has failed
  found,     \* those whose file is the one the cache directory had at start
  pc,        \* where each thread is
  id,        \* id[t]: the argument of fetch_chunk
  used,      \* used[t]: whether `context` was used
  from,      \* from[t]: the peer behind `connection`
  incoming,  \* incoming[t]: what of a file the peer has still to send
  buff,      \* buff[t]: buff
  offset     \* offset[t]: offset

own == <<mine, missed, torn, found>>
calls == <<pc, id, used, from, incoming, buff, offset>>
vars == <<masks, faults, mode, next, own, calls>>

Threads == Readers \cup {Main}
Part == {"good", "bad"}
Files == UNION {[1..n -> Part] : n \in 0..Parts}
Whole == [k \in 1..Parts |-> "good"]

ASSUME OldAssumption == Old \subseteq Files

TypeOK ==
  /\ MasksTypeOK
  /\ faults \in 0..MaxFaults
  /\ mode \in {"mirror", "mount"}
  /\ next \in 0..Len(Image)
  /\ mine \in [Ids -> Files \cup {None}]
  /\ missed \in SUBSET Ids
  /\ torn \in SUBSET Ids
  /\ found \in SUBSET Ids
  /\ pc \in [Threads -> {"idle", "pick", "call", "read", "write", "dead"}]
  /\ id \in [Threads -> Ids \cup {None}]
  /\ used \in [Threads -> BOOLEAN]
  /\ from \in [Threads -> Peers \cup {None}]
  /\ incoming \in [Threads -> Files]
  /\ buff \in [Threads -> [1..Parts -> Part]]
  /\ offset \in [Threads -> 0..Parts]

(* A peer that is connected has the same fs id: this node tests it in line *)
(* 184, the peer in line 41 of distfs_service.cc.                          *)
SameFs == {p \in Peers : FsIdOf(ImageOf[p]) = FsIdOf(Image)}

(* ChunkStore keeps the files that its directory has, lines 14-38, of      *)
(* whatever image they are and however short: nobody looks into them.      *)
Init ==
  /\ MasksInit
  /\ connected \subseteq SameFs
  /\ MaxFaults = 0 => connected = SameFs
  /\ faults = 0
  /\ mode \in {"mirror", "mount"}
  /\ next = 0
  /\ mine \in [Ids -> Old \cup {None}]
  /\ missed = {}
  /\ torn = {}
  /\ found = {i \in Ids : mine[i] # None}
  /\ pc = [t \in Threads |-> "idle"]
  /\ id = [t \in Threads |-> None]
  /\ used = [t \in Threads |-> FALSE]
  /\ from = [t \in Threads |-> None]
  /\ incoming = [t \in Threads |-> << >>]
  /\ buff = [t \in Threads |-> [k \in 1..Parts |-> "bad"]]
  /\ offset = [t \in Threads |-> 0]
----------------------------------------------------------------------------
Fault ==
  /\ faults < MaxFaults
  /\ faults' = faults + 1

(* The masks come and go while chunks are fetched.                         *)
Mask ==
  /\ \E p \in SameFs :
       \/ (Answer(p) \/ Receive(p) \/ Ping(p) \/ Pinged(p)) /\ UNCHANGED faults
       \/ (Change(p) \/ TimeOut(p)) /\ Fault
  /\ UNCHANGED <<mode, next, own, calls>>

(* fetch_chunk is called: lines 35-39.                                     *)
Called(t, i) ==
  /\ pc[t] = "idle"
  /\ pc' = [pc EXCEPT ![t] = "pick"]
  /\ id' = [id EXCEPT ![t] = i]
  /\ used' = [used EXCEPT ![t] = FALSE]
  /\ UNCHANGED <<masks, faults, mode, own, from, incoming, buff, offset>>

(* By the loop of main.cc, lines 42-44, ...                                *)
Mirror ==
  /\ mode = "mirror"
  /\ next < Len(Image)
  /\ Called(Main, next)
  /\ next' = next + 1

(* ... or by ChunkProvider::read_chunk, line 45, when there is no file: one *)
(* that is there is taken as it is.                                        *)
Miss(t, i) ==
  /\ mode = "mount"
  /\ mine[i] = None
  /\ Called(t, i)
  /\ UNCHANGED next

(* It returns; nobody looks at what it returns to a mirror.                *)
Return(t) ==
  /\ pc' = [pc EXCEPT ![t] = "idle"]
  /\ id' = [id EXCEPT ![t] = None]
  /\ used' = [used EXCEPT ![t] = FALSE]
  /\ from' = [from EXCEPT ![t] = None]
  /\ incoming' = [incoming EXCEPT ![t] = << >>]
  /\ buff' = [buff EXCEPT ![t] = [k \in 1..Parts |-> "bad"]]
  /\ offset' = [offset EXCEPT ![t] = 0]

(* connection_for_block, lines 68-83.                                      *)
(* Mutant: it looks at one connection only.                                *)
HoldersAtOne(i) ==
  {p \in connected : i \in view[p] /\ p = CHOOSE q \in connected : TRUE}

Holders(i) == {p \in connected : i \in view[p]}

Pick(t) ==
  /\ pc[t] = "pick"
  /\ \E p \in Holders(id[t]) : from' = [from EXCEPT ![t] = p]
  /\ pc' = [pc EXCEPT ![t] = "call"]
  /\ UNCHANGED <<masks, faults, mode, next, own, id, used, incoming, buff, offset>>

NotFound(t) ==
  /\ pc[t] = "pick"
  /\ Holders(id[t]) = {}
  /\ missed' = IF mode = "mirror" THEN missed \cup {id[t]} ELSE missed
  /\ Return(t)
  /\ UNCHANGED <<masks, faults, mode, next, mine, torn, found>>

(* What GetChunk of p, distfs_service.cc lines 9-37, reads for chunk i.    *)
Served(p, i) ==
  IF i < Len(ImageOf[p]) /\ ImageOf[p][i + 1] = Image[i + 1]
    THEN {Whole} ELSE Files \ {Whole}

(* Its file is cut short, or under way, or complete and not in the index   *)
(* of p yet.                                                               *)
Damaged(p, i) == Files \ ({Whole} \ Served(p, i))

Opened(t) ==
  \/ /\ id[t] \in stored[from[t]]
     /\ \E f \in Served(from[t], id[t]) : incoming' = [incoming EXCEPT ![t] = f]
     /\ UNCHANGED faults
  \/ /\ \E f \in Damaged(from[t], id[t]) : incoming' = [incoming EXCEPT ![t] = f]
     /\ Fault

(* Line 48.  The context serves one call: the library may end the process  *)
(* on a second one (Reused), or not.                                       *)
(* Mutant: offset is set before the loop only.                             *)
CallOn(t) ==
  /\ pc[t] = "call"
  /\ Opened(t)
  /\ used' = [used EXCEPT ![t] = TRUE]
  /\ pc' = [pc EXCEPT ![t] = "read"]
  /\ UNCHANGED <<masks, mode, next, own, id, from, buff, offset>>

Call(t) ==
  /\ pc[t] = "call"
  /\ Opened(t)
  /\ offset' = [offset EXCEPT ![t] = 0]
  /\ used' = [used EXCEPT ![t] = TRUE]
  /\ pc' = [pc EXCEPT ![t] = "read"]
  /\ UNCHANGED <<masks, mode, next, own, id, from, buff>>

Reused(t) ==
  /\ pc[t] = "call"
  /\ used[t]
  /\ pc' = [u \in Threads |-> "dead"]
  /\ UNCHANGED <<masks, faults, mode, next, own, id, used, from, incoming, buff, offset>>

(* Lines 49-52.                                                            *)
Read(t) ==
  /\ pc[t] = "read"
  /\ incoming[t] # << >>
  /\ buff' = [buff EXCEPT ![t][offset[t] + 1] = Head(incoming[t])]
  /\ offset' = [offset EXCEPT ![t] = @ + 1]
  /\ incoming' = [incoming EXCEPT ![t] = Tail(@)]
  /\ UNCHANGED <<masks, faults, mode, next, own, pc, id, used, from>>

(* The status is not ok: the peer has dropped the chunk since it made its  *)
(* mask, ...                                                               *)
Again(t) ==
  /\ pc' = [pc EXCEPT ![t] = "pick"]
  /\ from' = [from EXCEPT ![t] = None]
  /\ incoming' = [incoming EXCEPT ![t] = << >>]

Absent(t) ==
  /\ pc[t] = "call"
  /\ id[t] \notin stored[from[t]]
  /\ Again(t)
  /\ offset' = [offset EXCEPT ![t] = 0]
  /\ used' = [used EXCEPT ![t] = TRUE]
  /\ UNCHANGED <<masks, faults, mode, next, own, id, buff>>

(* ... or cannot read it, or is gone after some parts.                     *)
Failed(t) ==
  /\ pc[t] = "read"
  /\ Again(t)
  /\ Fault
  /\ UNCHANGED <<masks, mode, next, own, id, used, buff, offset>>

(* Lines 55-60.                                                            *)
(* Mutants: a checksum of the length only; no second attempt.              *)
GenuineLength(t) == offset[t] = Parts
Genuine(t) == SubSeq(buff[t], 1, offset[t]) = Whole

Received(t) == pc[t] = "read" /\ incoming[t] = << >>

Verified(t) ==
  /\ Received(t)
  /\ Genuine(t)
  /\ pc' = [pc EXCEPT ![t] = "write"]
  /\ UNCHANGED <<masks, faults, mode, next, own, id, used, from, incoming, buff, offset>>

MismatchEnds(t) ==
  /\ Received(t)
  /\ ~Genuine(t)
  /\ Return(t)
  /\ UNCHANGED <<masks, faults, mode, next, own>>

Mismatch(t) ==
  /\ Received(t)
  /\ ~Genuine(t)
  /\ Again(t)
  /\ UNCHANGED <<masks, faults, mode, next, own, id, used, buff, offset>>

(* Line 61; the buffer is written as far as it was filled.                 *)
Write(t) ==
  /\ pc[t] = "write"
  /\ mine' = [mine EXCEPT ![id[t]] = SubSeq(buff[t], 1, offset[t])]
  /\ torn' = torn \ {id[t]}
  /\ found' = found \ {id[t]}
  /\ Return(t)
  /\ UNCHANGED <<masks, faults, mode, next, missed>>

(* It fails, before or after it has opened the file, which is not noticed. *)
WriteFails(t) ==
  /\ pc[t] = "write"
  /\ Fault
  /\ \/ UNCHANGED <<mine, found>>
     \/ /\ \E n \in 0..Parts : mine' = [mine EXCEPT ![id[t]] = SubSeq(buff[t], 1, n)]
        /\ found' = found \ {id[t]}
  /\ torn' = torn \cup {id[t]}
  /\ Return(t)
  /\ UNCHANGED <<masks, mode, next, missed>>

(* The store of a mount is bounded.                                        *)
Evict(i) ==
  /\ mode = "mount"
  /\ mine' = [mine EXCEPT ![i] = None]
  /\ torn' = torn \ {i}
  /\ found' = found \ {i}
  /\ UNCHANGED <<masks, faults, mode, next, missed, calls>>

Fetch(t) ==
  \/ Pick(t) \/ NotFound(t) \/ Call(t) \/ Reused(t) \/ Read(t) \/ Failed(t)
  \/ Absent(t) \/ Verified(t) \/ Mismatch(t) \/ Write(t) \/ WriteFails(t)

Next ==
  \/ Mask \/ Mirror
  \/ \E i \in Ids : Evict(i) \/ \E t \in Readers : Miss(t, i)
  \/ \E t \in Threads : Fetch(t)

Spec == Init /\ [][Next]_vars
----------------------------------------------------------------------------
(* Every file that this node wrote is the chunk of the image whose name it *)
(* has, no matter what the peers send, how often a call breaks off, and    *)
(* what is left in the buffer of earlier attempts; but for a file whose    *)
(* write has failed, which line 61 does not notice.  Of a file that the    *)
(* cache directory had at start nothing can be said.                       *)
OnlyGenuine == \A i \in Ids \ (torn \cup found) : mine[i] \in {None, Whole}

(* A part always fits into what is left of the buffer, line 50.            *)
PartsFit ==
  \A t \in Threads : pc[t] = "read" => offset[t] + Len(incoming[t]) <= Parts

(* When a mirror has been through all chunks, those it lacks are the ones  *)
(* it was told that nobody has, and the ones whose write failed: a peer    *)
(* that fails, or sends something else, costs no chunk.                    *)
Mirrored == mode = "mirror" /\ next = Len(Image) /\ pc[Main] = "idle"

GapsAreKnown == Mirrored => \A i \in Ids \ (missed \cup torn) : mine[i] = Whole

(* A mirror misses a chunk only when each of its peers had none of it when *)
(* it was last heard of, or had it at the top of its mask.                 *)
MissedIsUnheard ==
  [][\A i \in missed' \ missed, p \in connected :
       i \in heard[p] => i % 8 = 0 /\ \A j \in heard[p] : j <= i]_vars

(* README.md:17, "Mirror server-only mode": when the node begins to serve, *)
(* main.cc line 45, it has the chunks that the nodes it mirrors have.      *)
MirrorComplete ==
  Mirrored => \A p \in connected : \A i \in stored[p] : mine[i] = Whole
=============================================================================
