----------------------------- MODULE ChunkStore -----------------------------
(***************************************************************************)
(* The chunks on disk: data/chunk_store.{h,cc}.  FUSE threads, the threads *)
(* of the gRPC server and the mirror loop read and write it concurrently;  *)
(* nothing but the collector's mutex and the mutex of in_store orders them.*)
(*                                                                         *)
(* A directory entry names an inode, an open descriptor keeps one alive.   *)
(* The content of an inode is the set of its Parts that were written.  The *)
(* open, write, close and unlink calls are steps of their own, since the   *)
(* code takes no lock around them; a read takes a snapshot.  Writes may be *)
(* short, writes and unlinks may fail, and the process may be killed and   *)
(* restarted at any step.  Calls that return before they change anything   *)
(* (no such file, the directory or the file cannot be opened) are left out.*)
(***************************************************************************)
EXTENDS LruCollector, FiniteSets

CONSTANTS
  Threads,      \* the threads that read and write chunks
  Chunks,       \* chunk ids
  Inode,        \* names of files, reused once unreachable (a bound)
  Parts,        \* a chunk is written in at most this many write() calls
  Size,         \* size of the constructor
  MaxFailures,  \* bound on failing system calls
  MaxCrashes,   \* bound on restarts
  None          \* no file, no thread, no chunk

ASSUME ChunksAssumption == Chunks \subseteq Nat /\ IsFiniteSet(Chunks)
ASSUME InodeAssumption == Inode \subseteq Nat
ASSUME PartsAssumption == Parts \in Nat \ {0}
ASSUME SizeAssumption == Size \in Nat \ {0}
ASSUME BoundsAssumption == MaxFailures \in Nat /\ MaxCrashes \in Nat
ASSUME NoneAssumption == None \notin Threads \cup Chunks \cup Inode
ASSUME ThreadsAssumption == IsFiniteSet(Threads)

VARIABLES
  dir,        \* dir[i]: the inode of the file named after i
  body,       \* body[n]: the parts of the chunk that inode n holds
  inStore,    \* in_store, what available() advertises to the network
  lru,        \* the queue of the LruCollector
  lruOwner,   \* the thread that holds the collector's mutex across an eviction
  pc,         \* where each thread is
  op,         \* op[t]: whether t reads or writes
  req,        \* req[t]: the id of t's call
  fd,         \* fd[t]: the inode t has open
  done,       \* done[t]: how many parts t has written, of a write in progress
  victim,     \* victim[t]: the id t evicts
  failures, crashes,   \* counters of the bounds
  torn,       \* inodes whose writer failed or was killed
  stray,      \* ids whose file was left behind by a failed call
  overtaken   \* ids whose file was unlinked while a write of them was in flight

disk == <<dir, body>>
call == <<op, req>>
bounds == <<failures, crashes>>
history == <<torn, stray, overtaken>>
vars == <<dir, body, inStore, lru, lruOwner, pc, op, req, fd, done, victim,
          failures, crashes, torn, stray, overtaken>>

Evicting == {"unlink", "erase"}
Label == {"idle", "write", "touch", "insert", "read"} \cup Evicting

TypeOK ==
  /\ dir \in [Chunks -> Inode \cup {None}]
  /\ body \in [Inode -> SUBSET (1..Parts)]
  /\ inStore \in SUBSET Chunks
  /\ lru \in Seq(Chunks)
  /\ WellFormed(lru, Size)
  /\ lruOwner \in Threads \cup {None}
  /\ pc \in [Threads -> Label]
  /\ op \in [Threads -> {"read", "write"}]
  /\ req \in [Threads -> Chunks \cup {None}]
  /\ fd \in [Threads -> Inode \cup {None}]
  /\ done \in [Threads -> 0..Parts]
  /\ victim \in [Threads -> Chunks \cup {None}]
  /\ failures \in 0..MaxFailures
  /\ crashes \in 0..MaxCrashes
  /\ torn \in SUBSET Inode
  /\ stray \in SUBSET Chunks
  /\ overtaken \in SUBSET Chunks

Init ==
  /\ dir = [i \in Chunks |-> None]
  /\ body = [n \in Inode |-> {}]
  /\ inStore = {}
  /\ lru = << >>
  /\ lruOwner = None
  /\ pc = [t \in Threads |-> "idle"]
  /\ op = [t \in Threads |-> "read"]
  /\ req = [t \in Threads |-> None]
  /\ fd = [t \in Threads |-> None]
  /\ done = [t \in Threads |-> 0]
  /\ victim = [t \in Threads |-> None]
  /\ failures = 0
  /\ crashes = 0
  /\ torn = {}
  /\ stray = {}
  /\ overtaken = {}
----------------------------------------------------------------------------
Files == {i \in Chunks : dir[i] # None}
Whole(n) == body[n] = 1..Parts

Writers(i) == {t \in Threads : pc[t] # "idle" /\ op[t] = "write" /\ req[t] = i}

Free(n) ==
  /\ \A i \in Chunks : dir[i] # n
  /\ \A t \in Threads : fd[t] # n

Fresh(n) == Free(n) /\ \A m \in Inode : Free(m) => n <= m

Goto(t, label) == pc' = [pc EXCEPT ![t] = label]

Start(t, i, kind) ==
  /\ pc[t] = "idle"
  /\ op' = [op EXCEPT ![t] = kind]
  /\ req' = [req EXCEPT ![t] = i]

Return(t) ==
  /\ Goto(t, "idle")
  /\ op' = [op EXCEPT ![t] = "read"]
  /\ req' = [req EXCEPT ![t] = None]
  /\ fd' = [fd EXCEPT ![t] = None]
  /\ done' = [done EXCEPT ![t] = 0]

(* Lines 55-56: the file is there.                                         *)
ReadOpen(t, i) ==
  /\ Start(t, i, "read")
  /\ dir[i] # None
  /\ fd' = [fd EXCEPT ![t] = dir[i]]
  /\ Goto(t, "touch")
  /\ UNCHANGED <<disk, inStore, lru, lruOwner, done, victim, bounds, history>>

(* Lines 88-94: open with O_CREAT | O_TRUNC.                               *)
WriteOpen(t, i) ==
  /\ Start(t, i, "write")
  /\ \E n \in Inode :
       /\ IF dir[i] # None THEN n = dir[i] ELSE Fresh(n)
       /\ dir' = [dir EXCEPT ![i] = n]
       /\ body' = [body EXCEPT ![n] = {}]
       /\ fd' = [fd EXCEPT ![t] = n]
       /\ torn' = torn \ {n}
  /\ overtaken' = overtaken \ {i}
  /\ Goto(t, "write")
  /\ UNCHANGED <<inStore, lru, lruOwner, done, victim, bounds, stray>>

(* Mutant: the loop of lines 100-104 is left after a short write.          *)
WriteOnce(t) ==
  /\ pc[t] = "write"
  /\ \E k \in 1..Parts :
       /\ body' = [body EXCEPT ![fd[t]] = @ \cup (1..k)]
       /\ done' = [done EXCEPT ![t] = 0]
       /\ fd' = [fd EXCEPT ![t] = None]
       /\ Goto(t, "touch")
  /\ UNCHANGED <<dir, inStore, lru, lruOwner, call, victim, bounds, history>>

(* Lines 100-104: one turn of the loop, write() takes some of what is left.*)
(* Each descriptor has its own offset.  After the last part comes line 110.*)
WriteSome(t) ==
  /\ pc[t] = "write"
  /\ \E k \in (done[t] + 1)..Parts :
       /\ body' = [body EXCEPT ![fd[t]] = @ \cup ((done[t] + 1)..k)]
       /\ IF k < Parts
          THEN done' = [done EXCEPT ![t] = k] /\ UNCHANGED <<fd, pc>>
          ELSE /\ done' = [done EXCEPT ![t] = 0]
               /\ fd' = [fd EXCEPT ![t] = None]
               /\ Goto(t, "touch")
  /\ UNCHANGED <<dir, inStore, lru, lruOwner, call, victim, bounds, history>>

(* Lines 105-108: the file stays, as long as it got.                       *)
WriteError(t) ==
  /\ pc[t] = "write"
  /\ failures < MaxFailures
  /\ failures' = failures + 1
  /\ torn' = torn \cup {fd[t]}
  /\ stray' = stray \cup ({req[t]} \ Held(lru))
  /\ Return(t)
  /\ UNCHANGED <<disk, inStore, lru, lruOwner, victim, crashes, overtaken>>

(* collector->update(id) of lines 65 and 111 ends with id in front.        *)
After(t) == IF op[t] = "write" THEN "insert" ELSE "read"

(* Mutant: line 18 of lru_collector.cc is missing.                         *)
TouchTwice(t) ==
  /\ pc[t] = "touch"
  /\ lruOwner = None
  /\ ~Evicts(lru, req[t], Size)
  /\ lru' = <<req[t]>> \o lru
  /\ stray' = stray \ {req[t]}
  /\ Goto(t, After(t))
  /\ UNCHANGED <<disk, inStore, lruOwner, call, fd, done, victim, bounds, torn, overtaken>>

Touch(t) ==
  /\ pc[t] = "touch"
  /\ lruOwner = None
  /\ ~Evicts(lru, req[t], Size)
  /\ lru' = Updated(lru, req[t], Size)
  /\ stray' = stray \ {req[t]}
  /\ Goto(t, After(t))
  /\ UNCHANGED <<disk, inStore, lruOwner, call, fd, done, victim, bounds, torn, overtaken>>

(* Or with a call of the remover, lines 39-42, under the collector's mutex.*)
(* Mutant: the remover is called without the mutex.                        *)
EvictUnlocked(t) ==
  /\ pc[t] = "touch"
  /\ lruOwner = None
  /\ Evicts(lru, req[t], Size)
  /\ victim' = [victim EXCEPT ![t] = lru[Len(lru)]]
  /\ lru' = SubSeq(lru, 1, Len(lru) - 1)
  /\ Goto(t, "unlink")
  /\ UNCHANGED <<disk, inStore, lruOwner, call, fd, done, bounds, history>>

Evict(t) ==
  /\ pc[t] = "touch"
  /\ lruOwner = None
  /\ Evicts(lru, req[t], Size)
  /\ lruOwner' = t
  /\ victim' = [victim EXCEPT ![t] = lru[Len(lru)]]
  /\ lru' = SubSeq(lru, 1, Len(lru) - 1)
  /\ Goto(t, "unlink")
  /\ UNCHANGED <<disk, inStore, call, fd, done, bounds, history>>

(* remove_chunk, lines 119-127: the file is gone ...                       *)
(* Mutant: only in_store forgets the chunk.                                *)
UnlinkNothing(t) ==
  /\ pc[t] = "unlink"
  /\ dir[victim[t]] # None
  /\ Goto(t, "erase")
  /\ UNCHANGED <<disk, inStore, lru, lruOwner, call, fd, done, victim, bounds, history>>

Unlink(t) ==
  /\ pc[t] = "unlink"
  /\ dir[victim[t]] # None
  /\ dir' = [dir EXCEPT ![victim[t]] = None]
  /\ stray' = stray \ {victim[t]}
  /\ overtaken' = IF Writers(victim[t]) # {} THEN overtaken \cup {victim[t]}
                                             ELSE overtaken
  /\ Goto(t, "erase")
  /\ UNCHANGED <<body, inStore, lru, lruOwner, call, fd, done, victim, bounds, torn>>

Pushed(t) ==
  /\ lru' = <<req[t]>> \o lru
  /\ lruOwner' = None
  /\ victim' = [victim EXCEPT ![t] = None]
  /\ Goto(t, After(t))

(* ... or was gone before, which leaves in_store as it is ...              *)
UnlinkAbsent(t) ==
  /\ pc[t] = "unlink"
  /\ dir[victim[t]] = None
  /\ Pushed(t)
  /\ stray' = stray \ {req[t]}
  /\ UNCHANGED <<disk, inStore, call, fd, done, bounds, torn, overtaken>>

(* ... or cannot be unlinked, and the collector has forgotten it.          *)
UnlinkError(t) ==
  /\ pc[t] = "unlink"
  /\ dir[victim[t]] # None
  /\ failures < MaxFailures
  /\ failures' = failures + 1
  /\ Pushed(t)
  /\ stray' = (stray \cup {victim[t]}) \ {req[t]}
  /\ UNCHANGED <<disk, inStore, call, fd, done, crashes, torn, overtaken>>

(* Lines 128-131.                                                          *)
Erase(t) ==
  /\ pc[t] = "erase"
  /\ inStore' = inStore \ {victim[t]}
  /\ Pushed(t)
  /\ stray' = stray \ {req[t]}
  /\ UNCHANGED <<disk, call, fd, done, bounds, torn, overtaken>>

(* Lines 112-116.                                                          *)
Insert(t) ==
  /\ pc[t] = "insert"
  /\ inStore' = inStore \cup {req[t]}
  /\ Return(t)
  /\ UNCHANGED <<disk, lru, lruOwner, victim, bounds, history>>

(* Lines 67-81.                                                            *)
ReadBody(t) ==
  /\ pc[t] = "read"
  /\ Return(t)
  /\ UNCHANGED <<disk, inStore, lru, lruOwner, victim, bounds, history>>

(* The constructor, lines 11-46, touches what it found in ascending order, *)
(* so that the largest ids survive, the largest of them in front.          *)
Survivors(found) ==
  {i \in found : Cardinality({j \in found : j > i}) < Size}

Rebuilt(kept) ==
  {q \in UNION {[1..n -> kept] : n \in 0..Size} :
     /\ Held(q) = kept
     /\ \A j, k \in DOMAIN q : j < k => q[j] > q[k]}

(* A file that it cannot unlink stays where it is and in in_store, lines   *)
(* 122-127, but not in the queue.                                          *)
Unlinkable(failed) ==
  /\ failed \subseteq Files \ Survivors(Files)
  /\ failures + Cardinality(failed) <= MaxFailures
  /\ failures' = failures + Cardinality(failed)
  /\ stray' = failed

(* Mutants: it touches nothing (lines 43-45); the ids it evicts stay in    *)
(* in_store.                                                               *)
ConstructForgets ==
  /\ Unlinkable({})
  /\ inStore' = Files
  /\ lru' = << >>
  /\ UNCHANGED dir

ConstructKeepsIds ==
  \E failed \in SUBSET Files :
    LET kept == Survivors(Files)
    IN  /\ Unlinkable(failed)
        /\ dir' = [i \in Chunks |-> IF i \in kept \cup failed THEN dir[i] ELSE None]
        /\ inStore' = Files
        /\ lru' \in Rebuilt(kept)

Construct ==
  \E failed \in SUBSET Files :
    LET kept == Survivors(Files)
    IN  /\ Unlinkable(failed)
        /\ dir' = [i \in Chunks |-> IF i \in kept \cup failed THEN dir[i] ELSE None]
        /\ inStore' = kept \cup failed
        /\ lru' \in Rebuilt(kept)

(* The process is killed and started again.  A kill inside the constructor *)
(* adds nothing: the next one evicts the same files.                       *)
Restart ==
  /\ crashes < MaxCrashes
  /\ crashes' = crashes + 1
  /\ Construct
  /\ torn' = torn \cup {fd[t] : t \in {u \in Threads : pc[u] = "write"}}
  /\ lruOwner' = None
  /\ pc' = [t \in Threads |-> "idle"]
  /\ op' = [t \in Threads |-> "read"]
  /\ req' = [t \in Threads |-> None]
  /\ fd' = [t \in Threads |-> None]
  /\ done' = [t \in Threads |-> 0]
  /\ victim' = [t \in Threads |-> None]
  /\ overtaken' = {}
  /\ UNCHANGED body

Open(t) == \E i \in Chunks : ReadOpen(t, i) \/ WriteOpen(t, i)

Continue(t) ==
  \/ WriteSome(t) \/ WriteError(t)
  \/ Touch(t) \/ Evict(t)
  \/ Unlink(t) \/ UnlinkAbsent(t) \/ UnlinkError(t) \/ Erase(t)
  \/ Insert(t) \/ ReadBody(t)

Next == (\E t \in Threads : Open(t) \/ Continue(t)) \/ Restart

Spec == Init /\ [][Next]_vars
----------------------------------------------------------------------------
(* Every file on disk is known to the collector, which will evict it; or   *)
(* it is about to be unlinked, or written by a call in flight, or         *)
(* a failed call left it behind.                                           *)
Tracked ==
  \A i \in Files :
    \/ i \in Held(lru) \cup stray
    \/ \E t \in Threads : pc[t] = "unlink" /\ victim[t] = i
    \/ Writers(i) # {}

(* Hence the store outgrows its limit only by the writes in flight and by  *)
(* what failed calls left behind.                                          *)
StoreBound ==
  Cardinality(Files)
    <= Size + Cardinality({t \in Threads : pc[t] # "idle" /\ op[t] = "write"})
            + Cardinality(stray)

(* A file that nobody is writing and whose writer did not fail is          *)
(* advertised: the order touch, insert (lines 111-115) keeps the erase of  *)
(* an eviction from undoing the insert of a newer write of the same chunk. *)
NoHiddenChunk ==
  \A i \in Files : dir[i] \in torn \/ Writers(i) # {} \/ i \in inStore

(* What is advertised is on disk, about to be withdrawn, or was unlinked   *)
(* under a call that was writing it.                                       *)
AdvertisedOnDisk ==
  \A i \in inStore :
    \/ dir[i] # None
    \/ i \in overtaken
    \/ \E t \in Threads : pc[t] = "erase" /\ victim[t] = i

(* A file, also one that was unlinked under a reader, is whole unless its  *)
(* writer is at work or failed: short writes are continued, and concurrent *)
(* writers of a chunk leave no hole.                                       *)
WholeFiles ==
  \A n \in Inode :
    ~Free(n) => \/ Whole(n) \/ n \in torn
                \/ \E t \in Threads : pc[t] = "write" /\ fd[t] = n
=============================================================================
