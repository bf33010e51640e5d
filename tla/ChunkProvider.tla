--------------------------- MODULE ChunkProvider ---------------------------
(***************************************************************************)
(* The in-memory chunk cache of data/chunk_provider.{h,cc}: every FUSE     *)
(* thread calls read_chunk concurrently.                                   *)
(*                                                                         *)
(* Critical sections under entries_mutex (lines 15-23, 34-38, 58-62,       *)
(* 67-70) never wait for anything inside, so each is one step.  The        *)
(* collector's mutex is held over one such section only, so an update with *)
(* its eviction is one step too.  The mutex of a CacheEntry is held across *)
(* a load and is modelled explicitly.                                      *)
(*                                                                         *)
(* The 4 MB buffer of an entry is abstracted to the chunk whose bytes it   *)
(* holds; len > 0 exactly when it holds some.  compressedStore.read_chunk  *)
(* and client.fetch_chunk are one step with either outcome.                *)
(***************************************************************************)
EXTENDS LruCollector, FiniteSets

CONSTANTS
  Threads,     \* the threads that call read_chunk
  Chunks,      \* chunk ids
  Entry,       \* names of CacheEntry objects, reused once unreachable (a bound)
  CacheSize,   \* cache_size of the constructor
  None,        \* no entry, no thread, no data
  Error        \* any ErrorCode other than OK

ASSUME CacheSizeAssumption == CacheSize \in Nat \ {0}
ASSUME EntryAssumption == Entry \subseteq Nat
ASSUME NoneAssumption == None \notin Threads \cup Chunks \cup Entry
ASSUME ErrorAssumption == Error \notin Chunks \cup {None}
ASSUME FiniteAssumption == IsFiniteSet(Threads) /\ IsFiniteSet(Chunks)

VARIABLES
  entries,  \* entries: the map from chunk id to its CacheEntry
  data,     \* data[e]: the chunk loaded in e, None while len = 0
  owner,    \* owner[e]: the thread that holds e's mutex
  lru,      \* the queue of the LruCollector
  pc,       \* where each thread is in read_chunk
  req,      \* req[t]: the id of t's call
  ent,      \* ent[t]: the shared_ptr<CacheEntry> of t's call
  buffer    \* buffer[t]: what was copied to the caller, or Error

vars == <<entries, data, owner, lru, pc, req, ent, buffer>>

(* Loading an entry, the whole of a miss, and holding an entry's mutex.    *)
Filling == {"load", "loaded"}
Missing == Filling \cup {"failed", "missCopy", "missTouch"}
Locking == Filling \cup {"failed", "replace"}
Hitting == {"hitTouch", "hitCopy"}

Label == {"idle", "wait", "replace"} \cup Missing \cup Hitting

TypeOK ==
  /\ entries \in [Chunks -> Entry \cup {None}]
  /\ data \in [Entry -> Chunks \cup {None}]
  /\ owner \in [Entry -> Threads \cup {None}]
  /\ lru \in Seq(Chunks)
  /\ WellFormed(lru, CacheSize)
  /\ pc \in [Threads -> Label]
  /\ req \in [Threads -> Chunks \cup {None}]
  /\ ent \in [Threads -> Entry \cup {None}]
  /\ buffer \in [Threads -> Chunks \cup {None, Error}]

Init ==
  /\ entries = [i \in Chunks |-> None]
  /\ data = [e \in Entry |-> None]
  /\ owner = [e \in Entry |-> None]
  /\ lru = << >>
  /\ pc = [t \in Threads |-> "idle"]
  /\ req = [t \in Threads |-> None]
  /\ ent = [t \in Threads |-> None]
  /\ buffer = [t \in Threads |-> None]
----------------------------------------------------------------------------
(* A CacheEntry lives while the map or a call refers to it.  make_shared   *)
(* takes the first name that no longer does.                               *)
Free(e) ==
  /\ \A i \in Chunks : entries[i] # e
  /\ \A t \in Threads : ent[t] # e

Fresh(e) == Free(e) /\ \A f \in Entry : Free(f) => e <= f

Goto(t, label) == pc' = [pc EXCEPT ![t] = label]

(* Lines 15-23, the id is in the map: take its entry.                      *)
LookupFound(t, i) ==
  /\ pc[t] = "idle"
  /\ entries[i] # None
  /\ ent' = [ent EXCEPT ![t] = entries[i]]
  /\ req' = [req EXCEPT ![t] = i]
  /\ buffer' = [buffer EXCEPT ![t] = None]
  /\ Goto(t, "wait")
  /\ UNCHANGED <<entries, data, owner, lru>>

(* Lines 15-23, it is not: put a new entry there, locked by its creator.   *)
(* Mutant: the creator forgets the lock of line 21.                        *)
LookupAbsentUnlocked(t, i) ==
  /\ pc[t] = "idle"
  /\ entries[i] = None
  /\ \E e \in Entry :
       /\ Fresh(e)
       /\ entries' = [entries EXCEPT ![i] = e]
       /\ data' = [data EXCEPT ![e] = None]
       /\ ent' = [ent EXCEPT ![t] = e]
  /\ req' = [req EXCEPT ![t] = i]
  /\ buffer' = [buffer EXCEPT ![t] = None]
  /\ Goto(t, "load")
  /\ UNCHANGED <<lru, owner>>

LookupAbsent(t, i) ==
  /\ pc[t] = "idle"
  /\ entries[i] = None
  /\ \E e \in Entry :
       /\ Fresh(e)
       /\ entries' = [entries EXCEPT ![i] = e]
       /\ data' = [data EXCEPT ![e] = None]
       /\ owner' = [owner EXCEPT ![e] = t]
       /\ ent' = [ent EXCEPT ![t] = e]
  /\ req' = [req EXCEPT ![t] = i]
  /\ buffer' = [buffer EXCEPT ![t] = None]
  /\ Goto(t, "load")
  /\ UNCHANGED lru

(* Lines 26-28: the entry's mutex is free and it is loaded; the lock is    *)
(* taken, len tested and the lock released.                                *)
CanLock(t) == owner[ent[t]] = None

(* Mutant: line 27 does not test len.                                      *)
LockLoadedUntested(t) ==
  /\ pc[t] = "wait"
  /\ CanLock(t)
  /\ Goto(t, "hitTouch")
  /\ UNCHANGED <<entries, data, owner, lru, req, ent, buffer>>

LockLoaded(t) ==
  /\ pc[t] = "wait"
  /\ CanLock(t)
  /\ data[ent[t]] # None
  /\ Goto(t, "hitTouch")
  /\ UNCHANGED <<entries, data, owner, lru, req, ent, buffer>>

(* Lines 26-27 and 33: the load this thread was waiting for failed.        *)
(* Mutant: its waiters return the error of that load.                      *)
LockFailedGivesUp(t) ==
  /\ pc[t] = "wait"
  /\ CanLock(t)
  /\ data[ent[t]] = None
  /\ ent' = [ent EXCEPT ![t] = None]
  /\ buffer' = [buffer EXCEPT ![t] = Error]
  /\ Goto(t, "idle")
  /\ UNCHANGED <<entries, data, owner, lru, req>>

LockFailed(t) ==
  /\ pc[t] = "wait"
  /\ CanLock(t)
  /\ data[ent[t]] = None
  /\ owner' = [owner EXCEPT ![ent[t]] = t]
  /\ Goto(t, "replace")
  /\ UNCHANGED <<entries, data, lru, req, ent, buffer>>

(* Lines 34-38: release it, put a new locked entry in its place.           *)
Replace(t) ==
  /\ pc[t] = "replace"
  /\ \E e \in Entry :
       /\ Fresh(e)
       /\ entries' = [entries EXCEPT ![req[t]] = e]
       /\ data' = [data EXCEPT ![e] = None]
       /\ owner' = [owner EXCEPT ![ent[t]] = None, ![e] = t]
       /\ ent' = [ent EXCEPT ![t] = e]
  /\ Goto(t, "load")
  /\ UNCHANGED <<lru, req, buffer>>

(* Lines 43-49: storage or network fill the entry's buffer ...             *)
LoadOk(t) ==
  /\ pc[t] = "load"
  /\ data' = [data EXCEPT ![ent[t]] = req[t]]
  /\ Goto(t, "loaded")
  /\ UNCHANGED <<entries, owner, lru, req, ent, buffer>>

(* ... or return an error and leave len = 0.                               *)
LoadError(t) ==
  /\ pc[t] = "load"
  /\ Goto(t, "failed")
  /\ UNCHANGED <<entries, data, owner, lru, req, ent, buffer>>

(* Line 52.                                                                *)
Unlock(t) ==
  /\ pc[t] = "loaded"
  /\ owner' = [owner EXCEPT ![ent[t]] = None]
  /\ Goto(t, "missCopy")
  /\ UNCHANGED <<entries, data, lru, req, ent, buffer>>

(* Lines 57-62 and 64: whatever entry the id maps to now is erased.        *)
(* Mutants: line 59 is missing; line 61 is missing.                        *)
FailKeepsEntry(t) ==
  /\ pc[t] = "failed"
  /\ data' = [data EXCEPT ![ent[t]] = None]
  /\ owner' = [owner EXCEPT ![ent[t]] = None]
  /\ ent' = [ent EXCEPT ![t] = None]
  /\ buffer' = [buffer EXCEPT ![t] = Error]
  /\ Goto(t, "idle")
  /\ UNCHANGED <<entries, lru, req>>

FailKeepsLock(t) ==
  /\ pc[t] = "failed"
  /\ entries' = [entries EXCEPT ![req[t]] = None]
  /\ data' = [data EXCEPT ![ent[t]] = None]
  /\ ent' = [ent EXCEPT ![t] = None]
  /\ buffer' = [buffer EXCEPT ![t] = Error]
  /\ Goto(t, "idle")
  /\ UNCHANGED <<owner, lru, req>>

Fail(t) ==
  /\ pc[t] = "failed"
  /\ entries' = [entries EXCEPT ![req[t]] = None]
  /\ data' = [data EXCEPT ![ent[t]] = None]
  /\ owner' = [owner EXCEPT ![ent[t]] = None]
  /\ ent' = [ent EXCEPT ![t] = None]
  /\ buffer' = [buffer EXCEPT ![t] = Error]
  /\ Goto(t, "idle")
  /\ UNCHANGED <<lru, req>>

(* Lines 30-31 and 53-54: the caller's buffer gets the entry's bytes.      *)
Copied(t) == [buffer EXCEPT ![t] = data[ent[t]]]

MissCopy(t) ==
  /\ pc[t] = "missCopy"
  /\ buffer' = Copied(t)
  /\ Goto(t, "missTouch")
  /\ UNCHANGED <<entries, data, owner, lru, req, ent>>

(* Line 32: a hit returns after the copy.                                  *)
HitCopy(t) ==
  /\ pc[t] = "hitCopy"
  /\ buffer' = Copied(t)
  /\ ent' = [ent EXCEPT ![t] = None]
  /\ Goto(t, "idle")
  /\ UNCHANGED <<entries, data, owner, lru, req>>

(* collector->update(id), which calls remove_chunk(victim), lines 67-70.   *)
(* Mutant: the remover of lines 75-79 does nothing.                        *)
TouchKeepsVictim(i) ==
  /\ lru' = Updated(lru, i, CacheSize)
  /\ UNCHANGED entries

Touch(i) ==
  /\ lru' = Updated(lru, i, CacheSize)
  /\ entries' = [j \in Chunks |->
                   IF j \in Victims(lru, i, CacheSize) THEN None ELSE entries[j]]

(* Line 29: by now the id may be gone from the map, and the list keeps it. *)
HitTouch(t) ==
  /\ pc[t] = "hitTouch"
  /\ Touch(req[t])
  /\ Goto(t, "hitCopy")
  /\ UNCHANGED <<data, owner, req, ent, buffer>>

(* Lines 55 and 64.                                                        *)
MissTouch(t) ==
  /\ pc[t] = "missTouch"
  /\ Touch(req[t])
  /\ ent' = [ent EXCEPT ![t] = None]
  /\ Goto(t, "idle")
  /\ UNCHANGED <<data, owner, req, buffer>>

Lookup(t) == \E i \in Chunks : LookupFound(t, i) \/ LookupAbsent(t, i)

Load(t) == LoadOk(t) \/ LoadError(t)

Continue(t) ==
  \/ LockLoaded(t) \/ LockFailed(t) \/ Replace(t)
  \/ Unlock(t) \/ Fail(t)
  \/ MissCopy(t) \/ MissTouch(t)
  \/ HitTouch(t) \/ HitCopy(t)

Next == \E t \in Threads : Lookup(t) \/ Load(t) \/ Continue(t)

Spec == Init /\ [][Next]_vars

(* A thread that is in read_chunk keeps running, but a load may go on for  *)
(* ever: fetch_chunk has no deadline and repeats what does not match       *)
(* (connection_pool.cc lines 41-65).  Nor need a thread call again.        *)
FairSpec == Spec /\ \A t \in Threads : WF_vars(Continue(t))
----------------------------------------------------------------------------
(* A finished call delivered the bytes of the chunk that was asked for, or *)
(* an error: never the empty buffer of an entry whose load failed, never   *)
(* the bytes of an entry put to another use.  (Lines 26-32 copy from an    *)
(* entry whose mutex was released and whose id may have been evicted.)     *)
ReadIntegrity ==
  \A t \in Threads :
    pc[t] = "idle" /\ req[t] # None => buffer[t] \in {req[t], Error}

(* The memcpy of lines 30 and 53 reads an entry without its mutex, so      *)
(* nobody may still write it: a thread that loads or clears an entry holds *)
(* its mutex, and every other thread that has the entry is still waiting   *)
(* for that mutex.                                                         *)
ExclusiveFill ==
  \A t \in Threads :
    pc[t] \in Filling \cup {"failed"} =>
      /\ owner[ent[t]] = t
      /\ \A u \in Threads \ {t} : ent[u] = ent[t] => pc[u] = "wait"

(* An entry that is in the map is loaded, or some call is busy with it:    *)
(* failures (line 59), retries that overwrite each other's entries (line   *)
(* 38) and evictions never leave one behind that nobody will fill.         *)
NoAbandonedEntry ==
  \A i \in Chunks :
    entries[i] # None =>
      \/ data[entries[i]] = i
      \/ \E t \in Threads : ent[t] = entries[i] /\ pc[t] \in Filling \cup {"failed"}

(* Every id in the map is in the list that will evict it, or belongs to a  *)
(* call that has yet to touch it or to erase it.                           *)
Cached == {i \in Chunks : entries[i] # None}
InMiss == {t \in Threads : pc[t] \in Missing}

Tracked == Cached \subseteq Held(lru) \cup {req[t] : t \in InMiss}

(* Hence the cache outgrows its limit only by the misses in flight.        *)
CacheBound == Cardinality(Cached) <= CacheSize + Cardinality(InMiss)

(* What the callers see of it.                                             *)
RS == INSTANCE ReadService WITH
  pending <- [t \in Threads |-> IF pc[t] = "idle" THEN None ELSE req[t]],
  refused <- {t \in Threads : pc[t] = "failed"},
  answer <- [t \in Threads |-> IF pc[t] = "idle" THEN buffer[t] ELSE None]

(* read_chunk implements ReadService: one answer per call, the right bytes *)
(* or an error, and an error only after this call's own load was refused.  *)
ImplementsReadService == RS!Spec

(* A reader waits for loads of its own chunk only (line 26): if none of    *)
(* these goes on for ever, each read of the chunk returns, however often   *)
(* it takes over from a load that failed, and though a load of another     *)
(* chunk may never end.                                                    *)
Reading(t, i) == pc[t] # "idle" /\ req[t] = i
Loading(t, i) == pc[t] = "load" /\ req[t] = i

EveryReadReturns ==
  \A i \in Chunks :
    (\A t \in Threads : []<>~Loading(t, i)) =>
      \A t \in Threads : Reading(t, i) ~> ~Reading(t, i)
=============================================================================
