------------------------ MODULE ChunkProviderProofs ------------------------
(***************************************************************************)
(* ChunkProvider for every set of threads and chunks, every cache size and *)
(* every pool of entries: types, the integrity of what is read, the bound  *)
(* of the cache, and the implementation of ReadService.                    *)
(***************************************************************************)
EXTENDS ChunkProvider, LruCollectorProofs

USE CacheSizeAssumption, NoneAssumption, ErrorAssumption

(* The part of a thread's state that its label fixes.                      *)
CallInv ==
  \A t \in Threads :
    /\ pc[t] = "idle" <=> ent[t] = None
    /\ pc[t] # "idle" => req[t] \in Chunks

Typed == TypeOK /\ CallInv

LEMMA InitTyped == Init => Typed
<1> SUFFICES ASSUME Init PROVE Typed
  OBVIOUS
<1>1. lru \in Seq(Chunks) /\ WellFormed(lru, CacheSize)
  BY DEF Init, WellFormed
<1> QED
  BY <1>1 DEF Init, Typed, TypeOK, CallInv, Label

(* collector->update keeps the types.                                      *)
LEMMA TouchTyped ==
  ASSUME TypeOK, NEW i \in Chunks, Touch(i)
  PROVE  /\ entries' \in [Chunks -> Entry \cup {None}]
         /\ lru' \in Seq(Chunks) /\ WellFormed(lru', CacheSize)
<1>1. lru' \in Seq(Chunks) /\ WellFormed(lru', CacheSize)
  BY UpdatedWellFormed DEF Touch, TypeOK
<1> QED
  BY <1>1 DEF Touch, TypeOK

LEMMA NextTyped == Typed /\ [Next]_vars => Typed'
<1> SUFFICES ASSUME Typed, [Next]_vars PROVE Typed'
  OBVIOUS
<1> USE DEF Typed, TypeOK, CallInv, Label, Missing, Hitting, Filling
<1>1. CASE UNCHANGED vars
  BY <1>1 DEF vars
<1>2. ASSUME NEW t \in Threads, NEW i \in Chunks, LookupFound(t, i)
      PROVE  Typed'
  BY <1>2 DEF LookupFound, Goto
<1>3. ASSUME NEW t \in Threads, NEW i \in Chunks, LookupAbsent(t, i)
      PROVE  Typed'
  BY <1>3 DEF LookupAbsent, Goto
<1>4. ASSUME NEW t \in Threads, LockLoaded(t)
      PROVE  Typed'
  BY <1>4 DEF LockLoaded, Goto
<1>5. ASSUME NEW t \in Threads, LockFailed(t)
      PROVE  Typed'
  BY <1>5 DEF LockFailed, Goto
<1>6. ASSUME NEW t \in Threads, Replace(t)
      PROVE  Typed'
  BY <1>6 DEF Replace, Goto
<1>7. ASSUME NEW t \in Threads, LoadOk(t)
      PROVE  Typed'
  BY <1>7 DEF LoadOk, Goto
<1>8. ASSUME NEW t \in Threads, LoadError(t)
      PROVE  Typed'
  BY <1>8 DEF LoadError, Goto
<1>9. ASSUME NEW t \in Threads, Unlock(t)
      PROVE  Typed'
  BY <1>9 DEF Unlock, Goto
<1>10. ASSUME NEW t \in Threads, Fail(t)
       PROVE  Typed'
  BY <1>10 DEF Fail, Goto
<1>11. ASSUME NEW t \in Threads, MissCopy(t)
       PROVE  Typed'
  BY <1>11 DEF MissCopy, Copied, Goto
<1>12. ASSUME NEW t \in Threads, HitCopy(t)
       PROVE  Typed'
  BY <1>12 DEF HitCopy, Copied, Goto
<1>13. ASSUME NEW t \in Threads, HitTouch(t)
       PROVE  Typed'
  <2>1. Touch(req[t]) /\ req[t] \in Chunks
    BY <1>13 DEF HitTouch
  <2>2. /\ entries' \in [Chunks -> Entry \cup {None}]
        /\ lru' \in Seq(Chunks) /\ WellFormed(lru', CacheSize)
    BY <2>1, TouchTyped
  <2> QED
    BY <1>13, <2>2 DEF HitTouch, Goto
<1>14. ASSUME NEW t \in Threads, MissTouch(t)
       PROVE  Typed'
  <2>1. Touch(req[t]) /\ req[t] \in Chunks
    BY <1>14 DEF MissTouch
  <2>2. /\ entries' \in [Chunks -> Entry \cup {None}]
        /\ lru' \in Seq(Chunks) /\ WellFormed(lru', CacheSize)
    BY <2>1, TouchTyped
  <2> QED
    BY <1>14, <2>2 DEF MissTouch, Goto
<1> QED
  BY <1>1, <1>2, <1>3, <1>4, <1>5, <1>6, <1>7, <1>8, <1>9, <1>10, <1>11,
     <1>12, <1>13, <1>14 DEF Next, Lookup, Load, Continue

(* The state of the cache and of its threads keeps its types, and its list *)
(* of ids keeps to the limit and names no id twice.                        *)
THEOREM TypeCorrect == Spec => []TypeOK
<1>1. Typed => TypeOK
  BY DEF Typed
<1> QED
  BY <1>1, InitTyped, NextTyped, PTL DEF Spec
----------------------------------------------------------------------------
(* An entry belongs to one chunk: the one it is mapped from, and the one   *)
(* every call that refers to it asked for.  Its data is that chunk's.      *)
OneChunk ==
  /\ \A i \in Chunks :
       entries[i] # None =>
         /\ data[entries[i]] \in {None, i}
         /\ \A j \in Chunks : entries[j] = entries[i] => j = i
         /\ \A t \in Threads : ent[t] = entries[i] => req[t] = i
  /\ \A t \in Threads :
       ent[t] # None =>
         /\ data[ent[t]] \in {None, req[t]}
         /\ \A u \in Threads : ent[u] = ent[t] => req[u] = req[t]

(* How far a call got is visible in its entry, and in what it copied.      *)
Progress ==
  \A t \in Threads :
    /\ pc[t] \in {"load", "failed"} => data[ent[t]] = None
    /\ pc[t] \in {"loaded", "missCopy", "hitTouch", "hitCopy"}
         => data[ent[t]] = req[t]
    /\ pc[t] = "missTouch" => buffer[t] = req[t]

(* Who holds a mutex: the threads that load, clear or replace an entry.    *)
LockInv == \A t \in Threads : pc[t] \in Locking => owner[ent[t]] = t

CacheInv ==
  /\ Typed
  /\ OneChunk
  /\ Progress
  /\ LockInv
  /\ ReadIntegrity
  /\ ExclusiveFill
  /\ NoAbandonedEntry

LEMMA InitCache == Init => CacheInv
<1> SUFFICES ASSUME Init PROVE CacheInv
  OBVIOUS
<1>1. Typed
  BY InitTyped
<1> QED
  BY <1>1 DEF Init, CacheInv, OneChunk, Progress, LockInv, ReadIntegrity,
              ExclusiveFill, NoAbandonedEntry, Filling, Locking

(* A free mutex means that nobody loads, clears or replaces its entry.     *)
LEMMA LockFree ==
  ASSUME CacheInv, NEW t \in Threads, CanLock(t),
         NEW u \in Threads, ent[u] = ent[t]
  PROVE  pc[u] \notin Locking
<1>1. pc[u] \in Locking => owner[ent[u]] = u
  BY DEF CacheInv, LockInv
<1> QED
  BY <1>1 DEF CanLock

LEMMA NextCache == CacheInv /\ [Next]_vars => CacheInv'
<1> SUFFICES ASSUME CacheInv, [Next]_vars PROVE CacheInv'
  OBVIOUS
<1> USE DEF Typed, TypeOK, CallInv, Label, Missing, Hitting, Filling, Locking
<1>1. Typed'
  BY NextTyped DEF CacheInv
<1>2. CASE UNCHANGED vars
  BY <1>2 DEF vars, CacheInv, OneChunk, Progress, LockInv, ReadIntegrity,
              ExclusiveFill, NoAbandonedEntry
<1>3. ASSUME NEW t \in Threads, NEW i \in Chunks, LookupFound(t, i)
      PROVE  CacheInv'
  <2>1. OneChunk' /\ Progress' /\ LockInv'
    BY <1>1, <1>3 DEF LookupFound, Goto, CacheInv, OneChunk, Progress,
       LockInv
  <2>2. ReadIntegrity' /\ ExclusiveFill' /\ NoAbandonedEntry'
    BY <1>1, <1>3 DEF LookupFound, Goto, CacheInv, ReadIntegrity,
       ExclusiveFill, NoAbandonedEntry
  <2> QED
    BY <1>1, <2>1, <2>2 DEF CacheInv
<1>4. ASSUME NEW t \in Threads, NEW i \in Chunks, LookupAbsent(t, i)
      PROVE  CacheInv'
  <2>1. OneChunk' /\ Progress' /\ LockInv'
    BY <1>1, <1>4 DEF LookupAbsent, Goto, Fresh, Free, CacheInv, OneChunk,
       Progress, LockInv
  <2>2. ReadIntegrity' /\ ExclusiveFill' /\ NoAbandonedEntry'
    BY <1>1, <1>4 DEF LookupAbsent, Goto, Fresh, Free, CacheInv,
       ReadIntegrity, ExclusiveFill, NoAbandonedEntry
  <2> QED
    BY <1>1, <2>1, <2>2 DEF CacheInv
<1>5. ASSUME NEW t \in Threads, LockLoaded(t)
      PROVE  CacheInv'
  <2>1. OneChunk' /\ LockInv' /\ ReadIntegrity'
    BY <1>1, <1>5 DEF LockLoaded, Goto, CacheInv, OneChunk, LockInv,
       ReadIntegrity
  <2>2. NoAbandonedEntry'
    BY <1>1, <1>5 DEF LockLoaded, Goto, CacheInv, NoAbandonedEntry
  <2>3. Progress'
    BY <1>1, <1>5 DEF LockLoaded, Goto, CacheInv, OneChunk, Progress
  <2>4. ExclusiveFill'
    BY <1>1, <1>5, LockFree DEF LockLoaded, Goto, CacheInv, ExclusiveFill,
       LockInv
  <2> QED
    BY <1>1, <2>1, <2>2, <2>3, <2>4 DEF CacheInv
<1>6. ASSUME NEW t \in Threads, LockFailed(t)
      PROVE  CacheInv'
  <2>1. OneChunk' /\ Progress' /\ ReadIntegrity'
    BY <1>1, <1>6 DEF LockFailed, Goto, CacheInv, OneChunk, Progress,
       ReadIntegrity
  <2>2. NoAbandonedEntry'
    BY <1>1, <1>6 DEF LockFailed, Goto, CacheInv, NoAbandonedEntry
  <2>3. LockInv'
    BY <1>1, <1>6, LockFree DEF LockFailed, Goto, CacheInv, LockInv
  <2>4. ExclusiveFill'
    BY <1>1, <1>6, LockFree DEF LockFailed, Goto, CacheInv, ExclusiveFill,
       LockInv
  <2> QED
    BY <1>1, <2>1, <2>2, <2>3, <2>4 DEF CacheInv
<1>7. ASSUME NEW t \in Threads, Replace(t)
      PROVE  CacheInv'
  <2>1. OneChunk' /\ Progress' /\ LockInv'
    BY <1>1, <1>7 DEF Replace, Goto, Fresh, Free, CacheInv, OneChunk,
       Progress, LockInv
  <2>2. ReadIntegrity' /\ ExclusiveFill' /\ NoAbandonedEntry'
    BY <1>1, <1>7 DEF Replace, Goto, Fresh, Free, CacheInv, ReadIntegrity,
       ExclusiveFill, NoAbandonedEntry
  <2> QED
    BY <1>1, <2>1, <2>2 DEF CacheInv
<1>8. ASSUME NEW t \in Threads, LoadOk(t)
      PROVE  CacheInv'
  <2>1. OneChunk' /\ LockInv' /\ ReadIntegrity'
    BY <1>1, <1>8 DEF LoadOk, Goto, CacheInv, OneChunk, LockInv,
       ReadIntegrity
  <2>2. ExclusiveFill' /\ NoAbandonedEntry'
    BY <1>1, <1>8 DEF LoadOk, Goto, CacheInv, ExclusiveFill,
       NoAbandonedEntry
  <2>3. Progress'
    BY <1>1, <1>8 DEF LoadOk, Goto, CacheInv, Progress, LockInv
  <2> QED
    BY <1>1, <2>1, <2>2, <2>3 DEF CacheInv
<1>9. ASSUME NEW t \in Threads, LoadError(t)
      PROVE  CacheInv'
  <2>1. OneChunk' /\ Progress' /\ LockInv'
    BY <1>1, <1>9 DEF LoadError, Goto, CacheInv, OneChunk, Progress, LockInv
  <2>2. ReadIntegrity' /\ ExclusiveFill' /\ NoAbandonedEntry'
    BY <1>1, <1>9 DEF LoadError, Goto, CacheInv, ReadIntegrity,
       ExclusiveFill, NoAbandonedEntry
  <2> QED
    BY <1>1, <2>1, <2>2 DEF CacheInv
<1>10. ASSUME NEW t \in Threads, Unlock(t)
       PROVE  CacheInv'
  <2>1. OneChunk' /\ Progress' /\ LockInv'
    BY <1>1, <1>10 DEF Unlock, Goto, CacheInv, OneChunk, Progress, LockInv
  <2>2. ReadIntegrity' /\ ExclusiveFill'
    BY <1>1, <1>10 DEF Unlock, Goto, CacheInv, ReadIntegrity, ExclusiveFill
  <2>3. NoAbandonedEntry'
    BY <1>1, <1>10 DEF Unlock, Goto, CacheInv, OneChunk, Progress,
       NoAbandonedEntry
  <2> QED
    BY <1>1, <2>1, <2>2, <2>3 DEF CacheInv
<1>11. ASSUME NEW t \in Threads, Fail(t)
       PROVE  CacheInv'
  <2>1. OneChunk' /\ Progress' /\ LockInv'
    BY <1>1, <1>11 DEF Fail, Goto, CacheInv, OneChunk, Progress, LockInv
  <2>2. ReadIntegrity' /\ ExclusiveFill'
    BY <1>1, <1>11 DEF Fail, Goto, CacheInv, ReadIntegrity, ExclusiveFill
  <2>3. NoAbandonedEntry'
    BY <1>1, <1>11 DEF Fail, Goto, CacheInv, OneChunk, NoAbandonedEntry
  <2> QED
    BY <1>1, <2>1, <2>2, <2>3 DEF CacheInv
<1>12. ASSUME NEW t \in Threads, MissCopy(t)
       PROVE  CacheInv'
  <2>1. OneChunk' /\ Progress' /\ LockInv'
    BY <1>1, <1>12 DEF MissCopy, Goto, Copied, CacheInv, OneChunk, Progress,
       LockInv
  <2>2. ReadIntegrity' /\ ExclusiveFill' /\ NoAbandonedEntry'
    BY <1>1, <1>12 DEF MissCopy, Goto, Copied, CacheInv, ReadIntegrity,
       ExclusiveFill, NoAbandonedEntry
  <2> QED
    BY <1>1, <2>1, <2>2 DEF CacheInv
<1>13. ASSUME NEW t \in Threads, HitCopy(t)
       PROVE  CacheInv'
  <2>1. OneChunk' /\ Progress' /\ LockInv'
    BY <1>1, <1>13 DEF HitCopy, Goto, Copied, CacheInv, OneChunk, Progress,
       LockInv
  <2>2. ExclusiveFill' /\ NoAbandonedEntry'
    BY <1>1, <1>13 DEF HitCopy, Goto, Copied, CacheInv, ExclusiveFill,
       NoAbandonedEntry
  <2>3. ReadIntegrity'
    BY <1>1, <1>13 DEF HitCopy, Goto, Copied, CacheInv, Progress,
       ReadIntegrity
  <2> QED
    BY <1>1, <2>1, <2>2, <2>3 DEF CacheInv
<1>14. ASSUME NEW t \in Threads, HitTouch(t)
       PROVE  CacheInv'
  <2>1. OneChunk' /\ Progress' /\ LockInv'
    BY <1>1, <1>14 DEF HitTouch, Goto, Touch, CacheInv, OneChunk, Progress,
       LockInv
  <2>2. ReadIntegrity' /\ ExclusiveFill'
    BY <1>1, <1>14 DEF HitTouch, Goto, CacheInv, ReadIntegrity,
       ExclusiveFill
  <2>3. NoAbandonedEntry'
    BY <1>1, <1>14 DEF HitTouch, Goto, Touch, CacheInv, NoAbandonedEntry
  <2> QED
    BY <1>1, <2>1, <2>2, <2>3 DEF CacheInv
<1>15. ASSUME NEW t \in Threads, MissTouch(t)
       PROVE  CacheInv'
  <2>1. OneChunk' /\ Progress' /\ LockInv'
    BY <1>1, <1>15 DEF MissTouch, Goto, Touch, CacheInv, OneChunk, Progress,
       LockInv
  <2>2. ExclusiveFill' /\ NoAbandonedEntry'
    BY <1>1, <1>15 DEF MissTouch, Goto, Touch, CacheInv, ExclusiveFill,
       NoAbandonedEntry
  <2>3. ReadIntegrity'
    BY <1>1, <1>15 DEF MissTouch, Goto, Touch, CacheInv, Progress,
       ReadIntegrity
  <2> QED
    BY <1>1, <2>1, <2>2, <2>3 DEF CacheInv
<1> QED
  BY <1>2, <1>3, <1>4, <1>5, <1>6, <1>7, <1>8, <1>9, <1>10, <1>11, <1>12,
     <1>13, <1>14, <1>15 DEF Next, Lookup, Load, Continue

LEMMA CacheInvariant == Spec => []CacheInv
  BY InitCache, NextCache, PTL DEF Spec

(* Every answer is the chunk that was asked for, or an error.              *)
THEOREM ReadIntegrityHolds == Spec => []ReadIntegrity
<1>1. CacheInv => ReadIntegrity
  BY DEF CacheInv
<1> QED
  BY <1>1, CacheInvariant, PTL

(* No thread copies from an entry that another one still writes.           *)
THEOREM ExclusiveFillHolds == Spec => []ExclusiveFill
<1>1. CacheInv => ExclusiveFill
  BY DEF CacheInv
<1> QED
  BY <1>1, CacheInvariant, PTL

(* No entry stays in the map that nobody will fill.                        *)
THEOREM NoAbandonedEntryHolds == Spec => []NoAbandonedEntry
<1>1. CacheInv => NoAbandonedEntry
  BY DEF CacheInv
<1> QED
  BY <1>1, CacheInvariant, PTL
----------------------------------------------------------------------------
LEMMA InitTracked == Init => Tracked
  BY DEF Init, Tracked, Cached

LEMMA NextTracked == Typed /\ Tracked /\ [Next]_vars => Tracked'
<1> SUFFICES ASSUME Typed, Tracked, [Next]_vars,
                    NEW j \in Chunks, entries'[j] # None
             PROVE  j \in Held(lru') \/ \E u \in Threads : /\ pc'[u] \in Missing
                                                           /\ req'[u] = j
  BY DEF Tracked, Cached, InMiss
<1> USE DEF Typed, TypeOK, CallInv, Missing, Filling
<1>1. entries[j] # None =>
        j \in Held(lru) \/ \E u \in Threads : pc[u] \in Missing /\ req[u] = j
  BY DEF Tracked, Cached, InMiss
<1>2. CASE UNCHANGED vars
  BY <1>1, <1>2 DEF vars
<1>3. ASSUME NEW t \in Threads, NEW i \in Chunks, LookupFound(t, i) \/ LookupAbsent(t, i)
      PROVE  j \in Held(lru') \/ \E u \in Threads : pc'[u] \in Missing /\ req'[u] = j
  BY <1>1, <1>3 DEF LookupFound, LookupAbsent, Goto
<1>4. ASSUME NEW t \in Threads,
             \/ LockLoaded(t) \/ LockFailed(t) \/ Replace(t) \/ LoadOk(t)
             \/ LoadError(t) \/ Unlock(t) \/ Fail(t) \/ MissCopy(t) \/ HitCopy(t)
      PROVE  j \in Held(lru') \/ \E u \in Threads : pc'[u] \in Missing /\ req'[u] = j
  <2>1. CASE LockLoaded(t) \/ LockFailed(t) \/ Replace(t)
    BY <1>1, <2>1 DEF LockLoaded, LockFailed, Replace, Goto
  <2>2. CASE LoadOk(t) \/ LoadError(t) \/ Unlock(t) \/ MissCopy(t) \/ HitCopy(t)
    BY <1>1, <2>2 DEF LoadOk, LoadError, Unlock, MissCopy, HitCopy, Goto
  <2>3. CASE Fail(t)
    BY <1>1, <2>3 DEF Fail, Goto
  <2> QED
    BY <1>4, <2>1, <2>2, <2>3
<1>5. ASSUME NEW t \in Threads, HitTouch(t) \/ MissTouch(t)
      PROVE  j \in Held(lru') \/ \E u \in Threads : pc'[u] \in Missing /\ req'[u] = j
  <2>1. Touch(req[t]) /\ req[t] \in Chunks
    BY <1>5 DEF HitTouch, MissTouch
  <2>2. /\ lru' = Updated(lru, req[t], CacheSize)
        /\ entries[j] # None /\ j \notin Victims(lru, req[t], CacheSize)
    BY <2>1 DEF Touch
  <2>3. Held(lru') = (Held(lru) \ Victims(lru, req[t], CacheSize)) \cup {req[t]}
    BY <2>1, <2>2, UpdatedHeld
  <2>4. \A u \in Threads : pc[u] \in Missing /\ u # t
                            => pc'[u] \in Missing /\ req'[u] = req[u]
    BY <1>5 DEF HitTouch, MissTouch, Goto
  <2> QED
    BY <1>1, <2>2, <2>3, <2>4
<1> QED
  BY <1>2, <1>3, <1>4, <1>5 DEF Next, Lookup, Load, Continue

(* The cache holds at most its limit, and one chunk per miss in flight.    *)
THEOREM CacheBounded == Spec => []CacheBound
<1> USE FiniteAssumption
<1>1. ASSUME Typed, Tracked PROVE CacheBound
  <2> DEFINE asked == {req[t] : t \in InMiss}
  <2>1. /\ IsFiniteSet(Held(lru))
        /\ Cardinality(Held(lru)) <= CacheSize
        /\ Cardinality(Held(lru)) \in Nat
    BY <1>1, HeldBound, FS_CardinalityType DEF Typed, TypeOK
  <2>2. IsFiniteSet(InMiss) /\ Cardinality(InMiss) \in Nat
    BY FS_Subset, FS_CardinalityType DEF InMiss
  <2>3. [t \in InMiss |-> req[t]] \in Surjection(InMiss, asked)
    BY DEF Surjection
  <2>4. /\ IsFiniteSet(asked)
        /\ Cardinality(asked) <= Cardinality(InMiss)
        /\ Cardinality(asked) \in Nat
    BY <2>2, <2>3, FS_Surjection, FS_CardinalityType
  <2> HIDE DEF asked
  <2>5. /\ IsFiniteSet(Held(lru) \cup asked)
        /\ Cardinality(Held(lru) \cup asked)
             = Cardinality(Held(lru)) + Cardinality(asked) - Cardinality(Held(lru) \cap asked)
    BY <2>1, <2>4, FS_Union
  <2>6. Cardinality(Held(lru) \cap asked) \in Nat
    BY <2>1, FS_Intersection, FS_CardinalityType
  <2>7. /\ Cardinality(Cached) <= Cardinality(Held(lru) \cup asked)
        /\ Cardinality(Cached) \in Nat
    BY <1>1, <2>5, FS_Subset, FS_CardinalityType DEF Tracked, asked
  <2> QED
    BY <2>1, <2>2, <2>4, <2>5, <2>6, <2>7 DEF CacheBound
<1> QED
  BY <1>1, InitTyped, NextTyped, InitTracked, NextTracked, PTL DEF Spec
----------------------------------------------------------------------------
LEMMA InitImplements == Init => RS!Init
  BY DEF Init, RS!Init

(* A lookup asks, a refused load refuses, the last step of a hit or of a   *)
(* miss serves, and every other step is invisible to the callers.          *)
LEMMA NextImplements == CacheInv /\ CacheInv' /\ [Next]_vars => [RS!Next]_RS!vars
<1> SUFFICES ASSUME CacheInv, CacheInv', [Next]_vars PROVE [RS!Next]_RS!vars
  OBVIOUS
<1> DEFINE pending == [t \in Threads |-> IF pc[t] = "idle" THEN None ELSE req[t]]
           refused == {t \in Threads : pc[t] = "failed"}
           answer == [t \in Threads |-> IF pc[t] = "idle" THEN buffer[t] ELSE None]
           Hidden == pending' = pending /\ refused' = refused /\ answer' = answer
<1>1. Typed /\ Typed' /\ OneChunk /\ Progress
  BY DEF CacheInv
<1> USE <1>1 DEF Typed, TypeOK, CallInv, Goto
<1>2. Hidden => UNCHANGED RS!vars
  BY DEF RS!vars
<1>3. CASE UNCHANGED vars
  BY <1>3, <1>2 DEF vars
<1>4. ASSUME NEW t \in Threads, NEW i \in Chunks, LookupFound(t, i) \/ LookupAbsent(t, i)
      PROVE  RS!Next
  <2>1. /\ pc[t] = "idle" /\ pc'[t] \in {"wait", "load"}
        /\ pc' = [pc EXCEPT ![t] = pc'[t]]
        /\ req' = [req EXCEPT ![t] = i]
        /\ buffer' = [buffer EXCEPT ![t] = None]
    BY <1>4 DEF LookupFound, LookupAbsent
  <2> USE <2>1
  <2>2. pending[t] = None /\ pending' = [pending EXCEPT ![t] = i]
    <3>1. \A u \in Threads : pending'[u] = IF u = t THEN i ELSE pending[u]
      OBVIOUS
    <3> QED
      BY <3>1
  <2>3. refused' = refused
    OBVIOUS
  <2>4. answer' = [answer EXCEPT ![t] = None]
    OBVIOUS
  <2>5. RS!Ask(t)
    BY <2>2, <2>3, <2>4 DEF RS!Ask
  <2> QED
    BY <2>5 DEF RS!Next
<1>5. ASSUME NEW t \in Threads, LoadError(t)
      PROVE  RS!Next
  <2>1. /\ pending[t] # None
        /\ pending' = pending /\ answer' = answer
        /\ refused' = refused \cup {t}
    BY <1>5 DEF LoadError
  <2>2. RS!Refuse(t)
    BY <2>1 DEF RS!Refuse
  <2> QED
    BY <2>2 DEF RS!Next
<1>6. ASSUME NEW t \in Threads, Fail(t)
      PROVE  RS!Next
  <2>1. /\ pending[t] # None /\ t \in refused
        /\ pending' = [pending EXCEPT ![t] = None]
        /\ answer' = [answer EXCEPT ![t] = Error]
        /\ refused' = refused \ {t}
    <3>1. /\ pc[t] = "failed" /\ pc' = [pc EXCEPT ![t] = "idle"]
          /\ buffer' = [buffer EXCEPT ![t] = Error]
          /\ req' = req
      BY <1>6 DEF Fail
    <3>2. pending[t] # None /\ t \in refused
      BY <3>1
    <3>3. pending' = [pending EXCEPT ![t] = None]
      BY <3>1
    <3>4. answer' = [answer EXCEPT ![t] = Error]
      BY <3>1
    <3>5. refused' = refused \ {t}
      BY <3>1
    <3> QED
      BY <3>2, <3>3, <3>4, <3>5
  <2>2. RS!Fail(t)
    BY <2>1 DEF RS!Fail
  <2> QED
    BY <2>2 DEF RS!Next
<1>7. ASSUME NEW t \in Threads, HitCopy(t) \/ MissTouch(t)
      PROVE  RS!Next
  <2>1. buffer'[t] = req[t]
    BY <1>7 DEF HitCopy, MissTouch, Copied, Progress
  <2>2. /\ pc[t] \in {"hitCopy", "missTouch"} /\ pc' = [pc EXCEPT ![t] = "idle"]
        /\ buffer' = [buffer EXCEPT ![t] = req[t]]
        /\ req' = req
    BY <1>7, <2>1 DEF HitCopy, MissTouch, Copied
  <2> USE <2>2
  <2>3. /\ pending[t] = req[t] /\ pending[t] # None
        /\ pending' = [pending EXCEPT ![t] = None]
    OBVIOUS
  <2>4. refused' = refused
    OBVIOUS
  <2>5. answer' = [answer EXCEPT ![t] = pending[t]]
    OBVIOUS
  <2>6. RS!Serve(t)
    BY <2>3, <2>4, <2>5 DEF RS!Serve
  <2> QED
    BY <2>6 DEF RS!Next
<1>8. ASSUME NEW t \in Threads,
             \/ LockLoaded(t) \/ LockFailed(t) \/ Replace(t)
             \/ LoadOk(t) \/ Unlock(t) \/ MissCopy(t) \/ HitTouch(t)
      PROVE  UNCHANGED RS!vars
  <2>1. CASE LockLoaded(t) \/ LockFailed(t) \/ Replace(t)
    BY <1>2, <2>1 DEF LockLoaded, LockFailed, Replace
  <2>2. CASE LoadOk(t) \/ Unlock(t)
    BY <1>2, <2>2 DEF LoadOk, Unlock
  <2>3. CASE MissCopy(t) \/ HitTouch(t)
    BY <1>2, <2>3 DEF MissCopy, HitTouch, Copied
  <2> QED
    BY <1>8, <2>1, <2>2, <2>3
<1> QED
  BY <1>3, <1>4, <1>5, <1>6, <1>7, <1>8 DEF Next, Lookup, Load, Continue

(* read_chunk implements ReadService, whatever the interleaving.           *)
THEOREM ReadServiceImplemented == Spec => ImplementsReadService
<1>1. Init /\ [][Next]_vars => []CacheInv
  BY CacheInvariant DEF Spec
<1> QED
  BY <1>1, InitImplements, NextImplements, PTL DEF Spec, RS!Spec, ImplementsReadService
=============================================================================
