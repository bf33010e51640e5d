-------------------------- MODULE ChunkStoreProofs --------------------------
(***************************************************************************)
(* ChunkStore for every number of threads, chunks, parts, failures and     *)
(* restarts, and every limit: types, what the collector knows of the disk, *)
(* the bound of the disk, and what in_store says of it.                    *)
(***************************************************************************)
EXTENDS ChunkStore, LruCollectorProofs

USE ChunksAssumption, PartsAssumption, SizeAssumption, BoundsAssumption,
    NoneAssumption

(* What the label of a thread says of its call, and the collector's mutex. *)
CallInv ==
  \A t \in Threads :
    /\ pc[t] # "idle" => req[t] \in Chunks
    /\ pc[t] = "write" => fd[t] \in Inode /\ op[t] = "write" /\ done[t] < Parts
    /\ pc[t] # "write" => done[t] = 0
    /\ pc[t] = "insert" => op[t] = "write"
    /\ pc[t] = "read" => op[t] = "read"
    /\ pc[t] \in Evicting <=> lruOwner = t
    /\ pc[t] \in Evicting => /\ victim[t] \in Chunks
                             /\ Len(lru) < Size
                             /\ req[t] \notin Held(lru)

Typed == TypeOK /\ CallInv

LEMMA InitTyped == Init => Typed
<1> SUFFICES ASSUME Init PROVE Typed
  OBVIOUS
<1>1. lru \in Seq(Chunks) /\ WellFormed(lru, Size)
  BY DEF Init, WellFormed
<1> QED
  BY <1>1 DEF Init, Typed, TypeOK, CallInv, Label, Evicting

(* What the constructor leaves in the collector.                           *)
LEMMA RebuiltTyped ==
  ASSUME NEW kept \in SUBSET Chunks, NEW q \in Rebuilt(kept)
  PROVE  q \in Seq(Chunks) /\ WellFormed(q, Size) /\ Held(q) = kept
<1>1. PICK n \in 0..Size : q \in [1..n -> kept]
  BY DEF Rebuilt
<1>2. q \in Seq(kept) /\ Len(q) = n /\ DOMAIN q = 1..n
  BY <1>1
<1>3. /\ Held(q) = kept
      /\ \A j, k \in 1..n : j < k => q[j] > q[k]
  BY <1>2 DEF Rebuilt
<1>4. ASSUME NEW j \in 1..n, NEW k \in 1..n, q[j] = q[k]
      PROVE  j = k
  <2>1. q[j] \in Nat
    BY <1>1
  <2>2. ~(q[j] > q[k]) /\ ~(q[k] > q[j])
    BY <2>1, <1>4
  <2> QED
    BY <1>3, <2>2
<1>5. q \in Seq(Chunks)
  <2>1. q \in [1..n -> Chunks]
    BY <1>1
  <2> QED
    BY <2>1
<1>6. WellFormed(q, Size)
  BY <1>2, <1>4 DEF WellFormed
<1> QED
  BY <1>3, <1>5, <1>6

(* The steps of the collector on its list.                                 *)
LEMMA EvictList ==
  ASSUME Typed, NEW t \in Threads, Evict(t)
  PROVE  /\ lru' \in Seq(Chunks) /\ WellFormed(lru', Size) /\ Len(lru') < Size
         /\ victim'[t] \in Chunks
         /\ Held(lru') = Held(lru) \ {victim'[t]}
         /\ req[t] \notin Held(lru')
<1>1. /\ lru \in Seq(Chunks) /\ WellFormed(lru, Size)
      /\ Len(lru) >= Size /\ req[t] \notin Held(lru)
      /\ lru' = SubSeq(lru, 1, Len(lru) - 1)
      /\ victim'[t] = lru[Len(lru)]
  BY DEF Typed, TypeOK, Evict, Evicts
<1>2. Len(lru) > 0 /\ Len(lru) <= Size
  BY <1>1 DEF WellFormed
<1>3. /\ lru' \in Seq(Chunks) /\ Len(lru') = Len(lru) - 1
      /\ WellFormed(lru', Size)
      /\ victim'[t] \in Chunks
      /\ Held(lru') = Held(lru) \ {victim'[t]}
  BY <1>1, <1>2, PopWellFormed
<1> QED
  BY <1>1, <1>2, <1>3

LEMMA PushList ==
  ASSUME Typed, NEW t \in Threads, pc[t] \in Evicting, Pushed(t)
  PROVE  /\ lru' \in Seq(Chunks) /\ WellFormed(lru', Size)
         /\ Held(lru') = Held(lru) \cup {req[t]}
<1>1. /\ lru \in Seq(Chunks) /\ WellFormed(lru, Size) /\ Len(lru) < Size
      /\ req[t] \in Chunks /\ req[t] \notin Held(lru)
      /\ lru' = <<req[t]>> \o lru
  BY DEF Typed, TypeOK, CallInv, Pushed, Evicting
<1> QED
  BY <1>1, PushWellFormed

LEMMA TouchList ==
  ASSUME Typed, NEW t \in Threads, Touch(t)
  PROVE  /\ lru' \in Seq(Chunks) /\ WellFormed(lru', Size)
         /\ Held(lru') = Held(lru) \cup {req[t]}
<1>1. /\ lru \in Seq(Chunks) /\ WellFormed(lru, Size)
      /\ req[t] \in Chunks
      /\ lru' = Updated(lru, req[t], Size)
      /\ Victims(lru, req[t], Size) = {}
  BY DEF Typed, TypeOK, CallInv, Touch, Victims
<1> QED
  BY <1>1, UpdatedWellFormed, UpdatedHeld

(* What the constructor leaves: a file is on its list, or could not be     *)
(* unlinked, and those are advertised.                                     *)
LEMMA Constructed ==
  ASSUME Typed, Construct
  PROVE  /\ lru' \in Seq(Chunks) /\ WellFormed(lru', Size)
         /\ dir' \in [Chunks -> Inode \cup {None}]
         /\ inStore' \in SUBSET Chunks
         /\ stray' \in SUBSET Chunks
         /\ failures' \in 0..MaxFailures
         /\ \A i \in Chunks : dir'[i] = dir[i] \/ dir'[i] = None
         /\ \A i \in Chunks : dir'[i] # None <=> i \in inStore'
         /\ \A i \in Chunks : dir'[i] # None => i \in Held(lru') \cup stray'
<1>1. PICK failed \in SUBSET Files :
        /\ Unlinkable(failed)
        /\ dir' = [i \in Chunks |->
                     IF i \in Survivors(Files) \cup failed THEN dir[i] ELSE None]
        /\ inStore' = Survivors(Files) \cup failed
        /\ lru' \in Rebuilt(Survivors(Files))
  BY DEF Construct
<1>2. Survivors(Files) \subseteq Files /\ Files \subseteq Chunks
  BY DEF Survivors, Files
<1>3. dir \in [Chunks -> Inode \cup {None}] /\ failures \in Nat
  BY DEF Typed, TypeOK
<1>4. lru' \in Seq(Chunks) /\ WellFormed(lru', Size) /\ Held(lru') = Survivors(Files)
  BY <1>1, <1>2, RebuiltTyped
<1>5. failures' \in 0..MaxFailures
  <2>1. Cardinality(failed) \in Nat
    BY <1>1, <1>2, ChunksAssumption, FS_Subset, FS_CardinalityType
  <2> QED
    BY <1>1, <1>3, <2>1, BoundsAssumption DEF Unlinkable
<1>6. stray' = failed
  BY <1>1 DEF Unlinkable
<1>7. dir' \in [Chunks -> Inode \cup {None}]
  BY <1>1, <1>3
<1>8. \A i \in Chunks : dir'[i] # None <=> i \in inStore'
  BY <1>1, <1>2 DEF Files
<1> QED
  BY <1>1, <1>2, <1>4, <1>5, <1>6, <1>7, <1>8

(* A counter that is below its bound may take one more step.               *)
LEMMA CountUp ==
  ASSUME NEW m \in Nat, NEW k \in 0..m, k < m
  PROVE  k + 1 \in 0..m
  OBVIOUS

LEMMA NextTyped == Typed /\ [Next]_vars => Typed'
<1> SUFFICES ASSUME Typed, [Next]_vars PROVE Typed'
  OBVIOUS
<1> USE DEF Typed, TypeOK, CallInv, Label, Evicting, disk, call, bounds, history, Goto
<1>1. CASE UNCHANGED vars
  BY <1>1 DEF vars
<1>2. ASSUME NEW t \in Threads, NEW i \in Chunks, ReadOpen(t, i)
      PROVE  Typed'
  BY <1>2 DEF ReadOpen, Start
<1>3. ASSUME NEW t \in Threads, NEW i \in Chunks, WriteOpen(t, i)
      PROVE  Typed'
  <2>1. body' \in [Inode -> SUBSET (1..Parts)] /\ dir' \in [Chunks -> Inode \cup {None}]
    BY <1>3 DEF WriteOpen
  <2> QED
    BY <1>3, <2>1 DEF WriteOpen, Start
<1>4. ASSUME NEW t \in Threads, WriteSome(t)
      PROVE  Typed'
  <2>1. PICK k \in (done[t] + 1)..Parts :
          /\ body' = [body EXCEPT ![fd[t]] = @ \cup ((done[t] + 1)..k)]
          /\ \/ k < Parts /\ done' = [done EXCEPT ![t] = k] /\ UNCHANGED <<fd, pc>>
             \/ /\ done' = [done EXCEPT ![t] = 0]
                /\ fd' = [fd EXCEPT ![t] = None]
                /\ pc' = [pc EXCEPT ![t] = "touch"]
    BY <1>4 DEF WriteSome
  <2>2. body' \in [Inode -> SUBSET (1..Parts)]
    BY <1>4, <2>1 DEF WriteSome
  <2>3. k \in 0..Parts
    BY <1>4, <2>1 DEF WriteSome
  <2>4. CASE k < Parts /\ done' = [done EXCEPT ![t] = k] /\ UNCHANGED <<fd, pc>>
    BY <1>4, <2>2, <2>3, <2>4 DEF WriteSome
  <2>5. CASE /\ done' = [done EXCEPT ![t] = 0]
             /\ fd' = [fd EXCEPT ![t] = None]
             /\ pc' = [pc EXCEPT ![t] = "touch"]
    BY <1>4, <2>2, <2>5 DEF WriteSome
  <2> QED
    BY <2>1, <2>4, <2>5
<1>5. ASSUME NEW t \in Threads, WriteError(t)
      PROVE  Typed'
  <2>1. torn' \in SUBSET Inode /\ stray' \in SUBSET Chunks
    BY <1>5 DEF WriteError
  <2>4. failures' \in 0..MaxFailures
    BY <1>5, CountUp DEF WriteError
  <2>2. CallInv'
    <3>1. /\ pc[t] = "write" /\ UNCHANGED <<lru, lruOwner, victim>>
          /\ Return(t)
      BY <1>5 DEF WriteError
    <3> QED
      BY <3>1 DEF Return
  <2>3. TypeOK'
    BY <1>5, <2>1, <2>4 DEF WriteError, Return
  <2> QED
    BY <2>2, <2>3
<1>6. ASSUME NEW t \in Threads, Touch(t)
      PROVE  Typed'
  <2>1. /\ pc[t] = "touch" /\ pc' = [pc EXCEPT ![t] = After(t)]
        /\ UNCHANGED <<dir, body, inStore, lruOwner, op, req, fd, done, victim>>
        /\ UNCHANGED <<failures, crashes, torn, overtaken>>
        /\ stray' = stray \ {req[t]}
    BY <1>6 DEF Touch
  <2>2. lruOwner = None /\ \A u \in Threads : pc[u] \notin Evicting
    BY <1>6, NoneAssumption DEF Touch
  <2>3. After(t) = "insert" => op[t] = "write"
    BY DEF After
  <2>4. After(t) = "read" => op[t] = "read"
    BY DEF After
  <2>5. After(t) \in {"insert", "read"}
    BY DEF After
  <2>6. CallInv'
    BY <2>1, <2>2, <2>3, <2>4, <2>5
  <2>7. lru' \in Seq(Chunks) /\ WellFormed(lru', Size)
    BY <1>6, TouchList
  <2>8. pc' \in [Threads -> Label]
    BY <2>1, <2>5
  <2>9. TypeOK'
    BY <2>1, <2>7, <2>8
  <2> QED
    BY <2>6, <2>9
<1>7. ASSUME NEW t \in Threads, Evict(t)
      PROVE  Typed'
  <2>1. /\ lru' \in Seq(Chunks) /\ WellFormed(lru', Size) /\ Len(lru') < Size
        /\ victim'[t] \in Chunks /\ req[t] \notin Held(lru')
    BY <1>7, EvictList
  <2>2. /\ pc[t] = "touch" /\ pc' = [pc EXCEPT ![t] = "unlink"]
        /\ lruOwner = None /\ lruOwner' = t
        /\ victim' = [victim EXCEPT ![t] = victim'[t]]
        /\ UNCHANGED <<dir, body, inStore, op, req, fd, done>>
        /\ UNCHANGED <<failures, crashes, torn, stray, overtaken>>
    BY <1>7 DEF Evict
  <2>3. \A u \in Threads : pc[u] \notin Evicting
    BY <2>2, NoneAssumption
  <2>4. CallInv'
    BY <2>1, <2>2, <2>3
  <2>5. TypeOK'
    BY <2>1, <2>2
  <2> QED
    BY <2>4, <2>5
<1>8. ASSUME NEW t \in Threads, Unlink(t)
      PROVE  Typed'
  <2>1. /\ pc[t] = "unlink" /\ pc' = [pc EXCEPT ![t] = "erase"]
        /\ dir' = [dir EXCEPT ![victim[t]] = None]
        /\ UNCHANGED <<body, inStore, lru, lruOwner, op, req, fd, done, victim>>
        /\ UNCHANGED <<failures, crashes, torn>>
    BY <1>8 DEF Unlink
  <2>2. CallInv'
    BY <2>1
  <2>3. victim[t] \in Chunks /\ stray \in SUBSET Chunks /\ overtaken \in SUBSET Chunks
    BY <2>1
  <2>4. stray' \subseteq stray /\ overtaken' \subseteq overtaken \cup {victim[t]}
    BY <1>8 DEF Unlink
  <2>5. stray' \in SUBSET Chunks /\ overtaken' \in SUBSET Chunks
    BY <2>3, <2>4
  <2>6. dir' \in [Chunks -> Inode \cup {None}] /\ pc' \in [Threads -> Label]
    BY <2>1
  <2>7. TypeOK'
    BY <2>1, <2>5, <2>6
  <2> QED
    BY <2>2, <2>7
<1>9. ASSUME NEW t \in Threads, UnlinkAbsent(t)
      PROVE  Typed'
  <2>1. pc[t] = "unlink" /\ UNCHANGED <<op, req, fd, done>> /\ Pushed(t)
    BY <1>9 DEF UnlinkAbsent
  <2>2. CallInv'
    BY <2>1 DEF Pushed, After
  <2>3. TypeOK'
    BY <1>9, PushList DEF UnlinkAbsent, Pushed, After
  <2> QED
    BY <2>2, <2>3
<1>10. ASSUME NEW t \in Threads, UnlinkError(t)
       PROVE  Typed'
  <2>1. stray' \in SUBSET Chunks
    <3>1. pc[t] = "unlink" /\ stray' = (stray \cup {victim[t]}) \ {req[t]}
      BY <1>10 DEF UnlinkError
    <3>2. victim[t] \in Chunks
      BY <3>1
    <3> QED
      BY <3>1, <3>2
  <2>5. failures' \in 0..MaxFailures
    BY <1>10, CountUp DEF UnlinkError
  <2>2. /\ lru' \in Seq(Chunks) /\ WellFormed(lru', Size)
        /\ Held(lru') = Held(lru) \cup {req[t]}
    BY <1>10, PushList DEF UnlinkError
  <2>3. CallInv'
    <3>1. /\ pc[t] = "unlink" /\ UNCHANGED <<op, req, fd, done>>
          /\ Pushed(t)
      BY <1>10 DEF UnlinkError
    <3> QED
      BY <3>1 DEF Pushed, After
  <2>4. TypeOK'
    BY <1>10, <2>1, <2>2, <2>5 DEF UnlinkError, Pushed, After
  <2> QED
    BY <2>3, <2>4
<1>11. ASSUME NEW t \in Threads, Erase(t)
       PROVE  Typed'
  BY <1>11, PushList DEF Erase, Pushed, After
<1>12. ASSUME NEW t \in Threads, Insert(t)
       PROVE  Typed'
  BY <1>12 DEF Insert, Return
<1>13. ASSUME NEW t \in Threads, ReadBody(t)
       PROVE  Typed'
  BY <1>13 DEF ReadBody, Return
<1>14. CASE Restart
  <2>1. lru' \in Seq(Chunks) /\ WellFormed(lru', Size)
    BY <1>14, Constructed DEF Restart
  <2>2. /\ dir' \in [Chunks -> Inode \cup {None}]
        /\ inStore' \in SUBSET Chunks
        /\ stray' \in SUBSET Chunks
        /\ failures' \in 0..MaxFailures
    BY <1>14, Constructed DEF Restart
  <2>3. torn' \in SUBSET Inode
    BY <1>14 DEF Restart
  <2> QED
    BY <1>14, <2>1, <2>2, <2>3 DEF Restart
<1> QED
  BY <1>1, <1>2, <1>3, <1>4, <1>5, <1>6, <1>7, <1>8, <1>9, <1>10, <1>11,
     <1>12, <1>13, <1>14 DEF Next, Open, Continue

(* The state of the store keeps its types, and the list of its collector   *)
(* keeps to the limit, also while an eviction is under way.                *)
THEOREM TypeCorrect == Spec => []TypeOK
<1>1. Typed => TypeOK
  BY DEF Typed
<1> QED
  BY <1>1, InitTyped, NextTyped, PTL DEF Spec
----------------------------------------------------------------------------
(* A write that has not been put on the collector's list yet.              *)
Early == {"write", "touch"} \cup Evicting

(* What Tracked says of a file, with only the early writes for an excuse.  *)
Known(i) ==
  \/ i \in Held(lru) \cup stray
  \/ \E t \in Threads : pc[t] = "unlink" /\ victim[t] = i
  \/ \E t \in Threads : pc[t] \in Early /\ op[t] = "write" /\ req[t] = i

TrackedInv == \A i \in Chunks : dir[i] # None => Known(i)

LEMMA InitTracked == Init => TrackedInv
  BY DEF Init, TrackedInv

LEMMA NextTracked == Typed /\ TrackedInv /\ [Next]_vars => TrackedInv'
<1> SUFFICES ASSUME Typed, TrackedInv, [Next]_vars,
                    NEW i \in Chunks, dir'[i] # None
             PROVE  Known(i)'
  BY DEF TrackedInv
<1> USE DEF Evicting, Early, disk, call, bounds, history, Goto
<1>0. /\ dir[i] # None => Known(i)
      /\ pc \in [Threads -> Label] /\ op \in [Threads -> {"read", "write"}]
      /\ req \in [Threads -> Chunks \cup {None}]
      /\ victim \in [Threads -> Chunks \cup {None}]
      /\ dir \in [Chunks -> Inode \cup {None}]
  BY DEF TrackedInv, Typed, TypeOK
<1>1. CASE UNCHANGED vars
  BY <1>0, <1>1 DEF vars, Known
<1>2. ASSUME NEW t \in Threads, NEW j \in Chunks, ReadOpen(t, j)
      PROVE  Known(i)'
  BY <1>0, <1>2 DEF ReadOpen, Start, Known
<1>3. ASSUME NEW t \in Threads, NEW j \in Chunks, WriteOpen(t, j)
      PROVE  Known(i)'
  <2>1. CASE i = j
    <3>1. pc'[t] \in Early /\ op'[t] = "write" /\ req'[t] = i
      BY <1>0, <1>3, <2>1 DEF WriteOpen, Start
    <3> QED
      BY <3>1 DEF Known
  <2>2. CASE i # j
    <3>1. dir'[i] = dir[i]
      BY <1>0, <1>3, <2>2 DEF WriteOpen
    <3> QED
      BY <1>0, <1>3, <3>1 DEF WriteOpen, Start, Known
  <2> QED
    BY <2>1, <2>2
<1>4. ASSUME NEW t \in Threads, WriteSome(t)
      PROVE  Known(i)'
  <2>1. pc' = pc \/ pc' = [pc EXCEPT ![t] = "touch"]
    BY <1>4 DEF WriteSome
  <2>2. pc[t] = "write" /\ UNCHANGED <<dir, lru, op, req, victim, stray>>
    BY <1>4 DEF WriteSome
  <2> QED
    BY <1>0, <2>1, <2>2 DEF Known
<1>5. ASSUME NEW t \in Threads, WriteError(t)
      PROVE  Known(i)'
  BY <1>0, <1>5 DEF WriteError, Return, Known
<1>6. ASSUME NEW t \in Threads, Touch(t)
      PROVE  Known(i)'
  <2>1. Held(lru') = Held(lru) \cup {req[t]}
    BY <1>6, TouchList
  <2> QED
    BY <1>0, <1>6, <2>1 DEF Touch, After, Known
<1>7. ASSUME NEW t \in Threads, Evict(t)
      PROVE  Known(i)'
  <2>1. Held(lru') = Held(lru) \ {victim'[t]}
    BY <1>7, EvictList
  <2>2. pc'[t] = "unlink"
    BY <1>0, <1>7 DEF Evict
  <2> QED
    BY <1>0, <1>7, <2>1, <2>2 DEF Evict, Known
<1>8. ASSUME NEW t \in Threads, Unlink(t)
      PROVE  Known(i)'
  <2>1. dir[i] # None /\ i # victim[t]
    BY <1>0, <1>8 DEF Unlink
  <2> QED
    BY <1>0, <1>8, <2>1 DEF Unlink, Known
<1>9. ASSUME NEW t \in Threads, UnlinkAbsent(t) \/ UnlinkError(t) \/ Erase(t)
      PROVE  Known(i)'
  <2>1. /\ pc[t] \in Evicting /\ Pushed(t)
        /\ UNCHANGED <<dir, op, req>>
        /\ stray \ {req[t]} \subseteq stray'
        /\ UnlinkError(t) => victim[t] \in stray' \cup {req[t]}
        /\ UnlinkAbsent(t) => dir[victim[t]] = None
        /\ Erase(t) => pc[t] = "erase"
    BY <1>9 DEF UnlinkAbsent, UnlinkError, Erase
  <2>2. Held(lru') = Held(lru) \cup {req[t]}
    BY <2>1, PushList
  <2> QED
    BY <1>0, <1>9, <2>1, <2>2 DEF Pushed, Known, After
<1>12. ASSUME NEW t \in Threads, Insert(t) \/ ReadBody(t)
       PROVE  Known(i)'
  BY <1>0, <1>12 DEF Insert, ReadBody, Return, Known
<1>14. CASE Restart
  <2>1. i \in Held(lru') \cup stray'
    BY <1>14, Constructed DEF Restart
  <2> QED
    BY <2>1 DEF Known
<1> QED
  BY <1>1, <1>2, <1>3, <1>4, <1>5, <1>6, <1>7, <1>8, <1>9,
     <1>12, <1>14 DEF Next, Open, Continue

(* Every file is known to the collector, about to be unlinked, written, or *)
(* left behind by a failed call.                                           *)
THEOREM TrackedHolds == Spec => []Tracked
<1>1. TrackedInv => Tracked
  BY DEF TrackedInv, Known, Early, Evicting, Tracked, Files, Writers
<1> QED
  BY <1>1, InitTyped, NextTyped, InitTracked, NextTracked, PTL DEF Spec

(* The disk holds at most `size` chunks, and one for each write in flight  *)
(* and for each id that a failed call left behind.                         *)
THEOREM StoreBounded == Spec => []StoreBound
<1> USE ThreadsAssumption
<1>1. ASSUME Typed, TrackedInv PROVE StoreBound
  <2> DEFINE writing == {t \in Threads : pc[t] # "idle" /\ op[t] = "write"}
             written == {req[t] : t \in writing}
             evicted == {victim[t] : t \in {u \in Threads : pc[u] = "unlink"}}
             listed == Held(lru) \cup evicted
  <2>1. IsFiniteSet(listed) /\ Cardinality(listed) <= Size
    <3>1. lru \in Seq(Chunks) /\ WellFormed(lru, Size) /\ Len(lru) \in Nat
      BY <1>1 DEF Typed, TypeOK
    <3>2. CASE \A t \in Threads : pc[t] # "unlink"
      <4>1. listed = Held(lru)
        BY <3>2
      <4> QED
        BY <3>1, <4>1, HeldBound
    <3>3. ASSUME NEW t \in Threads, pc[t] = "unlink"
          PROVE  IsFiniteSet(listed) /\ Cardinality(listed) <= Size
      <4>1. \A u \in Threads : pc[u] = "unlink" => u = t
        BY <1>1, <3>3 DEF Typed, CallInv, Evicting
      <4>2. evicted = {victim[t]}
        BY <3>3, <4>1
      <4>3. Len(lru) < Size
        BY <1>1, <3>3 DEF Typed, CallInv, Evicting
      <4>4. Len(lru) + 1 \in Nat /\ Len(lru) + 1 <= Size /\ WellFormed(lru, Len(lru))
        BY <3>1, <4>3 DEF WellFormed
      <4>5. /\ IsFiniteSet(Held(lru)) /\ Cardinality(Held(lru)) <= Len(lru)
            /\ Cardinality(Held(lru)) \in Nat
        BY <3>1, <4>4, HeldBound, FS_CardinalityType
      <4>6. /\ IsFiniteSet(Held(lru) \cup {victim[t]})
            /\ \/ Cardinality(Held(lru) \cup {victim[t]}) = Cardinality(Held(lru)) + 1
               \/ Cardinality(Held(lru) \cup {victim[t]}) = Cardinality(Held(lru))
        BY <4>5, FS_AddElement
      <4> HIDE DEF listed
      <4>7. listed = Held(lru) \cup {victim[t]}
        BY <4>2 DEF listed
      <4> QED
        BY <3>1, <4>3, <4>5, <4>6, <4>7
    <3> QED
      BY <3>2, <3>3
  <2>2. IsFiniteSet(writing) /\ Cardinality(writing) \in Nat
    BY FS_Subset, FS_CardinalityType
  <2>3. [t \in writing |-> req[t]] \in Surjection(writing, written)
    BY DEF Surjection
  <2>4. IsFiniteSet(written) /\ Cardinality(written) <= Cardinality(writing)
    BY <2>2, <2>3, FS_Surjection
  <2>5. IsFiniteSet(stray)
    BY <1>1, FS_Subset DEF Typed, TypeOK
  <2>6. Files \subseteq (listed \cup written) \cup stray
    <3> SUFFICES ASSUME NEW i \in Files
                 PROVE  i \in listed \/ i \in written \/ i \in stray
      OBVIOUS
    <3>1. Known(i)
      BY <1>1 DEF TrackedInv, Files
    <3>2. CASE i \in Held(lru) \cup stray
      BY <3>2
    <3>3. ASSUME NEW t \in Threads, pc[t] = "unlink", victim[t] = i
          PROVE  i \in evicted
      BY <3>3
    <3>4. ASSUME NEW t \in Threads, pc[t] \in Early, op[t] = "write", req[t] = i
          PROVE  i \in written
      BY <3>4 DEF Early, Evicting
    <3> QED
      BY <3>1, <3>2, <3>3, <3>4 DEF Known
  <2> HIDE DEF listed, written, writing
  <2>7. /\ IsFiniteSet(listed \cup written)
        /\ Cardinality(listed \cup written)
             <= Cardinality(listed) + Cardinality(written)
    BY <2>1, <2>4, UnionBound
  <2>8. /\ IsFiniteSet((listed \cup written) \cup stray)
        /\ Cardinality((listed \cup written) \cup stray)
             <= Cardinality(listed \cup written) + Cardinality(stray)
    BY <2>5, <2>7, UnionBound
  <2>9. Cardinality(Files) <= Cardinality((listed \cup written) \cup stray)
    BY <2>6, <2>8, FS_Subset
  <2>10. /\ Cardinality(Files) \in Nat /\ Cardinality(listed) \in Nat
         /\ Cardinality(written) \in Nat /\ Cardinality(stray) \in Nat
         /\ Cardinality(listed \cup written) \in Nat
         /\ Cardinality((listed \cup written) \cup stray) \in Nat
    BY <2>1, <2>4, <2>5, <2>6, <2>7, <2>8, FS_Subset, FS_CardinalityType
  <2>11. Cardinality(Files) <= Size + Cardinality(writing) + Cardinality(stray)
    BY <2>1, <2>2, <2>4, <2>7, <2>8, <2>9, <2>10
  <2> QED
    BY <2>11 DEF StoreBound, writing
<1> QED
  BY <1>1, InitTyped, NextTyped, InitTracked, NextTracked, PTL DEF Spec
----------------------------------------------------------------------------
(* What is in in_store, or will be when a write in flight gets there, is   *)
(* on disk, about to be withdrawn, or was overtaken by an eviction.        *)
Accounted(i) ==
  /\ i \in inStore =>
       dir[i] # None \/ i \in overtaken
         \/ \E t \in Threads : pc[t] = "erase" /\ victim[t] = i
  /\ \A t \in Threads :
       pc[t] # "idle" /\ op[t] = "write" /\ req[t] = i
         => dir[i] # None \/ i \in overtaken

AdvertisedInv == \A i \in Chunks : Accounted(i)

LEMMA InitAdvertised == Init => AdvertisedInv
  BY DEF Init, AdvertisedInv, Accounted

LEMMA NextAdvertised == Typed /\ AdvertisedInv /\ [Next]_vars => AdvertisedInv'
<1> SUFFICES ASSUME Typed, AdvertisedInv, [Next]_vars, NEW i \in Chunks
             PROVE  Accounted(i)'
  BY DEF AdvertisedInv
<1> USE DEF Accounted, Evicting, disk, call, bounds, history, Goto
<1>0. /\ Accounted(i)
      /\ pc \in [Threads -> Label] /\ op \in [Threads -> {"read", "write"}]
      /\ req \in [Threads -> Chunks \cup {None}]
      /\ victim \in [Threads -> Chunks \cup {None}]
      /\ dir \in [Chunks -> Inode \cup {None}]
      /\ \A t \in Threads : pc[t] \in Evicting <=> lruOwner = t
      /\ \A t \in Threads : pc[t] = "insert" => op[t] = "write"
  BY DEF AdvertisedInv, Typed, TypeOK, CallInv
<1>1. CASE UNCHANGED vars
  BY <1>0, <1>1 DEF vars
<1>2. ASSUME NEW t \in Threads, NEW j \in Chunks, ReadOpen(t, j)
      PROVE  Accounted(i)'
  BY <1>0, <1>2 DEF ReadOpen, Start
<1>3. ASSUME NEW t \in Threads, NEW j \in Chunks, WriteOpen(t, j)
      PROVE  Accounted(i)'
  <2>1. CASE i = j
    <3>1. dir'[i] # None
      BY <1>0, <1>3, <2>1 DEF WriteOpen
    <3> QED
      BY <3>1
  <2>2. CASE i # j
    <3>1. dir'[i] = dir[i]
      BY <1>0, <1>3, <2>2 DEF WriteOpen
    <3> QED
      BY <1>0, <1>3, <2>2, <3>1 DEF WriteOpen, Start
  <2> QED
    BY <2>1, <2>2
<1>4. ASSUME NEW t \in Threads, WriteSome(t)
      PROVE  Accounted(i)'
  <2>1. pc' = pc \/ pc' = [pc EXCEPT ![t] = "touch"]
    BY <1>4 DEF WriteSome
  <2>2. pc[t] = "write" /\ UNCHANGED <<dir, inStore, op, req, victim, overtaken>>
    BY <1>4 DEF WriteSome
  <2> QED
    BY <1>0, <2>1, <2>2
<1>5. ASSUME NEW t \in Threads, WriteError(t)
      PROVE  Accounted(i)'
  BY <1>0, <1>5 DEF WriteError, Return
<1>6. ASSUME NEW t \in Threads, Touch(t) \/ Evict(t)
      PROVE  Accounted(i)'
  BY <1>0, <1>6 DEF Touch, Evict, After
<1>7. ASSUME NEW t \in Threads, Unlink(t)
      PROVE  Accounted(i)'
  <2>1. CASE i = victim[t]
    <3>1. \A u \in Threads : pc'[u] # "idle" /\ op'[u] = "write" /\ req'[u] = i
                              => i \in overtaken'
      BY <1>0, <1>7, <2>1 DEF Unlink, Writers
    <3>2. pc'[t] = "erase" /\ victim'[t] = i
      BY <1>0, <1>7, <2>1 DEF Unlink
    <3> QED
      BY <3>1, <3>2
  <2>2. CASE i # victim[t]
    <3>1. dir'[i] = dir[i] /\ overtaken \subseteq overtaken' /\ inStore' = inStore
      BY <1>0, <1>7, <2>2 DEF Unlink
    <3> QED
      BY <1>0, <1>7, <3>1 DEF Unlink
  <2> QED
    BY <2>1, <2>2
<1>8. ASSUME NEW t \in Threads, UnlinkAbsent(t) \/ UnlinkError(t)
      PROVE  Accounted(i)'
  BY <1>0, <1>8 DEF UnlinkAbsent, UnlinkError, Pushed, After
<1>9. ASSUME NEW t \in Threads, Erase(t)
      PROVE  Accounted(i)'
  BY <1>0, <1>9 DEF Erase, Pushed, After
<1>10. ASSUME NEW t \in Threads, Insert(t) \/ ReadBody(t)
       PROVE  Accounted(i)'
  BY <1>0, <1>10 DEF Insert, ReadBody, Return
<1>11. CASE Restart
  BY <1>11, Constructed DEF Restart
<1> QED
  BY <1>1, <1>2, <1>3, <1>4, <1>5, <1>6, <1>7, <1>8, <1>9, <1>10, <1>11
     DEF Next, Open, Continue

(* What available() reports is on disk, but for the chunks that an         *)
(* eviction has just unlinked or unlinked under a writer.                  *)
THEOREM AdvertisedHolds == Spec => []AdvertisedOnDisk
<1>1. Typed /\ AdvertisedInv => AdvertisedOnDisk
  BY DEF AdvertisedInv, Accounted, AdvertisedOnDisk, Typed, TypeOK
<1> QED
  BY <1>1, InitTyped, NextTyped, InitAdvertised, NextAdvertised, PTL DEF Spec
----------------------------------------------------------------------------
(* Two chunks never share a file.                                          *)
Distinct ==
  \A i, j \in Chunks : dir[i] # None /\ dir[i] = dir[j] => i = j

LEMMA InitDistinct == Init => Distinct
  BY DEF Init, Distinct

LEMMA NextDistinct == Typed /\ Distinct /\ [Next]_vars => Distinct'
<1> SUFFICES ASSUME Typed, Distinct, [Next]_vars
             PROVE  Distinct'
  OBVIOUS
<1> USE DEF Distinct, disk
<1>0. dir \in [Chunks -> Inode \cup {None}]
  BY DEF Typed, TypeOK
<1>1. ASSUME NEW t \in Threads, NEW k \in Chunks, WriteOpen(t, k)
      PROVE  Distinct'
  <2>1. PICK n \in Inode : /\ IF dir[k] # None THEN n = dir[k] ELSE Fresh(n)
                           /\ dir' = [dir EXCEPT ![k] = n]
    BY <1>1 DEF WriteOpen
  <2>2. \A i \in Chunks : i # k => dir[i] # n
    BY <1>0, <2>1 DEF Fresh, Free
  <2> QED
    BY <1>0, <2>1, <2>2
<1>2. CASE \E t \in Threads : Unlink(t)
  BY <1>0, <1>2 DEF Unlink
<1>3. CASE Restart
  BY <1>0, <1>3, Constructed DEF Restart
<1>4. CASE UNCHANGED dir
  BY <1>4
<1> QED
  BY <1>1, <1>2, <1>3, <1>4
     DEF Next, Open, Continue, ReadOpen, WriteSome, WriteError, Touch, Evict,
         UnlinkAbsent, UnlinkError, Erase, Insert, ReadBody, vars

(* The write calls that will advertise i, or leave its file torn: those    *)
(* that still write another file of i, since unlinked, count for nothing.  *)
Author(t, i) ==
  /\ op[t] = "write" /\ req[t] = i
  /\ pc[t] = "write" => fd[t] = dir[i]

(* A file is advertised, torn, or has an author; and while an eviction is  *)
(* between its unlink and its erase, a new file of the victim is torn or   *)
(* has an author that the collector's mutex still holds off.               *)
Visible(i) ==
  dir[i] # None =>
    /\ \/ dir[i] \in torn \/ i \in inStore
       \/ \E t \in Threads : pc[t] # "idle" /\ Author(t, i)
    /\ (\E t \in Threads : pc[t] = "erase" /\ victim[t] = i) =>
         \/ dir[i] \in torn
         \/ \E t \in Threads : pc[t] \in {"write", "touch"} /\ Author(t, i)

VisibleInv == \A i \in Chunks : Visible(i)

LEMMA InitVisible == Init => VisibleInv
  BY DEF Init, VisibleInv, Visible

LEMMA NextVisible == Typed /\ Distinct /\ VisibleInv /\ [Next]_vars => VisibleInv'
<1> SUFFICES ASSUME Typed, Distinct, VisibleInv, [Next]_vars, NEW i \in Chunks, dir'[i] # None
             PROVE  Visible(i)'
  BY DEF VisibleInv, Visible
<1> USE DEF Visible, Author, Evicting, disk, call, bounds, history, Goto
<1>0. /\ Visible(i)
      /\ pc \in [Threads -> Label] /\ op \in [Threads -> {"read", "write"}]
      /\ req \in [Threads -> Chunks \cup {None}]
      /\ victim \in [Threads -> Chunks \cup {None}]
      /\ dir \in [Chunks -> Inode \cup {None}]
      /\ fd \in [Threads -> Inode \cup {None}]
      /\ \A t \in Threads : pc[t] \in Evicting <=> lruOwner = t
      /\ \A t \in Threads : pc[t] = "write" => op[t] = "write"
      /\ \A t \in Threads : pc[t] = "insert" => op[t] = "write"
      /\ \A t \in Threads : pc[t] = "read" => op[t] = "read"
  BY DEF VisibleInv, Typed, TypeOK, CallInv
<1>1. CASE UNCHANGED vars
  BY <1>0, <1>1 DEF vars
<1>2. ASSUME NEW t \in Threads, NEW j \in Chunks, ReadOpen(t, j)
      PROVE  Visible(i)'
  BY <1>0, <1>2 DEF ReadOpen, Start
<1>3. ASSUME NEW t \in Threads, NEW j \in Chunks, WriteOpen(t, j)
      PROVE  Visible(i)'
  <2>1. PICK n \in Inode :
          /\ IF dir[j] # None THEN n = dir[j] ELSE Fresh(n)
          /\ dir' = [dir EXCEPT ![j] = n] /\ fd' = [fd EXCEPT ![t] = n]
          /\ torn' = torn \ {n}
    BY <1>3 DEF WriteOpen
  <2>2. /\ pc[t] = "idle" /\ pc' = [pc EXCEPT ![t] = "write"]
        /\ op' = [op EXCEPT ![t] = "write"] /\ req' = [req EXCEPT ![t] = j]
        /\ UNCHANGED <<inStore, victim>>
    BY <1>3 DEF WriteOpen, Start
  <2>3. CASE i = j
    <3>1. pc'[t] = "write" /\ op'[t] = "write" /\ req'[t] = i /\ fd'[t] = dir'[i]
      BY <1>0, <2>1, <2>2, <2>3
    <3> QED
      BY <3>1
  <2>4. CASE i # j
    <3>1. dir'[i] = dir[i] /\ dir[i] # n
      BY <1>0, <2>1, <2>4 DEF Distinct, Fresh, Free
    <3>2. dir[i] \in torn => dir'[i] \in torn'
      BY <2>1, <3>1
    <3>3. \A u \in Threads : pc[u] # "idle" /\ Author(u, i)
                                => pc'[u] = pc[u] /\ Author(u, i)'
      BY <1>0, <2>1, <2>2, <3>1
    <3>4. \A u \in Threads : pc'[u] = "erase" => pc[u] = "erase"
      BY <1>0, <2>2
    <3> HIDE DEF Author
    <3> QED
      BY <1>0, <2>2, <3>1, <3>2, <3>3, <3>4
  <2> QED
    BY <2>3, <2>4
<1>4. ASSUME NEW t \in Threads, WriteSome(t)
      PROVE  Visible(i)'
  <2>1. pc' = pc \/ pc' = [pc EXCEPT ![t] = "touch"]
    BY <1>4 DEF WriteSome
  <2>2. pc[t] = "write" /\ UNCHANGED <<dir, inStore, op, req, victim, torn>>
    BY <1>4 DEF WriteSome
  <2>3. \A u \in Threads : u # t => fd'[u] = fd[u]
    BY <1>0, <1>4 DEF WriteSome
  <2>4. pc'[t] = "write" => fd'[t] = fd[t]
    BY <1>0, <1>4, <2>2 DEF WriteSome
  <2> QED
    BY <1>0, <2>1, <2>2, <2>3, <2>4
<1>5. ASSUME NEW t \in Threads, WriteError(t)
      PROVE  Visible(i)'
  BY <1>0, <1>5 DEF WriteError, Return
<1>6. ASSUME NEW t \in Threads, Touch(t) \/ Evict(t)
      PROVE  Visible(i)'
  BY <1>0, <1>6 DEF Touch, Evict, After
<1>7. ASSUME NEW t \in Threads, Unlink(t)
      PROVE  Visible(i)'
  <2>1. dir'[i] = dir[i] /\ i # victim[t]
    BY <1>0, <1>7 DEF Unlink
  <2> QED
    BY <1>0, <1>7, <2>1 DEF Unlink
<1>8. ASSUME NEW t \in Threads, UnlinkAbsent(t) \/ UnlinkError(t)
      PROVE  Visible(i)'
  <2>1. /\ pc[t] = "unlink" /\ pc' = [pc EXCEPT ![t] = After(t)]
        /\ UNCHANGED <<dir, torn, inStore, op, req, fd>>
        /\ victim' = [victim EXCEPT ![t] = None]
    BY <1>8 DEF UnlinkAbsent, UnlinkError, Pushed
  <2>2. pc'[t] \in {"insert", "read"} /\ \A u \in Threads : u # t => pc'[u] = pc[u]
    BY <1>0, <2>1 DEF After
  <2> QED
    BY <1>0, <2>1, <2>2
<1>9. ASSUME NEW t \in Threads, Erase(t)
      PROVE  Visible(i)'
  BY <1>0, <1>9 DEF Erase, Pushed, After
<1>10. ASSUME NEW t \in Threads, Insert(t)
       PROVE  Visible(i)'
  <2>1. /\ pc[t] = "insert" /\ pc' = [pc EXCEPT ![t] = "idle"]
        /\ inStore' = inStore \cup {req[t]}
        /\ UNCHANGED <<dir, torn, victim>>
        /\ \A u \in Threads : u # t => op'[u] = op[u] /\ req'[u] = req[u] /\ fd'[u] = fd[u]
    BY <1>0, <1>10 DEF Insert, Return
  <2> QED
    BY <1>0, <2>1
<1>11. ASSUME NEW t \in Threads, ReadBody(t)
       PROVE  Visible(i)'
  <2>1. /\ pc[t] = "read" /\ pc' = [pc EXCEPT ![t] = "idle"]
        /\ UNCHANGED <<dir, torn, victim, inStore>>
        /\ \A u \in Threads : u # t => op'[u] = op[u] /\ req'[u] = req[u] /\ fd'[u] = fd[u]
    BY <1>0, <1>11 DEF ReadBody, Return
  <2> QED
    BY <1>0, <2>1
<1>12. CASE Restart
  BY <1>12, Constructed DEF Restart
<1> QED
  BY <1>1, <1>2, <1>3, <1>4, <1>5, <1>6, <1>7, <1>8, <1>9, <1>10, <1>11,
     <1>12 DEF Next, Open, Continue

(* A chunk whose write ended well is not lost to the network: while its    *)
(* file is there, available() reports it.                                  *)
THEOREM NoHiddenChunkHolds == Spec => []NoHiddenChunk
<1>1. VisibleInv => NoHiddenChunk
  BY DEF VisibleInv, Visible, Author, NoHiddenChunk, Files, Writers
<1> QED
  BY <1>1, InitTyped, NextTyped, InitDistinct, NextDistinct,
     InitVisible, NextVisible, PTL DEF Spec
----------------------------------------------------------------------------
(* What a writer has put down so far is in its file, whatever the others   *)
(* that write the same file have put there.                                *)
Written(t, n) ==
  pc[t] = "write" /\ fd[t] = n /\ 1..done[t] \subseteq body[n]

Kept(n) ==
  ~Free(n) => \/ Whole(n) \/ n \in torn
              \/ \E t \in Threads : Written(t, n)

WholeInv == \A n \in Inode : Kept(n)

LEMMA InitWhole == Init => WholeInv
  BY NoneAssumption DEF Init, WholeInv, Kept, Free

LEMMA NextWhole == Typed /\ WholeInv /\ [Next]_vars => WholeInv'
<1> SUFFICES ASSUME Typed, WholeInv, [Next]_vars, NEW n \in Inode
             PROVE  Kept(n)'
  BY DEF WholeInv
<1> USE DEF Kept, Written, disk, call, bounds, history, Goto
<1>0. /\ Kept(n)
      /\ pc \in [Threads -> Label]
      /\ fd \in [Threads -> Inode \cup {None}]
      /\ done \in [Threads -> 0..Parts]
      /\ dir \in [Chunks -> Inode \cup {None}]
      /\ body \in [Inode -> SUBSET (1..Parts)]
      /\ \A t \in Threads : pc[t] = "write" => fd[t] \in Inode
  BY DEF WholeInv, Typed, TypeOK, CallInv
<1>1. CASE UNCHANGED vars
  BY <1>0, <1>1 DEF vars, Free, Whole
<1>2. ASSUME NEW t \in Threads, NEW j \in Chunks, ReadOpen(t, j)
      PROVE  Kept(n)'
  <2>1. Free(n) => Free(n)'
    BY <1>0, <1>2, NoneAssumption DEF ReadOpen, Start, Free
  <2>2. Whole(n) => Whole(n)'
    BY <1>2 DEF ReadOpen, Whole
  <2> QED
    BY <1>0, <1>2, <2>1, <2>2 DEF ReadOpen, Start
<1>3. ASSUME NEW t \in Threads, NEW j \in Chunks, WriteOpen(t, j)
      PROVE  Kept(n)'
  <2>1. PICK m \in Inode :
          /\ IF dir[j] # None THEN m = dir[j] ELSE Fresh(m)
          /\ dir' = [dir EXCEPT ![j] = m] /\ body' = [body EXCEPT ![m] = {}]
          /\ fd' = [fd EXCEPT ![t] = m] /\ torn' = torn \ {m}
    BY <1>3 DEF WriteOpen
  <2>2. pc[t] = "idle" /\ pc' = [pc EXCEPT ![t] = "write"] /\ done' = done
    BY <1>3 DEF WriteOpen, Start
  <2>3. done[t] = 0
    BY <2>2 DEF Typed, CallInv
  <2>4. CASE n = m
    <3>1. pc'[t] = "write" /\ fd'[t] = n /\ done'[t] = 0
      BY <1>0, <2>1, <2>2, <2>3, <2>4
    <3>2. 1..done'[t] \subseteq body'[n]
      BY <3>1
    <3> QED
      BY <3>1, <3>2
  <2>5. CASE n # m
    <3>1. Free(n) => Free(n)'
      BY <1>0, <2>1, <2>5 DEF Free
    <3>2. body'[n] = body[n] /\ (n \in torn => n \in torn')
      BY <1>0, <2>1, <2>5
    <3>3. \A u \in Threads : Written(u, n) => Written(u, n)'
      BY <1>0, <2>1, <2>2, <2>5, <3>2
    <3> HIDE DEF Written
    <3> QED
      BY <1>0, <3>1, <3>2, <3>3 DEF Whole
  <2> QED
    BY <2>4, <2>5
<1>4. ASSUME NEW t \in Threads, WriteSome(t)
      PROVE  Kept(n)'
  <2>1. pc[t] = "write" /\ UNCHANGED <<dir, torn>>
    BY <1>4 DEF WriteSome
  <2>2. PICK k \in (done[t] + 1)..Parts :
          /\ body' = [body EXCEPT ![fd[t]] = @ \cup ((done[t] + 1)..k)]
          /\ IF k < Parts
             THEN done' = [done EXCEPT ![t] = k] /\ UNCHANGED <<fd, pc>>
             ELSE /\ done' = [done EXCEPT ![t] = 0]
                  /\ fd' = [fd EXCEPT ![t] = None]
                  /\ pc' = [pc EXCEPT ![t] = "touch"]
    BY <1>4 DEF WriteSome
  <2>3. done[t] \in Nat /\ Parts \in Nat /\ fd[t] \in Inode
    BY <1>0, <2>1, PartsAssumption
  <2>4. Free(n) => Free(n)'
    BY <1>0, <2>1, <2>2, NoneAssumption DEF Free
  <2>5. body[n] \subseteq body'[n] /\ body'[n] \subseteq 1..Parts
    BY <1>0, <2>2, <2>3
  <2>6. Whole(n) => Whole(n)'
    BY <2>5 DEF Whole
  <2>7. \A u \in Threads : u # t /\ Written(u, n) => Written(u, n)'
    BY <1>0, <2>2, <2>5
  <2>8. Written(t, n) => Written(t, n)' \/ Whole(n)'
    <3> SUFFICES ASSUME Written(t, n) PROVE Written(t, n)' \/ Whole(n)'
      OBVIOUS
    <3>1. fd[t] = n /\ 1..done[t] \subseteq body[n]
      OBVIOUS
    <3>2. body'[n] = body[n] \cup ((done[t] + 1)..k)
      BY <1>0, <2>2, <3>1
    <3>3. 1..k \subseteq body'[n]
      BY <2>2, <2>3, <3>1, <3>2
    <3>4. CASE k < Parts
      BY <1>0, <2>1, <2>2, <3>1, <3>3, <3>4
    <3>5. CASE ~(k < Parts)
      <4>1. k = Parts
        BY <2>2, <2>3, <3>5
      <4> QED
        BY <2>5, <3>3, <4>1 DEF Whole
    <3> QED
      BY <3>4, <3>5
  <2> HIDE DEF Written
  <2> QED
    BY <1>0, <2>1, <2>4, <2>6, <2>7, <2>8
<1>5. ASSUME NEW t \in Threads, WriteError(t)
      PROVE  Kept(n)'
  <2>1. /\ pc[t] = "write" /\ torn' = torn \cup {fd[t]}
        /\ UNCHANGED <<dir, body>>
        /\ fd' = [fd EXCEPT ![t] = None] /\ pc' = [pc EXCEPT ![t] = "idle"]
        /\ done' = [done EXCEPT ![t] = 0]
    BY <1>5 DEF WriteError, Return
  <2>2. Free(n) => Free(n)'
    BY <1>0, <2>1, NoneAssumption DEF Free
  <2>3. Whole(n) => Whole(n)'
    BY <2>1 DEF Whole
  <2>4. \A u \in Threads : u # t /\ Written(u, n) => Written(u, n)'
    BY <1>0, <2>1
  <2>5. Written(t, n) => n \in torn'
    BY <2>1
  <2> HIDE DEF Written
  <2> QED
    BY <1>0, <2>1, <2>2, <2>3, <2>4, <2>5
<1>6. ASSUME NEW t \in Threads, Insert(t) \/ ReadBody(t)
      PROVE  Kept(n)'
  <2>1. /\ pc[t] # "write" /\ UNCHANGED <<dir, body, torn>>
        /\ fd' = [fd EXCEPT ![t] = None] /\ pc' = [pc EXCEPT ![t] = "idle"]
        /\ done' = [done EXCEPT ![t] = 0]
    BY <1>6 DEF Insert, ReadBody, Return
  <2>2. Free(n) => Free(n)'
    BY <1>0, <2>1, NoneAssumption DEF Free
  <2>3. Whole(n) => Whole(n)'
    BY <2>1 DEF Whole
  <2>4. \A u \in Threads : Written(u, n) => Written(u, n)'
    BY <1>0, <2>1
  <2> HIDE DEF Written
  <2> QED
    BY <1>0, <2>1, <2>2, <2>3, <2>4
<1>7. ASSUME NEW t \in Threads, Unlink(t)
      PROVE  Kept(n)'
  <2>1. /\ pc[t] = "unlink" /\ UNCHANGED <<body, torn, fd, done>>
        /\ pc' = [pc EXCEPT ![t] = "erase"]
        /\ dir' = [dir EXCEPT ![victim[t]] = None]
    BY <1>7 DEF Unlink
  <2>2. Free(n) => Free(n)'
    BY <1>0, <2>1, NoneAssumption DEF Free
  <2>3. Whole(n) => Whole(n)'
    BY <2>1 DEF Whole
  <2>4. \A u \in Threads : Written(u, n) => Written(u, n)'
    BY <1>0, <2>1
  <2> HIDE DEF Written
  <2> QED
    BY <1>0, <2>1, <2>2, <2>3, <2>4
<1>8. ASSUME NEW t \in Threads,
             Touch(t) \/ Evict(t) \/ UnlinkAbsent(t) \/ UnlinkError(t) \/ Erase(t)
      PROVE  Kept(n)'
  <2>1. /\ pc[t] # "write" /\ UNCHANGED <<dir, body, torn, fd, done>>
        /\ \E l \in Label : pc' = [pc EXCEPT ![t] = l]
    BY <1>8 DEF Touch, Evict, UnlinkAbsent, UnlinkError, Erase, Pushed, After,
                Label, Evicting
  <2>2. Free(n) <=> Free(n)'
    BY <2>1 DEF Free
  <2>3. Whole(n) => Whole(n)'
    BY <2>1 DEF Whole
  <2>4. \A u \in Threads : Written(u, n) => Written(u, n)'
    BY <1>0, <2>1
  <2> HIDE DEF Written
  <2> QED
    BY <1>0, <2>1, <2>2, <2>3, <2>4
<1>9. CASE Restart
  <2>1. /\ UNCHANGED body
        /\ torn' = torn \cup {fd[t] : t \in {u \in Threads : pc[u] = "write"}}
        /\ fd' = [t \in Threads |-> None]
    BY <1>9 DEF Restart
  <2>2. \A i \in Chunks : dir'[i] = dir[i] \/ dir'[i] = None
    BY <1>9, Constructed DEF Restart
  <2>3. Free(n) => Free(n)'
    BY <2>1, <2>2, NoneAssumption DEF Free
  <2>4. Whole(n) => Whole(n)'
    BY <2>1 DEF Whole
  <2>5. \A u \in Threads : Written(u, n) => n \in torn'
    BY <2>1
  <2> HIDE DEF Written
  <2> QED
    BY <1>0, <2>1, <2>3, <2>4, <2>5
<1> QED
  BY <1>1, <1>2, <1>3, <1>4, <1>5, <1>6, <1>7, <1>8, <1>9
     DEF Next, Open, Continue

(* A file that no one writes and whose writer did not fail holds every     *)
(* part of its chunk, whatever short writes and rival writers there were.  *)
THEOREM WholeFilesHolds == Spec => []WholeFiles
<1>1. WholeInv => WholeFiles
  BY DEF WholeInv, Kept, Written, WholeFiles
<1> QED
  BY <1>1, InitTyped, NextTyped, InitWhole, NextWhole, PTL DEF Spec
=============================================================================
