---------------------------- MODULE LruCollector ----------------------------
(***************************************************************************)
(* The recency list of common/lru_collector.{h,cc}, as operators on its    *)
(* value.  The std::list `queue` is a sequence whose first element is the  *)
(* most recently used id; the map `iterators` is the set of ids in it (the *)
(* only function that could separate the two, remove(), has no caller).    *)
(*                                                                         *)
(* update() runs under the collector's mutex and calls the owner's remover *)
(* while it holds it; that interleaving belongs to the owners              *)
(* (ChunkProvider, ChunkStore).  Here is what update() computes.           *)
(***************************************************************************)
EXTENDS Integers, Sequences

(* The ids that have an iterator, and where one is.                        *)
Held(queue) == {queue[k] : k \in 1..Len(queue)}

Position(queue, id) == CHOOSE k \in 1..Len(queue) : queue[k] = id

(* update(id) evicts exactly when id is new and the list is at its limit;  *)
(* the victim is queue.back().                                             *)
Evicts(queue, id, size) == id \notin Held(queue) /\ Len(queue) >= size

Victims(queue, id, size) ==
  IF Evicts(queue, id, size) THEN {queue[Len(queue)]} ELSE {}

(* The list after update(id): id in front, everything before the slot it   *)
(* leaves one place further back.  The slot is its old position, or the    *)
(* victim's, or a new one at the end.                                      *)
Slot(queue, id, size) ==
  IF id \in Held(queue) THEN Position(queue, id)
  ELSE IF Len(queue) >= size THEN Len(queue) ELSE Len(queue) + 1

(* Mutant: line 18, which takes a held id out of its old place, is missing.*)
UpdatedTwice(queue, id, size) ==
  <<id>> \o SelectSeq(queue, LAMBDA x : x \notin Victims(queue, id, size))

Updated(queue, id, size) ==
  LET slot == Slot(queue, id, size)
  IN  [k \in 1..(IF slot > Len(queue) THEN slot ELSE Len(queue)) |->
         IF k = 1 THEN id ELSE IF k <= slot THEN queue[k - 1] ELSE queue[k]]

(* What the two parts of the list keep between calls: no id twice, and no  *)
(* more ids than the limit.                                                *)
WellFormed(queue, size) ==
  /\ \A j, k \in 1..Len(queue) : queue[j] = queue[k] => j = k
  /\ Len(queue) <= size
=============================================================================
