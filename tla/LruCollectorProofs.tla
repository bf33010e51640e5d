------------------------- MODULE LruCollectorProofs -------------------------
(***************************************************************************)
(* What LruCollector::update does to the list, for every list, id and      *)
(* limit: the facts that the owners of a collector rely on.                *)
(***************************************************************************)
EXTENDS LruCollector, FiniteSetTheorems, SequenceTheorems, TLAPS

(* The slot is the old position of an id that is held, the last one of a   *)
(* full list, or the one after it.                                         *)
LEMMA SlotRange ==
  ASSUME NEW S, NEW queue \in Seq(S), NEW id \in S, NEW size \in Nat \ {0},
         WellFormed(queue, size)
  PROVE  /\ Slot(queue, id, size) \in 1..(Len(queue) + 1)
         /\ Slot(queue, id, size) <= size
         /\ id \in Held(queue) => /\ Slot(queue, id, size) <= Len(queue)
                                  /\ queue[Slot(queue, id, size)] = id
         /\ Evicts(queue, id, size) => Slot(queue, id, size) = Len(queue)
         /\ id \notin Held(queue) /\ ~Evicts(queue, id, size)
              => Slot(queue, id, size) = Len(queue) + 1
<1>1. Len(queue) \in Nat
  OBVIOUS
<1>2. CASE id \in Held(queue)
  <2>1. PICK k \in 1..Len(queue) : queue[k] = id
    BY <1>2 DEF Held
  <2>2. /\ Position(queue, id) \in 1..Len(queue)
        /\ queue[Position(queue, id)] = id
    BY <2>1 DEF Position
  <2> QED
    BY <1>1, <1>2, <2>2 DEF Slot, WellFormed, Evicts
<1>3. CASE id \notin Held(queue)
  BY <1>1, <1>3 DEF Slot, WellFormed, Evicts
<1> QED
  BY <1>2, <1>3

(* update() keeps a list of ids a list of ids, of which none is twice and  *)
(* at most `size` are there.                                               *)
LEMMA UpdatedWellFormed ==
  ASSUME NEW S, NEW queue \in Seq(S), NEW id \in S, NEW size \in Nat \ {0},
         WellFormed(queue, size)
  PROVE  /\ Updated(queue, id, size) \in Seq(S)
         /\ WellFormed(Updated(queue, id, size), size)
<1> DEFINE n == Len(queue)
           slot == Slot(queue, id, size)
           m == IF slot > n THEN slot ELSE n
           new == Updated(queue, id, size)
<1>1. n \in Nat /\ \A k \in 1..n : queue[k] \in S
  OBVIOUS
<1>2. /\ slot \in 1..(n + 1) /\ slot <= size
      /\ id \in Held(queue) => slot <= n /\ queue[slot] = id
      /\ Evicts(queue, id, size) => slot = n
      /\ id \notin Held(queue) /\ ~Evicts(queue, id, size) => slot = n + 1
  BY SlotRange
<1> HIDE DEF slot
<1>3. m \in Nat /\ m <= size /\ slot \in 1..m
  BY <1>1, <1>2 DEF WellFormed
<1>4. /\ new = [k \in 1..m |-> IF k = 1 THEN id
                             ELSE IF k <= slot THEN queue[k - 1] ELSE queue[k]]
  BY DEF Updated, slot
<1>5. ASSUME NEW k \in 1..m
      PROVE  new[k] \in S
  BY <1>1, <1>2, <1>3, <1>4, <1>5
<1>6. new \in Seq(S) /\ Len(new) = m
  <2>1. new \in [1..m -> S]
    BY <1>4, <1>5
  <2> QED
    BY <1>3, <2>1
<1>7. \A k \in 1..m : k # 1 => new[k] # id
  BY <1>1, <1>2, <1>3, <1>4 DEF WellFormed, Held
<1>8. ASSUME NEW j \in 1..m, NEW k \in 1..m, new[j] = new[k]
      PROVE  j = k
  <2>1. CASE j = 1 \/ k = 1
    BY <1>4, <1>7, <1>8, <1>3, <2>1
  <2>2. CASE j # 1 /\ k # 1
    <3> DEFINE old(x) == IF x <= slot THEN x - 1 ELSE x
    <3>1. /\ old(j) \in 1..n /\ new[j] = queue[old(j)]
          /\ old(k) \in 1..n /\ new[k] = queue[old(k)]
      BY <1>1, <1>2, <1>3, <1>4, <2>2
    <3>2. old(j) = old(k)
      BY <1>8, <3>1 DEF WellFormed
    <3> QED
      BY <1>2, <1>3, <2>2, <3>2
  <2> QED
    BY <2>1, <2>2
<1> QED
  BY <1>3, <1>6, <1>8 DEF WellFormed

(* After update(id) the list holds what it held, less the victim, and id.  *)
LEMMA UpdatedHeld ==
  ASSUME NEW S, NEW queue \in Seq(S), NEW id \in S, NEW size \in Nat \ {0},
         WellFormed(queue, size)
  PROVE  Held(Updated(queue, id, size))
           = (Held(queue) \ Victims(queue, id, size)) \cup {id}
<1> DEFINE n == Len(queue)
           slot == Slot(queue, id, size)
           m == IF slot > n THEN slot ELSE n
           new == Updated(queue, id, size)
<1>1. n \in Nat
  OBVIOUS
<1>2. /\ slot \in 1..(n + 1) /\ slot <= size
      /\ id \in Held(queue) => slot <= n /\ queue[slot] = id
      /\ Evicts(queue, id, size) => slot = n
      /\ id \notin Held(queue) /\ ~Evicts(queue, id, size) => slot = n + 1
  BY SlotRange
<1> HIDE DEF slot
<1>3. m \in Nat /\ slot \in 1..m
  BY <1>1, <1>2
<1>4. /\ new = [k \in 1..m |-> IF k = 1 THEN id
                             ELSE IF k <= slot THEN queue[k - 1] ELSE queue[k]]
      /\ DOMAIN new = 1..m
  BY DEF Updated, slot
<1>5. Len(new) = m
  BY <1>3, <1>4
<1>6. ASSUME NEW x \in Held(new), x # id
      PROVE  x \in Held(queue) /\ x \notin Victims(queue, id, size)
  <2>1. PICK k \in 1..m : new[k] = x
    BY <1>5, <1>6 DEF Held
  <2>2. PICK j \in 1..n : queue[j] = x /\ j # slot
    <3>1. CASE k <= slot
      <4>1. k # 1
        BY <1>4, <1>6, <2>1
      <4>2. k - 1 \in 1..n /\ queue[k - 1] = x /\ k - 1 # slot
        BY <1>1, <1>2, <1>3, <1>4, <2>1, <3>1, <4>1
      <4> QED
        BY <4>2
    <3>2. CASE k > slot
      <4>1. k \in 1..n /\ queue[k] = x /\ k # slot
        BY <1>1, <1>2, <1>3, <1>4, <2>1, <3>2
      <4> QED
        BY <4>1
    <3> QED
      BY <1>3, <3>1, <3>2
  <2>3. x \notin Victims(queue, id, size)
    BY <1>1, <1>2, <2>2 DEF Victims, WellFormed
  <2> QED
    BY <2>2, <2>3 DEF Held
<1>7. ASSUME NEW x \in Held(queue), x \notin Victims(queue, id, size)
      PROVE  x \in Held(new)
  <2>1. PICK j \in 1..n : queue[j] = x
    BY <1>7 DEF Held
  <2>2. CASE j < slot
    <3>1. j + 1 \in 1..m /\ new[j + 1] = x
      BY <1>1, <1>2, <1>3, <1>4, <2>1, <2>2
    <3> QED
      BY <1>5, <3>1 DEF Held
  <2>3. CASE j > slot
    <3>1. j \in 1..m /\ new[j] = x
      BY <1>1, <1>2, <1>3, <1>4, <2>1, <2>3
    <3> QED
      BY <1>5, <3>1 DEF Held
  <2>4. CASE j = slot
    <3>1. ~Evicts(queue, id, size)
      BY <1>2, <1>7, <2>1, <2>4 DEF Victims
    <3>2. x = id
      BY <1>1, <1>2, <2>1, <2>4, <3>1
    <3>3. 1 \in 1..m /\ new[1] = x
      BY <1>3, <1>4, <3>2
    <3> QED
      BY <1>5, <3>3 DEF Held
  <2> QED
    BY <1>1, <1>2, <2>1, <2>2, <2>3, <2>4
<1>8. id \in Held(new)
  <2>1. 1 \in 1..m /\ new[1] = id
    BY <1>3, <1>4
  <2> QED
    BY <1>5, <2>1 DEF Held
<1> QED
  BY <1>6, <1>7, <1>8

(* A list without duplicates bounds the number of ids it holds.            *)
LEMMA HeldBound ==
  ASSUME NEW S, NEW queue \in Seq(S), NEW size \in Nat, WellFormed(queue, size)
  PROVE  IsFiniteSet(Held(queue)) /\ Cardinality(Held(queue)) <= size
<1>1. Len(queue) \in Nat
  OBVIOUS
<1>2. IsFiniteSet(1..Len(queue)) /\ Cardinality(1..Len(queue)) = Len(queue)
  <2>1. 1 \in Int /\ Len(queue) \in Int
    BY <1>1
  <2>2. /\ IsFiniteSet(1..Len(queue))
        /\ Cardinality(1..Len(queue))
             = IF 1 > Len(queue) THEN 0 ELSE Len(queue) - 1 + 1
    BY ONLY <2>1, FS_Interval
  <2> QED
    BY <1>1, <2>2
<1>3. [k \in 1..Len(queue) |-> queue[k]] \in Surjection(1..Len(queue), Held(queue))
  BY DEF Surjection, Held
<1>4. IsFiniteSet(Held(queue)) /\ Cardinality(Held(queue)) <= Len(queue)
  BY <1>2, <1>3, FS_Surjection
<1> QED
  BY <1>1, <1>4, FS_CardinalityType DEF WellFormed

(* What the length of a SubSeq comes to when one element is left out.      *)
LEMMA SubSeqLength ==
  ASSUME NEW n \in Nat, n > 0,
         NEW l, l = IF 1 <= n - 1 THEN (n - 1) - 1 + 1 ELSE 0
  PROVE  l = n - 1
  OBVIOUS

(* update() in two steps, as ChunkStore sees it: the victim leaves ...     *)
LEMMA PopWellFormed ==
  ASSUME NEW S, NEW queue \in Seq(S), NEW size \in Nat,
         WellFormed(queue, size), Len(queue) > 0
  PROVE  LET popped == SubSeq(queue, 1, Len(queue) - 1)
         IN  /\ popped \in Seq(S) /\ Len(popped) = Len(queue) - 1
             /\ WellFormed(popped, size)
             /\ queue[Len(queue)] \in S
             /\ Held(popped) = Held(queue) \ {queue[Len(queue)]}
<1> DEFINE n == Len(queue)
           popped == SubSeq(queue, 1, n - 1)
<1>0. n \in Nat /\ n > 0
  OBVIOUS
<1>1. n \in Nat \ {0} /\ \A k \in 1..n : queue[k] \in S
  OBVIOUS
<1>2. /\ popped \in Seq(S) /\ Len(popped) = n - 1
      /\ \A k \in 1..(n - 1) : popped[k] = queue[k]
  <2>1. 1 \in Int /\ n - 1 \in Int /\ \A k \in 1..(n - 1) : queue[k] \in S
    BY <1>1
  <2>2. /\ popped \in Seq(S)
        /\ Len(popped) = IF 1 <= n - 1 THEN (n - 1) - 1 + 1 ELSE 0
        /\ \A k \in 1..((n - 1) - 1 + 1) : popped[k] = queue[1 + k - 1]
    BY ONLY <2>1, SubSeqProperties
  <2> HIDE DEF popped
  <2>3. Len(popped) = n - 1
    BY <1>0, <2>2, SubSeqLength
  <2>4. ASSUME NEW k \in 1..(n - 1)
        PROVE  popped[k] = queue[k]
    <3>1. k \in 1..((n - 1) - 1 + 1) /\ 1 + k - 1 = k
      BY <1>1
    <3> QED
      BY <2>2, <3>1
  <2> QED
    BY <2>2, <2>3, <2>4
<1> HIDE DEF popped
<1>3. WellFormed(popped, size)
  <2>1. ASSUME NEW j \in 1..(n - 1), NEW k \in 1..(n - 1), popped[j] = popped[k]
        PROVE  j = k
    <3>1. j \in 1..n /\ k \in 1..n /\ queue[j] = queue[k]
      BY <1>1, <1>2, <2>1
    <3> QED
      BY <3>1 DEF WellFormed
  <2>2. n - 1 <= size
    BY <1>1 DEF WellFormed
  <2> QED
    BY <1>1, <1>2, <2>1, <2>2 DEF WellFormed
<1>4. Held(popped) = Held(queue) \ {queue[n]}
  <2>1. ASSUME NEW x \in Held(popped)
        PROVE  x \in Held(queue) /\ x # queue[n]
    <3>1. PICK k \in 1..(n - 1) : popped[k] = x
      BY <1>2, <2>1 DEF Held
    <3>2. k \in 1..n /\ n \in 1..n /\ queue[k] = x /\ k # n
      BY <1>1, <1>2, <3>1
    <3> QED
      BY <3>2 DEF Held, WellFormed
  <2>2. ASSUME NEW x \in Held(queue), x # queue[n]
        PROVE  x \in Held(popped)
    <3>1. PICK k \in 1..n : queue[k] = x
      BY <2>2 DEF Held
    <3>2. k \in 1..(n - 1) /\ popped[k] = x
      BY <1>1, <1>2, <2>2, <3>1
    <3> QED
      BY <1>2, <3>2 DEF Held
  <2> QED
    BY <2>1, <2>2
<1> QED
  BY <1>1, <1>2, <1>3, <1>4 DEF popped

(* ... and the id that came is put in front.                               *)
LEMMA PushWellFormed ==
  ASSUME NEW S, NEW queue \in Seq(S), NEW id \in S, NEW size \in Nat,
         WellFormed(queue, size), Len(queue) < size, id \notin Held(queue)
  PROVE  LET pushed == <<id>> \o queue
         IN  /\ pushed \in Seq(S) /\ WellFormed(pushed, size)
             /\ Held(pushed) = Held(queue) \cup {id}
<1> DEFINE n == Len(queue)
           pushed == <<id>> \o queue
<1>1. n \in Nat /\ \A k \in 1..n : queue[k] \in S
  OBVIOUS
<1>2. /\ pushed \in Seq(S) /\ Len(pushed) = n + 1 /\ pushed[1] = id
      /\ \A k \in 2..(n + 1) : pushed[k] = queue[k - 1]
  BY <1>1
<1> HIDE DEF pushed
<1>3. \A k \in 2..(n + 1) : pushed[k] \in Held(queue) /\ pushed[k] # id
  BY <1>1, <1>2 DEF Held
<1>4. WellFormed(pushed, size)
  <2>1. ASSUME NEW j \in 1..(n + 1), NEW k \in 1..(n + 1), pushed[j] = pushed[k]
        PROVE  j = k
    <3>1. CASE j = 1 \/ k = 1
      BY <1>1, <1>2, <1>3, <2>1, <3>1
    <3>2. CASE j \in 2..(n + 1) /\ k \in 2..(n + 1)
      BY <1>1, <1>2, <2>1, <3>2 DEF WellFormed
    <3> QED
      BY <1>1, <3>1, <3>2
  <2> QED
    BY <1>1, <1>2, <2>1 DEF WellFormed
<1>5. ASSUME NEW x \in Held(queue)
      PROVE  x \in Held(pushed)
  <2>1. PICK k \in 1..n : queue[k] = x
    BY <1>5 DEF Held
  <2>2. k + 1 \in 1..(n + 1) /\ pushed[k + 1] = x
    BY <1>1, <1>2, <2>1
  <2> QED
    BY <1>2, <2>2 DEF Held
<1>6. Held(pushed) \subseteq Held(queue) \cup {id}
  BY <1>1, <1>2, <1>3 DEF Held
<1>7. id \in Held(pushed)
  BY <1>1, <1>2 DEF Held
<1> QED
  BY <1>2, <1>4, <1>5, <1>6, <1>7 DEF pushed

(* The size of a union is bounded by the sizes of its parts.               *)
LEMMA UnionBound ==
  ASSUME NEW A, NEW B, IsFiniteSet(A), IsFiniteSet(B)
  PROVE  /\ IsFiniteSet(A \cup B)
         /\ Cardinality(A \cup B) <= Cardinality(A) + Cardinality(B)
<1>1. /\ IsFiniteSet(A \cup B)
      /\ Cardinality(A \cup B)
           = Cardinality(A) + Cardinality(B) - Cardinality(A \cap B)
  BY FS_Union
<1>2. /\ Cardinality(A \cap B) \in Nat /\ Cardinality(A) \in Nat
      /\ Cardinality(B) \in Nat
  BY FS_Intersection, FS_CardinalityType
<1> QED
  BY <1>1, <1>2
=============================================================================
