-------------------------- MODULE FetchChunkProofs --------------------------
(***************************************************************************)
(* First what the bit mask of ChunkAvailability carries, for every set of  *)
(* ids: a theorem about the pair of conversions, and from it the invariant *)
(* of the exchange.  Then proofs about FetchChunk, for any number of       *)
(* peers, threads, chunks and parts, any contents of the peers and any     *)
(* number of faults.                                                       *)
(***************************************************************************)
EXTENDS FetchChunk, FiniteSetTheorems, TLAPS

(* rbegin() of a set that is not empty.  No induction principle can be     *)
(* used here, so the proof takes a smallest set without a maximum.         *)
LEMMA HasMaximum ==
  ASSUME NEW S \in SUBSET Nat, IsFiniteSet(S), S # {}
  PROVE  \E x \in S : \A y \in S : y <= x
<1> DEFINE Top(T) == \E x \in T : \A y \in T : y <= x
           Bad == {T \in SUBSET S : T # {} /\ ~Top(T)}
<1> SUFFICES ASSUME ~Top(S) PROVE FALSE
  OBVIOUS
<1>1. S \in Bad
  OBVIOUS
<1>2. Bad \subseteq FiniteSubsetsOf(S)
  BY FS_FiniteSubsetsOfFinite
<1>3. PICK T \in Bad : \A U \in Bad : <<U, T>> \notin StrictSubsetOrdering(S)
  <2>1. IsWellFoundedOn(StrictSubsetOrdering(S), FiniteSubsetsOf(S))
    BY FS_StrictSubsetOrderingWellFounded
  <2>2. Bad # {}
    BY <1>1
  <2> HIDE DEF Bad
  <2> QED
    BY <1>2, <2>1, <2>2, WFMin
<1>4. PICK x \in T : TRUE
  OBVIOUS
<1> DEFINE U == T \ {x}
<1>5. U \notin Bad
  <2>1. <<U, T>> \in StrictSubsetOrdering(S)
    BY <1>4 DEF StrictSubsetOrdering
  <2> QED
    BY <1>3, <2>1
<1>6. U # {}
  <2> SUFFICES ASSUME U = {} PROVE FALSE
    OBVIOUS
  <2>1. T = {x}
    BY <1>4
  <2>2. Top(T)
    BY <1>4, <2>1
  <2> QED
    BY <2>2
<1>7. PICK m \in U : \A y \in U : y <= m
  BY <1>5, <1>6
<1>8. x \in Nat /\ m \in Nat
  OBVIOUS
<1>9. CASE x <= m
  BY <1>4, <1>7, <1>8, <1>9
<1>10. CASE m <= x
  <2>1. \A y \in T : y \in Nat /\ (y = x \/ y <= m)
    BY <1>7
  <2>2. \A y \in T : y <= x
    BY <1>8, <1>10, <2>1
  <2> QED
    BY <1>4, <2>2
<1> QED
  BY <1>8, <1>9, <1>10

LEMMA MaxIsLargest ==
  ASSUME NEW S \in SUBSET Nat, IsFiniteSet(S), S # {}
  PROVE  Max(S) \in S /\ \A y \in S : y <= Max(S)
<1>1. \E x \in S : \A y \in S : x >= y
  BY HasMaximum
<1> QED
  BY <1>1 DEF Max

(* An id is its byte and its bit.                                          *)
LEMMA ByteAndBit ==
  ASSUME NEW x \in Nat
  PROVE  /\ x \div 8 \in Nat /\ x % 8 \in 0..7
         /\ 8 * (x \div 8) + (x % 8) = x
  OBVIOUS

(* The length of line 30 covers the byte of the largest id, but when that  *)
(* id is the first of its byte.                                            *)
LEMMA Length ==
  ASSUME NEW x \in Nat
  PROVE  /\ (x \div 8) + (x % 8) \in Nat
         /\ x % 8 = 0 => 8 * ((x \div 8) + (x % 8)) = x
         /\ x % 8 # 0 => x < 8 * ((x \div 8) + (x % 8))
<1>1. /\ x \div 8 \in Nat /\ x % 8 \in 0..7
      /\ 8 * (x \div 8) + (x % 8) = x
  BY ByteAndBit
<1> QED
  BY <1>1

(* The two conversions of chunk_availability.cc, one after the other, give *)
(* back every set of ids, without its largest when 8 divides that.         *)
THEOREM DecodedBitmask ==
  ASSUME NEW S \in SUBSET Nat, IsFiniteSet(S)
  PROVE  Decoded(Bitmask(S)) = Lossy(S)
<1>1. CASE S = {}
  <2>1. Len(Bitmask(S)) = 0
    BY <1>1 DEF Bitmask
  <2>2. Decoded(Bitmask(S)) = {}
    BY <2>1 DEF Decoded
  <2> QED
    BY <1>1, <2>2 DEF Lossy
<1>2. CASE S # {}
  <2> DEFINE top == Max(S)
             size == (top \div 8) + (top % 8)
  <2>1. top \in S /\ top \in Nat /\ \A y \in S : y <= top
    BY <1>2, MaxIsLargest
  <2> HIDE DEF top
  <2>2. /\ size \in Nat
        /\ top % 8 = 0 => 8 * size = top
        /\ top % 8 # 0 => top < 8 * size
    BY <2>1, Length
  <2>3. Bitmask(S) = [k \in 1..size |-> {b \in Bit : 8 * (k - 1) + b \in S}]
    BY <1>2 DEF Bitmask, top
  <2> HIDE DEF size
  <2>4. Len(Bitmask(S)) = size
    BY <2>2, <2>3
  <2>5. \A x \in 0..(8 * size - 1) : x % 8 \in Bitmask(S)[(x \div 8) + 1] <=> x \in S
    <3> SUFFICES ASSUME NEW x \in 0..(8 * size - 1)
                 PROVE  x % 8 \in Bitmask(S)[(x \div 8) + 1] <=> x \in S
      OBVIOUS
    <3>1. x \in Nat /\ x < 8 * size
      BY <2>2
    <3>2. /\ x \div 8 \in Nat /\ x % 8 \in 0..7
          /\ 8 * (x \div 8) + (x % 8) = x
      BY <3>1, ByteAndBit
    <3>3. (x \div 8) + 1 \in 1..size
      BY <2>2, <3>1, <3>2
    <3>4. Bitmask(S)[(x \div 8) + 1] = {b \in Bit : 8 * (((x \div 8) + 1) - 1) + b \in S}
      BY <2>3, <3>3
    <3>5. 8 * (((x \div 8) + 1) - 1) + (x % 8) = x
      BY <3>2
    <3> QED
      BY <3>2, <3>4, <3>5 DEF Bit
  <2>6. Decoded(Bitmask(S)) = {x \in S : x < 8 * size}
    <3>1. Decoded(Bitmask(S)) =
            {x \in 0..(8 * size - 1) : x % 8 \in Bitmask(S)[(x \div 8) + 1]}
      BY <2>4 DEF Decoded
    <3>2. Decoded(Bitmask(S)) = {x \in 0..(8 * size - 1) : x \in S}
      BY <2>5, <3>1
    <3>3. \A x \in S : x \in 0..(8 * size - 1) <=> x < 8 * size
      BY <2>2
    <3> QED
      BY <3>2, <3>3
  <2>7. CASE top % 8 = 0
    <3>1. \A x \in S : x < 8 * size <=> x # top
      BY <2>1, <2>2, <2>7
    <3>2. Decoded(Bitmask(S)) = S \ {top}
      BY <2>6, <3>1
    <3> QED
      BY <1>2, <2>7, <3>2 DEF Lossy, top
  <2>8. CASE top % 8 # 0
    <3>1. \A x \in S : x < 8 * size
      BY <2>1, <2>2, <2>8
    <3>2. Decoded(Bitmask(S)) = S
      BY <2>6, <3>1
    <3> QED
      BY <2>8, <3>2 DEF Lossy, top
  <2> QED
    BY <2>7, <2>8
<1> QED
  BY <1>1, <1>2
----------------------------------------------------------------------------
(* The masks under way and the sets the views were made from are sets of   *)
(* ids, and a view is what is left of what was heard.                      *)
Faithful ==
  /\ stored \in [Peers -> SUBSET Ids]
  /\ answer \in [Peers -> (SUBSET Ids) \cup {None}]
  /\ ping \in [Peers -> (SUBSET Ids) \cup {None}]
  /\ connected \in SUBSET Peers
  /\ heard \in [Peers -> SUBSET Ids]
  /\ view = [p \in Peers |-> Lossy(heard[p])]

LEMMA DecodedIds ==
  ASSUME NEW S \in SUBSET Ids
  PROVE  Decoded(Bitmask(S)) = Lossy(S)
<1>1. S \in SUBSET Nat /\ IsFiniteSet(S)
  BY IdsAssumption, FS_Subset
<1> QED
  BY <1>1, DecodedBitmask

LEMMA InitFaithful == MasksInit => Faithful
<1> SUFFICES ASSUME MasksInit PROVE Faithful
  OBVIOUS
<1>1. heard \in [Peers -> SUBSET Ids]
  BY DEF MasksInit
<1>2. \A p \in Peers : Decoded(Bitmask(heard[p])) = Lossy(heard[p])
  BY <1>1, DecodedIds
<1>3. view = [p \in Peers |-> Lossy(heard[p])]
  BY <1>2 DEF MasksInit
<1> QED
  BY <1>1, <1>3 DEF MasksInit, Faithful

LEMMA LearnFaithful ==
  ASSUME Faithful, NEW p \in Peers, NEW chunks \in SUBSET Ids, Learn(p, chunks)
  PROVE  /\ heard' \in [Peers -> SUBSET Ids]
         /\ view' = [q \in Peers |-> Lossy(heard'[q])]
<1>1. Decoded(Bitmask(chunks)) = Lossy(chunks)
  BY DecodedIds
<1>2. view' = [view EXCEPT ![p] = Lossy(chunks)] /\ heard' = [heard EXCEPT ![p] = chunks]
  BY <1>1 DEF Learn
<1> QED
  BY <1>2 DEF Faithful

LEMMA NextFaithful == Faithful /\ [MasksNext]_masks => Faithful'
<1> SUFFICES ASSUME Faithful, [MasksNext]_masks PROVE Faithful'
  OBVIOUS
<1>1. CASE UNCHANGED masks
  BY <1>1 DEF masks, Faithful
<1>2. ASSUME NEW p \in Peers, Change(p) PROVE Faithful'
  <2>1. PICK i \in Ids :
          stored' = [stored EXCEPT ![p] = IF i \in @ THEN @ \ {i} ELSE @ \cup {i}]
    BY <1>2 DEF Change
  <2>2. stored' \in [Peers -> SUBSET Ids]
    BY <2>1 DEF Faithful
  <2> QED
    BY <1>2, <2>2 DEF Change, Faithful
<1>3. ASSUME NEW p \in Peers, Answer(p) PROVE Faithful'
  BY <1>3 DEF Answer, Faithful
<1>4. ASSUME NEW p \in Peers, Receive(p) PROVE Faithful'
  <2>1. answer[p] \in SUBSET Ids /\ Learn(p, answer[p])
    BY <1>4 DEF Receive, Faithful
  <2>2. heard' \in [Peers -> SUBSET Ids] /\ view' = [q \in Peers |-> Lossy(heard'[q])]
    BY <2>1, LearnFaithful
  <2> QED
    BY <1>4, <2>2 DEF Receive, Faithful
<1>5. ASSUME NEW p \in Peers, TimeOut(p) PROVE Faithful'
  <2>1. heard' \in [Peers -> SUBSET Ids] /\ view' = [q \in Peers |-> Lossy(heard'[q])]
    BY <1>5, LearnFaithful DEF TimeOut
  <2> QED
    BY <1>5, <2>1 DEF TimeOut, Faithful
<1>6. ASSUME NEW p \in Peers, Ping(p) PROVE Faithful'
  BY <1>6 DEF Ping, Faithful
<1>7. ASSUME NEW p \in Peers, Pinged(p) PROVE Faithful'
  <2>1. CASE p \in connected
    <3>1. ping[p] \in SUBSET Ids /\ Learn(p, ping[p])
      BY <1>7, <2>1 DEF Pinged, Faithful
    <3>2. heard' \in [Peers -> SUBSET Ids] /\ view' = [q \in Peers |-> Lossy(heard'[q])]
      BY <3>1, LearnFaithful
    <3> QED
      BY <1>7, <3>2 DEF Pinged, Faithful
  <2>2. CASE p \notin connected
    BY <1>7, <2>2 DEF Pinged, Faithful
  <2> QED
    BY <2>1, <2>2
<1> QED
  BY <1>1, <1>2, <1>3, <1>4, <1>5, <1>6, <1>7 DEF MasksNext

LEMMA FaithfulLosesTheTop == Faithful => AllButTheTop
<1> SUFFICES ASSUME Faithful, NEW p \in Peers
             PROVE  /\ view[p] \subseteq heard[p]
                    /\ \A i \in heard[p] \ view[p] :
                         i % 8 = 0 /\ \A j \in heard[p] : j <= i
  BY DEF AllButTheTop
<1>1. heard[p] \in SUBSET Nat /\ IsFiniteSet(heard[p]) /\ view[p] = Lossy(heard[p])
  BY IdsAssumption, FS_Subset DEF Faithful
<1>2. heard[p] # {} => \A j \in heard[p] : j <= Max(heard[p])
  BY <1>1, MaxIsLargest
<1> QED
  BY <1>1, <1>2 DEF Lossy

(* Whatever the stores hold and however they change, whatever is under way *)
(* and lost: a peer is believed to have only what it had, and nothing but  *)
(* its largest chunk is missing.                                           *)
THEOREM MasksLoseTheTop == MasksSpec => []AllButTheTop
  BY InitFaithful, NextFaithful, FaithfulLosesTheTop, PTL DEF MasksSpec
----------------------------------------------------------------------------
(* Fetching leaves the masks alone, or does a step of theirs.              *)
LEMMA StepOfMasks == [Next]_vars => [MasksNext]_masks
<1> SUFFICES ASSUME [Next]_vars PROVE [MasksNext]_masks
  OBVIOUS
<1>1. CASE UNCHANGED vars
  BY <1>1 DEF vars
<1>2. CASE Mask
  BY <1>2 DEF Mask, SameFs, MasksNext
<1>3. CASE Mirror
  BY <1>3 DEF Mirror, Called
<1>4. ASSUME NEW i \in Ids, Evict(i) PROVE UNCHANGED masks
  BY <1>4 DEF Evict
<1>5. ASSUME NEW i \in Ids, NEW t \in Readers, Miss(t, i) PROVE UNCHANGED masks
  BY <1>5 DEF Miss, Called
<1>6. ASSUME NEW t \in Threads, Fetch(t) PROVE UNCHANGED masks
  BY <1>6 DEF Fetch, Pick, NotFound, Call, Reused, Read, Failed, Verified,
              Mismatch, Absent, Write, WriteFails
<1> QED
  BY <1>1, <1>2, <1>3, <1>4, <1>5, <1>6 DEF Next

(* A node that fetches implements the exchange of masks ...                *)
THEOREM MasksImplemented == Spec => MasksSpec
<1>1. Init => MasksInit
  BY DEF Init
<1> QED
  BY <1>1, StepOfMasks, PTL DEF Spec, MasksSpec

(* ... and so believes of a peer what the masks can carry.                 *)
THEOREM AllButTheTopHolds == Spec => []AllButTheTop
  BY MasksImplemented, MasksLoseTheTop, PTL
----------------------------------------------------------------------------
(* A file is a sequence of no more than Parts parts.                       *)
LEMMA FilesAreSequences ==
  ASSUME NEW f
  PROVE  f \in Files <=> f \in Seq(Part) /\ Len(f) <= Parts
<1>1. ASSUME f \in Files PROVE f \in Seq(Part) /\ Len(f) <= Parts
  <2>1. PICK n \in 0..Parts : f \in [1..n -> Part]
    BY <1>1 DEF Files
  <2> QED
    BY <2>1, PartsAssumption
<1>2. ASSUME f \in Seq(Part), Len(f) <= Parts PROVE f \in Files
  <2>1. Len(f) \in 0..Parts /\ f \in [1..Len(f) -> Part]
    BY <1>2, PartsAssumption
  <2> QED
    BY <2>1 DEF Files
<1> QED
  BY <1>1, <1>2

LEMMA TailOfFile ==
  ASSUME NEW f \in Files, f # << >>
  PROVE  /\ Head(f) \in Part
         /\ Tail(f) \in Files
         /\ Len(Tail(f)) = Len(f) - 1
<1>1. f \in Seq(Part) /\ Len(f) <= Parts
  BY FilesAreSequences
<1>2. Head(f) \in Part /\ Tail(f) \in Seq(Part) /\ Len(Tail(f)) = Len(f) - 1
  BY <1>1
<1>3. Len(Tail(f)) <= Parts
  BY <1>1, <1>2, PartsAssumption
<1> QED
  BY <1>2, <1>3, FilesAreSequences

LEMMA PrefixIsFile ==
  ASSUME NEW b \in [1..Parts -> Part], NEW n \in 0..Parts
  PROVE  SubSeq(b, 1, n) \in Files
<1>1. b \in Seq(Part) /\ Len(b) = Parts
  BY PartsAssumption
<1>2. SubSeq(b, 1, n) \in Seq(Part) /\ Len(SubSeq(b, 1, n)) = n
  BY <1>1, PartsAssumption
<1>3. n <= Parts
  BY PartsAssumption
<1> QED
  BY <1>2, <1>3, FilesAreSequences

LEMMA EmptyIsFile == << >> \in Files
<1>1. << >> \in Seq(Part) /\ Len(<< >>) <= Parts
  BY PartsAssumption
<1> QED
  BY <1>1, FilesAreSequences
----------------------------------------------------------------------------
(* What holds of the threads and the store between two steps.              *)
CallsTyped ==
  /\ faults \in 0..MaxFaults
  /\ mode \in {"mirror", "mount"}
  /\ next \in 0..Len(Image)
  /\ mine \in [Ids -> Files \cup {None}]
  /\ missed \in SUBSET Ids
  /\ torn \in SUBSET Ids
  /\ found \in SUBSET Ids
  /\ pc \in [Threads -> {"idle", "pick", "call", "read", "write", "dead"}]
  /\ id \in [Threads -> Ids \cup {None}]
  /\ used \in [Threads -> BOOLEAN]
  /\ from \in [Threads -> Peers \cup {None}]
  /\ incoming \in [Threads -> Files]
  /\ buff \in [Threads -> [1..Parts -> Part]]
  /\ offset \in [Threads -> 0..Parts]

(* A thread that fetches has a chunk to fetch, what it is about to write   *)
(* was verified, and a mirror has a reason for every chunk it has passed.  *)
Busy(t) == pc[t] \notin {"idle", "dead"}

WritesVerified == \A t \in Threads : pc[t] = "write" => Genuine(t)

Passed ==
  mode = "mirror" =>
    \A i \in Ids : i < next =>
      \/ i \in missed \cup torn \/ mine[i] = Whole
      \/ id[Main] = i /\ pc[Main] # "idle"

IInv ==
  /\ Faithful
  /\ CallsTyped
  /\ \A t \in Threads : Busy(t) => id[t] \in Ids
  /\ PartsFit
  /\ WritesVerified
  /\ OnlyGenuine
  /\ Passed

LEMMA InitIInv == Init => IInv
<1> SUFFICES ASSUME Init PROVE IInv
  OBVIOUS
<1>1. CallsTyped
  BY EmptyIsFile, PartsAssumption, ImageAssumption, FaultsAssumption, OldAssumption
  DEF Init, CallsTyped, Part
<1>2. Faithful
  BY InitFaithful DEF Init
<1> QED
  BY <1>1, <1>2, ImageAssumption DEF Init, IInv, Busy, PartsFit, WritesVerified, OnlyGenuine, Passed
----------------------------------------------------------------------------
(* The steps of thread t, each with the parts of IInv that it can disturb. *)
LEMMA CalledIInv ==
  ASSUME IInv, Faithful', NEW t \in Threads, NEW i \in Ids, Called(t, i), next' \in 0..Len(Image),
         \/ next' = next /\ mode = "mount"
         \/ t = Main /\ i = next /\ next' = next + 1
  PROVE  IInv'
<1> USE DEF IInv, Called, own
<1>1. CallsTyped'
  BY DEF CallsTyped
<1>2. \A u \in Threads : Busy(u)' => id'[u] \in Ids
  BY DEF CallsTyped, Busy
<1>3. PartsFit'
  BY DEF CallsTyped, PartsFit
<1>4. WritesVerified'
  BY DEF CallsTyped, WritesVerified, Genuine
<1>5. OnlyGenuine'
  BY DEF OnlyGenuine
<1>6. Passed'
  <2>1. CASE mode = "mount"
    BY <2>1 DEF Passed
  <2>2. CASE t = Main /\ i = next /\ next' = next + 1
    <3> SUFFICES ASSUME mode = "mirror", NEW j \in Ids, j < next'
                 PROVE  \/ j \in missed \cup torn \/ mine[j] = Whole
                        \/ id'[Main] = j /\ pc'[Main] # "idle"
      BY DEF Passed
    <3>1. j = next \/ j < next
      BY <2>2, ImageAssumption DEF CallsTyped
    <3> QED
      BY <2>2, <3>1 DEF Passed, CallsTyped
  <2> QED
    BY <2>1, <2>2
<1> QED
  BY <1>1, <1>2, <1>3, <1>4, <1>5, <1>6

LEMMA ReturnTyped ==
  ASSUME CallsTyped, NEW t \in Threads, Return(t)
  PROVE  /\ pc' \in [Threads -> {"idle", "pick", "call", "read", "write", "dead"}]
         /\ id' \in [Threads -> Ids \cup {None}]
         /\ used' \in [Threads -> BOOLEAN]
         /\ from' \in [Threads -> Peers \cup {None}]
         /\ incoming' \in [Threads -> Files]
         /\ buff' \in [Threads -> [1..Parts -> Part]]
         /\ offset' \in [Threads -> 0..Parts]
<1>1. [k \in 1..Parts |-> "bad"] \in [1..Parts -> Part]
  BY DEF Part
<1>2. 0 \in 0..Parts
  BY PartsAssumption
<1> QED
  BY <1>1, <1>2, EmptyIsFile DEF CallsTyped, Return

LEMMA PickIInv ==
  ASSUME IInv, Faithful', NEW t \in Threads, Pick(t)
  PROVE  IInv'
<1> USE DEF IInv, own, Pick
<1>1. CallsTyped'
  BY DEF CallsTyped, Holders, Faithful
<1>2. \A u \in Threads : Busy(u)' => id'[u] \in Ids
  BY DEF CallsTyped, Busy
<1>3. PartsFit'
  BY DEF CallsTyped, PartsFit
<1>4. WritesVerified'
  BY DEF CallsTyped, WritesVerified, Genuine
<1>5. OnlyGenuine'
  BY DEF OnlyGenuine
<1>6. Passed'
  BY DEF CallsTyped, Passed
<1> QED
  BY <1>1, <1>2, <1>3, <1>4, <1>5, <1>6

LEMMA NotFoundIInv ==
  ASSUME IInv, Faithful', NEW t \in Threads, NotFound(t)
  PROVE  IInv'
<1> USE DEF IInv, own, NotFound, Return
<1>1. CallsTyped'
  <2>1. id[t] \in Ids
    BY DEF Busy
  <2>2. missed' \in SUBSET Ids
    BY <2>1 DEF CallsTyped
  <2> QED
    BY <2>2, ReturnTyped DEF CallsTyped
<1>2. \A u \in Threads : Busy(u)' => id'[u] \in Ids
  BY DEF CallsTyped, Busy
<1>3. PartsFit'
  BY DEF CallsTyped, PartsFit
<1>4. WritesVerified'
  BY DEF CallsTyped, WritesVerified, Genuine
<1>5. OnlyGenuine'
  BY DEF OnlyGenuine
<1>6. Passed'
  BY DEF CallsTyped, Passed
<1> QED
  BY <1>1, <1>2, <1>3, <1>4, <1>5, <1>6

LEMMA CallIInv ==
  ASSUME IInv, Faithful', NEW t \in Threads, Call(t)
  PROVE  IInv'
<1> USE DEF IInv, own, Call, Opened, Fault
<1>9. PICK f \in Files : incoming' = [incoming EXCEPT ![t] = f]
  <2>1. Served(from[t], id[t]) \subseteq Files
    <3>1. Whole \in Files
      BY PartsAssumption DEF Files, Whole, Part
    <3> QED
      BY <3>1 DEF Served
  <2>2. Damaged(from[t], id[t]) \subseteq Files
    BY DEF Damaged
  <2> QED
    BY <2>1, <2>2
<1>0. incoming' = [incoming EXCEPT ![t] = incoming'[t]] /\ incoming'[t] \in Files
  BY <1>9 DEF CallsTyped
<1>10. faults' \in 0..MaxFaults
  BY FaultsAssumption DEF CallsTyped
<1>7. Len(incoming'[t]) <= Parts
  BY <1>0, FilesAreSequences
<1>1. CallsTyped'
  <2>1. incoming' \in [Threads -> Files]
    BY <1>9 DEF CallsTyped
  <2>2. offset' \in [Threads -> 0..Parts] /\ used' \in [Threads -> BOOLEAN]
    BY PartsAssumption DEF CallsTyped
  <2>3. pc' \in [Threads -> {"idle", "pick", "call", "read", "write", "dead"}]
    BY DEF CallsTyped
  <2> QED
    BY <1>10, <2>1, <2>2, <2>3 DEF CallsTyped
<1>2. \A u \in Threads : Busy(u)' => id'[u] \in Ids
  BY DEF CallsTyped, Busy
<1>3. PartsFit'
  BY <1>0, <1>7, PartsAssumption DEF CallsTyped, PartsFit
<1>4. WritesVerified'
  BY DEF CallsTyped, WritesVerified, Genuine
<1>5. OnlyGenuine'
  BY DEF OnlyGenuine
<1>6. Passed'
  BY DEF CallsTyped, Passed
<1> QED
  BY <1>1, <1>2, <1>3, <1>4, <1>5, <1>6

LEMMA ReusedIInv ==
  ASSUME IInv, Faithful', NEW t \in Threads, Reused(t)
  PROVE  IInv'
<1> USE DEF IInv, own, Reused
<1>1. CallsTyped'
  BY DEF CallsTyped
<1>2. \A u \in Threads : Busy(u)' => id'[u] \in Ids
  BY DEF CallsTyped, Busy
<1>3. PartsFit'
  BY DEF CallsTyped, PartsFit
<1>4. WritesVerified'
  BY DEF CallsTyped, WritesVerified, Genuine
<1>5. OnlyGenuine'
  BY DEF OnlyGenuine
<1>6. Passed'
  BY DEF CallsTyped, Passed, Threads
<1> QED
  BY <1>1, <1>2, <1>3, <1>4, <1>5, <1>6

LEMMA ReadIInv ==
  ASSUME IInv, Faithful', NEW t \in Threads, Read(t)
  PROVE  IInv'
<1> USE DEF IInv, own, Read
<1>0. /\ Head(incoming[t]) \in Part
      /\ Tail(incoming[t]) \in Files
      /\ Len(Tail(incoming[t])) = Len(incoming[t]) - 1
  BY TailOfFile DEF CallsTyped
<1>7. Len(incoming[t]) \in Nat /\ Len(incoming[t]) > 0
  <2>1. incoming[t] \in Seq(Part) /\ incoming[t] # << >>
    BY FilesAreSequences DEF CallsTyped
  <2> QED
    BY <2>1
<1>8. offset[t] + 1 \in 0..Parts /\ offset[t] + 1 \in 1..Parts
  BY <1>7, PartsAssumption DEF CallsTyped, PartsFit
<1>1. CallsTyped'
  BY <1>0, <1>8 DEF CallsTyped
<1>2. \A u \in Threads : Busy(u)' => id'[u] \in Ids
  BY DEF CallsTyped, Busy
<1>3. PartsFit'
  BY <1>0, <1>7, <1>8 DEF CallsTyped, PartsFit
<1>4. WritesVerified'
  BY DEF CallsTyped, WritesVerified, Genuine
<1>5. OnlyGenuine'
  BY DEF OnlyGenuine
<1>6. Passed'
  BY DEF CallsTyped, Passed
<1> QED
  BY <1>1, <1>2, <1>3, <1>4, <1>5, <1>6

LEMMA FailedIInv ==
  ASSUME IInv, Faithful', NEW t \in Threads, Failed(t)
  PROVE  IInv'
<1> USE DEF IInv, own, Failed, Again, Fault
<1>1. CallsTyped'
  BY EmptyIsFile, FaultsAssumption DEF CallsTyped
<1>2. \A u \in Threads : Busy(u)' => id'[u] \in Ids
  BY DEF CallsTyped, Busy
<1>3. PartsFit'
  BY DEF CallsTyped, PartsFit
<1>4. WritesVerified'
  BY DEF CallsTyped, WritesVerified, Genuine
<1>5. OnlyGenuine'
  BY DEF OnlyGenuine
<1>6. Passed'
  BY DEF CallsTyped, Passed
<1> QED
  BY <1>1, <1>2, <1>3, <1>4, <1>5, <1>6

LEMMA AbsentIInv ==
  ASSUME IInv, Faithful', NEW t \in Threads, Absent(t)
  PROVE  IInv'
<1> USE DEF IInv, own, Absent, Again
<1>1. CallsTyped'
  BY EmptyIsFile, PartsAssumption DEF CallsTyped
<1>2. \A u \in Threads : Busy(u)' => id'[u] \in Ids
  BY DEF CallsTyped, Busy
<1>3. PartsFit'
  BY DEF CallsTyped, PartsFit
<1>4. WritesVerified'
  BY DEF CallsTyped, WritesVerified, Genuine
<1>5. OnlyGenuine'
  BY DEF OnlyGenuine
<1>6. Passed'
  BY DEF CallsTyped, Passed
<1> QED
  BY <1>1, <1>2, <1>3, <1>4, <1>5, <1>6

LEMMA VerifiedIInv ==
  ASSUME IInv, Faithful', NEW t \in Threads, Verified(t)
  PROVE  IInv'
<1> USE DEF IInv, own, Verified, Received
<1>1. CallsTyped'
  BY DEF CallsTyped
<1>2. \A u \in Threads : Busy(u)' => id'[u] \in Ids
  BY DEF CallsTyped, Busy
<1>3. PartsFit'
  BY DEF CallsTyped, PartsFit
<1>4. WritesVerified'
  BY DEF CallsTyped, WritesVerified, Genuine
<1>5. OnlyGenuine'
  BY DEF OnlyGenuine
<1>6. Passed'
  BY DEF CallsTyped, Passed
<1> QED
  BY <1>1, <1>2, <1>3, <1>4, <1>5, <1>6

LEMMA MismatchIInv ==
  ASSUME IInv, Faithful', NEW t \in Threads, Mismatch(t)
  PROVE  IInv'
<1> USE DEF IInv, own, Mismatch, Again, Received
<1>1. CallsTyped'
  BY EmptyIsFile DEF CallsTyped
<1>2. \A u \in Threads : Busy(u)' => id'[u] \in Ids
  BY DEF CallsTyped, Busy
<1>3. PartsFit'
  BY DEF CallsTyped, PartsFit
<1>4. WritesVerified'
  BY DEF CallsTyped, WritesVerified, Genuine
<1>5. OnlyGenuine'
  BY DEF OnlyGenuine
<1>6. Passed'
  BY DEF CallsTyped, Passed
<1> QED
  BY <1>1, <1>2, <1>3, <1>4, <1>5, <1>6

LEMMA WriteIInv ==
  ASSUME IInv, Faithful', NEW t \in Threads, Write(t)
  PROVE  IInv'
<1> USE DEF IInv, own, Write, Return
<1>0. id[t] \in Ids /\ SubSeq(buff[t], 1, offset[t]) = Whole
  BY DEF Busy, WritesVerified, Genuine
<1>7. SubSeq(buff[t], 1, offset[t]) \in Files
  BY PrefixIsFile DEF CallsTyped
<1>1. CallsTyped'
  BY <1>0, <1>7, ReturnTyped DEF CallsTyped
<1>2. \A u \in Threads : Busy(u)' => id'[u] \in Ids
  BY DEF CallsTyped, Busy
<1>3. PartsFit'
  BY DEF CallsTyped, PartsFit
<1>4. WritesVerified'
  BY DEF CallsTyped, WritesVerified, Genuine
<1>5. OnlyGenuine'
  BY <1>0 DEF CallsTyped, OnlyGenuine
<1>6. Passed'
  BY <1>0 DEF CallsTyped, Passed
<1> QED
  BY <1>1, <1>2, <1>3, <1>4, <1>5, <1>6

LEMMA WriteFailsIInv ==
  ASSUME IInv, Faithful', NEW t \in Threads, WriteFails(t)
  PROVE  IInv'
<1> USE DEF IInv, own, WriteFails, Return, Fault
<1>0. id[t] \in Ids
  BY DEF Busy
<1>7. PICK f \in Files \cup {None} :
        /\ mine' = [mine EXCEPT ![id[t]] = f]
        /\ found' = found \/ found' = found \ {id[t]}
  <2>1. CASE UNCHANGED <<mine, found>>
    <3>1. mine[id[t]] \in Files \cup {None} /\ mine' = [mine EXCEPT ![id[t]] = mine[id[t]]]
      BY <1>0, <2>1 DEF CallsTyped
    <3> QED
      BY <2>1, <3>1
  <2>2. CASE /\ \E n \in 0..Parts : mine' = [mine EXCEPT ![id[t]] = SubSeq(buff[t], 1, n)]
             /\ found' = found \ {id[t]}
    <3>1. PICK n \in 0..Parts : mine' = [mine EXCEPT ![id[t]] = SubSeq(buff[t], 1, n)]
      BY <2>2
    <3>2. SubSeq(buff[t], 1, n) \in Files
      BY PrefixIsFile DEF CallsTyped
    <3> QED
      BY <2>2, <3>1, <3>2
  <2> QED
    BY <2>1, <2>2
<1>1. CallsTyped'
  <2>1. mine' \in [Ids -> Files \cup {None}] /\ torn' \in SUBSET Ids /\ found' \in SUBSET Ids
    BY <1>0, <1>7 DEF CallsTyped
  <2>2. faults' \in 0..MaxFaults
    BY FaultsAssumption DEF CallsTyped
  <2> QED
    BY <2>1, <2>2, ReturnTyped DEF CallsTyped
<1>2. \A u \in Threads : Busy(u)' => id'[u] \in Ids
  BY DEF CallsTyped, Busy
<1>3. PartsFit'
  BY DEF CallsTyped, PartsFit
<1>4. WritesVerified'
  BY DEF CallsTyped, WritesVerified, Genuine
<1>5. OnlyGenuine'
  BY <1>0, <1>7 DEF CallsTyped, OnlyGenuine
<1>6. Passed'
  BY <1>0, <1>7 DEF CallsTyped, Passed
<1> QED
  BY <1>1, <1>2, <1>3, <1>4, <1>5, <1>6

LEMMA EvictIInv ==
  ASSUME IInv, Faithful', NEW i \in Ids, Evict(i)
  PROVE  IInv'
<1> USE DEF IInv, Evict, calls
<1>1. CallsTyped'
  BY DEF CallsTyped
<1>2. \A u \in Threads : Busy(u)' => id'[u] \in Ids
  BY DEF Busy
<1>3. PartsFit' /\ WritesVerified'
  BY DEF PartsFit, WritesVerified, Genuine
<1>4. OnlyGenuine' /\ Passed'
  BY DEF CallsTyped, OnlyGenuine, Passed
<1> QED
  BY <1>1, <1>2, <1>3, <1>4

LEMMA MaskIInv ==
  ASSUME IInv, Faithful', Mask
  PROVE  IInv'
<1> USE DEF IInv, Mask, Fault, own, calls
<1>1. CallsTyped'
  BY FaultsAssumption DEF CallsTyped
<1> QED
  BY <1>1 DEF Busy, PartsFit, WritesVerified, Genuine, OnlyGenuine, Passed

LEMMA NextIInv == IInv /\ [Next]_vars => IInv'
<1> SUFFICES ASSUME IInv, [Next]_vars PROVE IInv'
  OBVIOUS
<1>1. Faithful'
  BY StepOfMasks, NextFaithful DEF IInv
<1>2. CASE UNCHANGED vars
  BY <1>1, <1>2 DEF vars, own, calls, IInv, CallsTyped, Busy, PartsFit,
                    WritesVerified, Genuine, OnlyGenuine, Passed
<1>3. CASE Mask
  BY <1>1, <1>3, MaskIInv
<1>4. CASE Mirror
  <2>1. next \in Ids /\ next + 1 \in 0..Len(Image) /\ Main \in Threads
    BY <1>4, ImageAssumption DEF Mirror, IInv, CallsTyped, Threads
  <2> QED
    BY <1>1, <1>4, <2>1, CalledIInv DEF Mirror
<1>5. ASSUME NEW i \in Ids, Evict(i) PROVE IInv'
  BY <1>1, <1>5, EvictIInv
<1>6. ASSUME NEW i \in Ids, NEW t \in Readers, Miss(t, i) PROVE IInv'
  <2>1. t \in Threads /\ next' \in 0..Len(Image)
    BY <1>6 DEF Miss, IInv, CallsTyped, Threads
  <2> QED
    BY <1>1, <1>6, <2>1, CalledIInv DEF Miss
<1>7. ASSUME NEW t \in Threads, Fetch(t) PROVE IInv'
  BY <1>1, <1>7, PickIInv, NotFoundIInv, CallIInv, ReusedIInv, ReadIInv, FailedIInv,
     AbsentIInv, VerifiedIInv, MismatchIInv, WriteIInv, WriteFailsIInv DEF Fetch
<1> QED
  BY <1>2, <1>3, <1>4, <1>5, <1>6, <1>7 DEF Next

LEMMA IInvHolds == Spec => []IInv
  BY InitIInv, NextIInv, PTL DEF Spec
----------------------------------------------------------------------------
(* Every variable of the masks, the threads and the store keeps its type:  *)
(* no part is written behind the end of the buffer, line 50.               *)
THEOREM TypeCorrect == Spec => []TypeOK
<1>1. IInv => TypeOK
  <2> SUFFICES ASSUME IInv PROVE TypeOK
    OBVIOUS
  <2>1. MasksTypeOK
    BY DEF IInv, Faithful, MasksTypeOK, Lossy
  <2> QED
    BY <2>1 DEF IInv, CallsTyped, TypeOK
<1> QED
  BY <1>1, IInvHolds, PTL

(* Whatever the cache directory held at start, whatever peers send and     *)
(* however calls fail: a file that this node has written since is the      *)
(* chunk of its name, unless its write has failed, lines 55-61.            *)
THEOREM OnlyGenuineHolds == Spec => []OnlyGenuine
  BY IInvHolds, PTL DEF IInv

(* Every attempt starts at the front of the buffer, line 47, and no peer   *)
(* sends more than a chunk.                                                *)
THEOREM PartsAlwaysFit == Spec => []PartsFit
  BY IInvHolds, PTL DEF IInv

(* The mirror loop of main.cc leaves no chunk out, but those that          *)
(* fetch_chunk found at nobody and those it could not write.               *)
THEOREM GapsAreKnownHolds == Spec => []GapsAreKnown
<1>1. IInv => GapsAreKnown
  BY ImageAssumption DEF IInv, Passed, GapsAreKnown, Mirrored, CallsTyped
<1> QED
  BY <1>1, IInvHolds, PTL

(* connection_for_block overlooks nobody: a chunk is given up only when    *)
(* every connected peer lacked it when last heard of, or had it at the top.*)
THEOREM MissedIsUnheardHolds == Spec => MissedIsUnheard
<1> DEFINE Unheard == \A i \in missed' \ missed, p \in connected :
                        i \in heard[p] => i % 8 = 0 /\ \A j \in heard[p] : j <= i
<1>1. IInv /\ [Next]_vars => [Unheard]_vars
  <2> SUFFICES ASSUME IInv, [Next]_vars, NEW i \in missed' \ missed, NEW p \in connected,
                      i \in heard[p]
               PROVE  i % 8 = 0 /\ \A j \in heard[p] : j <= i
    OBVIOUS
  <2>1. PICK t \in Threads : NotFound(t)
    BY DEF Next, vars, own, calls, Mask, Mirror, Miss, Called, Evict, Fetch, Pick, Call,
           Reused, Read, Failed, Verified, Mismatch, Absent, Write, WriteFails
  <2>2. i = id[t] /\ i \notin view[p]
    BY <2>1 DEF NotFound, Holders
  <2>3. AllButTheTop /\ p \in Peers
    BY FaithfulLosesTheTop DEF IInv, Faithful
  <2> QED
    BY <2>2, <2>3 DEF AllButTheTop
<1> QED
  BY <1>1, IInvHolds, PTL DEF Spec, MissedIsUnheard
=============================================================================
