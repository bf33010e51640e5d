------------------------- MODULE ChunkBuilderProofs -------------------------
(***************************************************************************)
(* Proofs about the image builder, for chunks, files and metadata of every *)
(* size and for every number of failures: what it leaves on disk when a    *)
(* build fails, and, for a build in which no call of the store fails, that *)
(* no file is spoilt while the image is made, that the image on disk is    *)
(* complete when success is reported, and that it can be served.           *)
(***************************************************************************)
EXTENDS ChunkBuilder, FiniteSetTheorems, TLAPS

(* Every chunk on disk can be read back: none that was stored was one that *)
(* LZ4 makes larger.  The run ChunkBuilder_incompressible shows what       *)
(* happens otherwise.                                                      *)
Readable == failures = 0 => \A i \in Ids : files[i] # Torn

(* The chunk that holds position p, and where p is in it.                  *)
Num(p) == p \div ChunkSize
At(p) == p % ChunkSize

(* The positions that the metadata and n files can take.                   *)
Room(n) == MetaLength + n * MaxFileLength
Limit == Room(MaxFiles + MaxReadErrors)

(* A file is being added; files are being laid out; the metadata is being  *)
(* written; the builder is done.                                           *)
Adding == pc = "read" \/ (pc = "copy" /\ then \in {"read", "added"})
Filing == pc \in {"files", "read"} \/ (pc = "copy" /\ then # "build")
Finishing == pc = "copy" /\ then = "build"
Finished == pc \in {"destroy", "exit", "serving", "throws"}

Current == IF Adding THEN 1 ELSE 0
----------------------------------------------------------------------------
(* Where the builder is: buff is the chunk of pos, what is still to be     *)
(* written fits in the room left for it, and a file lies between its       *)
(* offset and the position at which writing will go on.                    *)
Placed ==
  /\ pc = "reserve" => pos = 0 /\ chunk_num = 0 /\ nodes = << >> /\ readErrors = 0
  /\ pc \in {"reserve", "files", "read"} => work = << >>
  /\ pc \in {"files", "read", "copy"} => chunk_num = Num(pos)
  /\ Len(nodes) + Current <= MaxFiles
  /\ pc = "files" => pos <= Room(Len(nodes) + readErrors)
  /\ pc = "read" \/ (pc = "copy" /\ then # "build") =>
       pos + Len(work) + Len(source) <= Room(Len(nodes) + readErrors + Current)
  /\ Adding => /\ MetaLength <= node.offset
               /\ node.offset <= pos
               /\ node.offset + Len(node.bytes) = pos + Len(work)
               /\ Len(node.bytes) + Len(source) <= MaxFileLength
  /\ Filing => MetaLength <= pos
  /\ Finishing => pos + Len(work) = MetaLength

(* Every file lies behind the metadata and, until that is written, before  *)
(* the position of the builder.                                            *)
LaidOut ==
  \A k \in DOMAIN nodes :
    LET end == nodes[k].offset + Len(nodes[k].bytes)
    IN  MetaLength <= nodes[k].offset /\ end <= Limit /\ (Filing => end <= pos)

(* A chunk in in_store has a file.                                         *)
Stocked == \A i \in in_store : files[i] # None

Typed == TypeOK /\ Placed /\ LaidOut /\ Stocked

(* The files that are not in in_store are those of writes that failed.     *)
Ghosts == {i \in Ids : files[i] # None /\ i \notin in_store}
OnDisk == {i \in Ids : files[i] # None}

Accounted ==
  /\ pc \notin {"exit", "serving", "throws"} => Cardinality(Ghosts) <= failures
  /\ pc = "exit" /\ ~built => Cardinality(OnDisk) <= failures
----------------------------------------------------------------------------
(* The image as the builder sees it, and what it has at one position.      *)
Image == [files EXCEPT ![chunk_num] = buff]

Reads(image, p, b) == image[Num(p)] \in Content /\ image[Num(p)][At(p)] = b

(* `bytes` starts at offset; those before position `at` can be read, and   *)
(* the others are in `todo`, what is still to be written from there on.    *)
InTransit(image, at, todo, offset, bytes) ==
  \A k \in DOMAIN bytes :
    IF offset + k - 1 < at
    THEN Reads(image, offset + k - 1, bytes[k])
    ELSE bytes[k] = todo[offset + k - at]

(* A build that nothing disturbed.                                         *)
Clean ==
  /\ \A i \in Ids : files[i] # None => i \in in_store
  /\ Finished => built
  /\ FilesIn(Image)
  /\ Adding => InTransit(Image, pos, work, node.offset, node.bytes)
  /\ Finishing => Len(meta) = MetaLength /\ InTransit(Image, pos, work, 0, meta)
  /\ pc = "build" => Len(meta) = MetaLength /\ Holds(Image, 0, meta)
  /\ Finished => Len(meta) = MetaLength /\ Holds(files, 0, meta) /\ FilesIn(files)

(* There is no hole in the store but where the builder has still to go:    *)
(* below the chunk in buff while files are laid out, and in the chunks of  *)
(* the metadata while that is written.                                     *)
NoHoleAbove(top) == \A i \in in_store : \A j \in 0..(i - 1) : j \in in_store \/ j <= top

Gapless ==
  /\ pc = "reserve" \/ Finished => \A i \in in_store : 0..(i - 1) \subseteq in_store
  /\ Filing => /\ NoHoleAbove(chunk_num)
               /\ Num(MetaLength)..(chunk_num - 1) \subseteq in_store
  /\ Finishing \/ pc = "build" => /\ NoHoleAbove(Num(MetaLength))
                                  /\ 0..(chunk_num - 1) \subseteq in_store
  /\ pc = "build" => chunk_num = Num(MetaLength)
  /\ pc # "throws"

----------------------------------------------------------------------------
(* Positions and chunks.                                                   *)
LEMMA NumAt ==
  ASSUME NEW p \in Nat
  PROVE  /\ Num(p) \in Nat /\ At(p) \in 0..(ChunkSize - 1)
         /\ p = ChunkSize * Num(p) + At(p)
  BY SizeAssumption DEF Num, At

LEMMA NumMonotonic ==
  ASSUME NEW p \in Nat, NEW q \in Nat, p <= q
  PROVE  Num(p) <= Num(q)
  BY SizeAssumption DEF Num

(* A position is in one chunk and in one place of it.                      *)
LEMMA SamePlace ==
  ASSUME NEW p \in Nat, NEW q \in Nat, Num(p) = Num(q)
  PROVE  At(q) - At(p) = q - p
<1>1. /\ p = ChunkSize * Num(p) + At(p) /\ q = ChunkSize * Num(p) + At(q)
      /\ At(p) \in Nat /\ At(q) \in Nat /\ Num(p) \in Nat
  BY NumAt, SizeAssumption
<1>2. ChunkSize * Num(p) \in Nat
  BY <1>1, SizeAssumption
<1> QED
  BY <1>1, <1>2

(* The positions of the chunk of p that a write of n bytes covers.         *)
LEMMA WithinChunk ==
  ASSUME NEW p \in Nat, NEW n \in 0..(ChunkSize - At(p)), NEW j \in 0..(n - 1)
  PROVE  Num(p + j) = Num(p) /\ At(p + j) = At(p) + j
  BY SizeAssumption DEF Num, At

LEMMA NextChunk ==
  ASSUME NEW p \in Nat, NEW n \in 0..(ChunkSize - At(p))
  PROVE  Num(p + n) \in {Num(p), Num(p) + 1}
  BY SizeAssumption DEF Num, At

LEMMA Rooms ==
  /\ Limit \in Nat
  /\ \A n \in Nat : Room(n) \in Nat /\ Room(n + 1) = Room(n) + MaxFileLength
  /\ Room(0) = MetaLength /\ MetaLength \in 0..Limit
  /\ \A n \in 0..(MaxFiles + MaxReadErrors) : Room(n) \in 0..Limit
<1>1. /\ MetaLength \in Nat /\ MaxFileLength \in Nat /\ MaxFiles \in Nat
      /\ MaxReadErrors \in Nat
  BY SizeAssumption, BoundsAssumption
<1>2. \A n \in Nat : n * MaxFileLength \in Nat /\ (n + 1) * MaxFileLength = n * MaxFileLength + MaxFileLength
  BY <1>1
<1>3. \A n \in Nat, k \in Nat : n <= k => n * MaxFileLength <= k * MaxFileLength
  BY <1>1
<1>4. \A n \in Nat : Room(n) \in Nat /\ Room(n + 1) = Room(n) + MaxFileLength
  BY <1>1, <1>2 DEF Room
<1>5. Room(0) = MetaLength
  BY <1>1 DEF Room
<1>6. ASSUME NEW n \in 0..(MaxFiles + MaxReadErrors)
      PROVE  Room(n) \in 0..Limit
  <2>1. n \in Nat /\ MaxFiles + MaxReadErrors \in Nat /\ n <= MaxFiles + MaxReadErrors
    BY <1>1
  <2>2. n * MaxFileLength <= (MaxFiles + MaxReadErrors) * MaxFileLength
    BY <1>3, <2>1
  <2>3. n * MaxFileLength \in Nat /\ (MaxFiles + MaxReadErrors) * MaxFileLength \in Nat
    BY <1>2, <2>1
  <2> QED
    BY <1>1, <2>2, <2>3 DEF Room, Limit
<1>7. Limit \in Nat
  BY <1>1, <1>4 DEF Limit
<1>8. 0 \in 0..(MaxFiles + MaxReadErrors)
  BY <1>1
<1>9. MetaLength \in 0..Limit
  BY <1>5, <1>6, <1>8
<1> QED
  BY <1>4, <1>5, <1>6, <1>7, <1>9

(* The ids are the chunks of the positions up to Limit.                    *)
LEMMA IdsAre ==
  /\ Ids = 0..Num(Limit) /\ IsFiniteSet(Ids) /\ Ids \subseteq Nat
  /\ 0 \in Ids
  /\ \A p \in 0..Limit : Num(p) \in Ids
<1>1. Ids = 0..Num(Limit)
  BY DEF Ids, Num, Limit, Room
<1>2. Limit \in Nat /\ Num(Limit) \in Nat
  BY Rooms, NumAt
<1>3. IsFiniteSet(Ids)
  BY <1>1, <1>2, FS_Interval
<1>4. ASSUME NEW p \in 0..Limit
      PROVE  Num(p) \in Ids
  <2>1. p \in Nat /\ p <= Limit
    BY <1>2
  <2>2. Num(p) \in Nat /\ Num(p) <= Num(Limit)
    BY <1>2, <2>1, NumAt, NumMonotonic
  <2> QED
    BY <1>1, <2>2
<1> QED
  BY <1>1, <1>2, <1>3, <1>4

LEMMA StringsAre ==
  ASSUME NEW max \in Nat, NEW s
  PROVE  s \in Strings(max) <=> s \in Seq(Bytes) /\ Len(s) <= max
<1>1. ASSUME s \in Strings(max)
      PROVE  s \in Seq(Bytes) /\ Len(s) <= max
  BY <1>1 DEF Strings
<1>2. ASSUME s \in Seq(Bytes), Len(s) <= max
      PROVE  s \in Strings(max)
  <2>1. Len(s) \in 0..max /\ s \in [1..Len(s) -> Bytes]
    BY <1>2
  <2> QED
    BY <2>1 DEF Strings
<1> QED
  BY <1>1, <1>2
----------------------------------------------------------------------------
(* move_pos, whether it returns ok or an error, keeps the store and the    *)
(* builder within their types, and changes nothing else.                   *)
LEMMA StoredTyped ==
  ASSUME TypeOK, Stocked, NEW chunk \in Content, Stored(chunk)
  PROVE  /\ files' \in [Ids -> Content \cup {Torn, None}] /\ in_store' \in SUBSET Ids
         /\ \A i \in in_store' : files'[i] # None
         /\ \A i \in Ids : i # chunk_num => files'[i] = files[i]
         /\ files'[chunk_num] \in {chunk, Torn}
<1>1. /\ files' = [files EXCEPT ![chunk_num] = files'[chunk_num]]
      /\ files'[chunk_num] \in {chunk, Torn}
      /\ in_store' = in_store \cup {chunk_num}
  BY DEF TypeOK, Stored
<1>2. chunk # None /\ Torn # None
  BY ContentAssumption
<1> QED
  BY <1>1, <1>2 DEF TypeOK, Stocked

LEMMA StoreFailsTyped ==
  ASSUME TypeOK, Stocked, StoreFails
  PROVE  /\ files' \in [Ids -> Content \cup {Torn, None}] /\ in_store' = in_store
         /\ \A i \in in_store' : files'[i] # None
         /\ \A i \in Ids : i # chunk_num => files'[i] = files[i]
         /\ failures < MaxFailures /\ failures' = failures + 1
         /\ failures' \in 0..MaxFailures
  BY ContentAssumption, BoundsAssumption DEF TypeOK, Stocked, StoreFails, Fails

LEMMA MoveTyped ==
  ASSUME TypeOK, Stocked, NEW to \in 0..Limit, NEW chunk \in Content, Move(to, chunk)
  PROVE  /\ files' \in [Ids -> Content \cup {Torn, None}] /\ in_store' \in SUBSET Ids
         /\ Stocked'
         /\ buff' \in Content /\ pos' = to /\ chunk_num' = Num(to) /\ chunk_num' \in Ids
         /\ failures' = failures
<1>1. /\ pos' = to /\ chunk_num' = Num(to) /\ failures' = failures
      /\ Num(to) = chunk_num => buff' = chunk /\ UNCHANGED store
      /\ Num(to) # chunk_num =>
           /\ Stored(chunk)
           /\ \/ chunk_num' \in in_store' /\ buff' = files'[chunk_num'] /\ buff' # Torn
              \/ buff' = chunk
  BY DEF Move, Num
<1>2. chunk_num' \in Ids
  BY <1>1, IdsAre
<1>3. CASE Num(to) = chunk_num
  BY <1>1, <1>2, <1>3 DEF TypeOK, Stocked, store
<1>4. CASE Num(to) # chunk_num
  <2>1. /\ files' \in [Ids -> Content \cup {Torn, None}] /\ in_store' \in SUBSET Ids
        /\ Stocked'
    BY <1>1, <1>4, StoredTyped DEF Stocked
  <2>2. buff' \in Content
    BY <1>1, <1>2, <1>4, <2>1 DEF Stocked
  <2> QED
    BY <1>1, <1>2, <2>1, <2>2
<1> QED
  BY <1>3, <1>4

LEMMA MoveFailsTyped ==
  ASSUME TypeOK, Stocked, NEW to \in 0..Limit, NEW chunk \in Content, MoveFails(to, chunk)
  PROVE  /\ files' \in [Ids -> Content \cup {Torn, None}] /\ in_store' \in SUBSET Ids
         /\ Stocked'
         /\ buff' \in Content /\ chunk_num' \in Ids
         /\ failures' \in 0..MaxFailures
<1>1. CASE StoreFails /\ UNCHANGED chunk_num
  BY <1>1, StoreFailsTyped DEF MoveFails, TypeOK, Stocked
<1>2. CASE /\ Stored(chunk)
           /\ chunk_num' = to \div ChunkSize
           /\ files'[chunk_num'] = Torn \/ failures < MaxFailures
           /\ failures' = IF files'[chunk_num'] = Torn THEN failures ELSE failures + 1
  <2>1. chunk_num' = Num(to) /\ Num(to) \in Ids
    BY <1>2, IdsAre DEF Num
  <2>2. failures' \in 0..MaxFailures
    BY <1>2, BoundsAssumption DEF TypeOK
  <2> QED
    BY <1>2, <2>1, <2>2, StoredTyped DEF MoveFails, Stocked
<1> QED
  BY <1>1, <1>2 DEF MoveFails
----------------------------------------------------------------------------
(* One turn of write_data: how many bytes it writes, and the chunk then.   *)
Turn == Smaller(ChunkSize - At(pos), Len(work))
Filled ==
  [k \in 0..(ChunkSize - 1) |->
     IF k \in At(pos)..(At(pos) + Turn - 1) THEN work[k - At(pos) + 1] ELSE buff[k]]

LEMMA CopyIs ==
  ASSUME Copy
  PROVE  /\ pc = "copy" /\ work # << >>
         /\ \/ /\ Move(pos + Turn, Filled)
               /\ work' = SubSeq(work, Turn + 1, Len(work))
               /\ UNCHANGED <<pc, status>>
            \/ /\ MoveFails(pos + Turn, Filled)
               /\ pos' = pos + Turn
               /\ work' = << >>
               /\ IF then = "build" THEN Goto("build") /\ UNCHANGED status ELSE Abort
         /\ UNCHANGED <<built, then, source, node, nodes, meta, readErrors>>
  BY DEF Copy, Turn, Filled, At, file

LEMMA TurnIs ==
  ASSUME TypeOK, work # << >>
  PROVE  /\ Turn \in 1..Len(work) /\ Turn \in 0..(ChunkSize - At(pos))
         /\ Filled \in Content
         /\ \A j \in 0..(Turn - 1) : Filled[At(pos) + j] = work[j + 1]
         /\ \A k \in 0..(ChunkSize - 1) :
              k \notin At(pos)..(At(pos) + Turn - 1) => Filled[k] = buff[k]
<1>0. pos \in Nat /\ work \in Seq(Bytes) /\ buff \in Content
  BY DEF TypeOK
<1>a. Len(work) \in Nat /\ Len(work) # 0
  BY <1>0
<1>b. At(pos) \in 0..(ChunkSize - 1)
  BY <1>0, NumAt
<1>1. /\ At(pos) \in 0..(ChunkSize - 1) /\ ChunkSize \in Nat \ {0}
      /\ work \in Seq(Bytes) /\ Len(work) \in Nat \ {0}
      /\ buff \in [0..(ChunkSize - 1) -> Bytes]
  BY <1>0, <1>a, <1>b, SizeAssumption DEF Content
<1>2. Turn \in 1..Len(work) /\ Turn \in 0..(ChunkSize - At(pos))
  BY <1>1 DEF Turn, Smaller
<1> HIDE DEF Turn
<1>3. ASSUME NEW k \in 0..(ChunkSize - 1)
      PROVE  Filled[k] = IF k \in At(pos)..(At(pos) + Turn - 1)
                         THEN work[k - At(pos) + 1] ELSE buff[k]
  BY <1>3 DEF Filled
<1>4. ASSUME NEW k \in At(pos)..(At(pos) + Turn - 1)
      PROVE  work[k - At(pos) + 1] \in Bytes
  <2>1. k - At(pos) + 1 \in 1..Len(work)
    BY <1>1, <1>2
  <2> QED
    BY <1>1, <2>1
<1>5. Filled \in Content
  BY <1>1, <1>4 DEF Filled, Content
<1>6. ASSUME NEW j \in 0..(Turn - 1)
      PROVE  Filled[At(pos) + j] = work[j + 1]
  <2>1. /\ At(pos) + j \in 0..(ChunkSize - 1)
        /\ At(pos) + j \in At(pos)..(At(pos) + Turn - 1)
        /\ (At(pos) + j) - At(pos) + 1 = j + 1
    BY <1>1, <1>2
  <2> QED
    BY <1>3, <2>1
<1> QED
  BY <1>2, <1>3, <1>5, <1>6

(* The pieces that SubSeq cuts a string into.                              *)
LEMMA Cut ==
  ASSUME NEW s \in Seq(Bytes), NEW n \in 0..Len(s)
  PROVE  /\ SubSeq(s, 1, n) \in Seq(Bytes) /\ Len(SubSeq(s, 1, n)) = n
         /\ SubSeq(s, n + 1, Len(s)) \in Seq(Bytes)
         /\ Len(SubSeq(s, n + 1, Len(s))) = Len(s) - n
         /\ \A k \in 1..(Len(s) - n) : SubSeq(s, n + 1, Len(s))[k] = s[k + n]
<1>1. n \in Nat /\ Len(s) \in Nat /\ n <= Len(s)
  OBVIOUS
<1>2. \A k \in 1..n : s[k] \in Bytes
  BY <1>1
<1>3. \A k \in (n + 1)..Len(s) : s[k] \in Bytes
  BY <1>1
<1>4. SubSeq(s, 1, n) \in Seq(Bytes) /\ Len(SubSeq(s, 1, n)) = n
  BY <1>1, <1>2
<1>5. /\ SubSeq(s, n + 1, Len(s)) \in Seq(Bytes)
      /\ Len(SubSeq(s, n + 1, Len(s))) = Len(s) - n
  BY <1>1, <1>3
<1>6. \A k \in 1..(Len(s) - n) : SubSeq(s, n + 1, Len(s))[k] = s[k + n]
  BY <1>1
<1> QED
  BY <1>4, <1>5, <1>6

LEMMA Joined ==
  ASSUME NEW s \in Seq(Bytes), NEW t \in Seq(Bytes)
  PROVE  /\ s \o t \in Seq(Bytes) /\ Len(s \o t) = Len(s) + Len(t)
         /\ \A k \in 1..(Len(s) + Len(t)) :
              (s \o t)[k] = IF k <= Len(s) THEN s[k] ELSE t[k - Len(s)]
  OBVIOUS

LEMMA EmptyTyped == << >> \in Strings(MetaLength) /\ NoNode \in Node
<1>1. MetaLength \in Nat /\ MaxFileLength \in Nat
  BY SizeAssumption, BoundsAssumption
<1>2. ASSUME NEW max \in Nat
      PROVE  << >> \in Strings(max)
  <2>1. << >> \in Seq(Bytes) /\ Len(<< >>) <= max
    OBVIOUS
  <2> QED
    BY <2>1, StringsAre
<1>4. << >> \in Strings(MetaLength) /\ << >> \in Strings(MaxFileLength)
  BY <1>1, <1>2
<1> QED
  BY <1>4 DEF NoNode, Node

LEMMA InitTyped == Init => Typed
<1> SUFFICES ASSUME Init PROVE Typed
  OBVIOUS
<1> USE DEF Init
<1>1. files \in [Ids -> Content \cup {Torn, None}] /\ in_store \in SUBSET Ids /\ Stocked
  BY ContentAssumption DEF Stocked
<1>2. << >> \in Strings(MetaLength) /\ NoNode \in Node
  BY EmptyTyped
<1>3. nodes \in Seq(Node) /\ work \in Seq(Bytes) /\ source \in Seq(Bytes)
  OBVIOUS
<1>4. failures \in 0..MaxFailures /\ readErrors \in 0..MaxReadErrors
  BY BoundsAssumption
<1>5. TypeOK
  BY <1>1, <1>2, <1>3, <1>4, IdsAre DEF TypeOK
<1>6. Placed
  BY BoundsAssumption DEF Placed, Adding, Filing, Finishing, Current
<1> QED
  BY <1>1, <1>5, <1>6 DEF Typed, LaidOut
----------------------------------------------------------------------------
(* What the type invariant says of the parts, for the proofs below.        *)
LEMMA TypedFacts ==
  ASSUME TypeOK
  PROVE  /\ pos \in Nat /\ chunk_num \in Ids /\ buff \in Content
         /\ work \in Seq(Bytes) /\ Len(work) \in Nat
         /\ source \in Seq(Bytes) /\ Len(source) \in Nat
         /\ node.offset \in Nat /\ node.bytes \in Seq(Bytes) /\ Len(node.bytes) \in Nat
         /\ node.bytes \in Strings(MaxFileLength)
         /\ nodes \in Seq(Node) /\ Len(nodes) \in Nat /\ DOMAIN nodes = 1..Len(nodes)
         /\ readErrors \in 0..MaxReadErrors /\ readErrors \in Nat
         /\ MaxFiles \in Nat /\ MaxReadErrors \in Nat /\ MaxFileLength \in Nat
         /\ MetaLength \in Nat /\ ChunkSize \in Nat \ {0}
         /\ \A k \in DOMAIN nodes : /\ nodes[k].offset \in Nat
                                    /\ nodes[k].bytes \in Seq(Bytes)
                                    /\ Len(nodes[k].bytes) \in Nat
<1>1. MaxFiles \in Nat /\ MaxReadErrors \in Nat /\ MaxFileLength \in Nat /\ MetaLength \in Nat
  BY SizeAssumption, BoundsAssumption
<1>2. node \in Node /\ nodes \in Seq(Node)
  BY DEF TypeOK
<1>3. \A n \in Node : /\ n.offset \in Nat /\ n.bytes \in Strings(MaxFileLength)
                      /\ n.bytes \in Seq(Bytes) /\ Len(n.bytes) \in Nat
  BY <1>1, StringsAre DEF Node
<1>4. readErrors \in Nat /\ readErrors \in 0..MaxReadErrors
  BY <1>1 DEF TypeOK
<1>5. \A k \in DOMAIN nodes : nodes[k] \in Node
  BY <1>2
<1> QED
  BY <1>1, <1>2, <1>3, <1>4, <1>5, SizeAssumption DEF TypeOK

(* A position that a file or the metadata has room for is in bounds.       *)
LEMMA InBounds ==
  ASSUME Typed
  PROVE  /\ MetaLength \in 0..Limit /\ 0 \in 0..Limit
         /\ pc = "files" => pos \in 0..Limit
         /\ pc \in {"read", "copy"} => pos + Len(work) \in 0..Limit
<1> DEFINE n == Len(nodes) + readErrors + Current
<1>0. /\ Len(nodes) \in Nat /\ readErrors \in 0..MaxReadErrors /\ readErrors \in Nat
      /\ MaxFiles \in Nat /\ MaxReadErrors \in Nat
      /\ Current \in 0..1 /\ Len(nodes) + Current <= MaxFiles
  BY TypedFacts DEF Typed, Placed, Current
<1>1. n \in 0..(MaxFiles + MaxReadErrors) /\ Len(nodes) + readErrors \in 0..(MaxFiles + MaxReadErrors)
  BY <1>0
<1> HIDE DEF n
<1>2. /\ Limit \in Nat /\ Room(n) \in 0..Limit
      /\ Room(Len(nodes) + readErrors) \in 0..Limit
  BY <1>1, Rooms
<1>3. MetaLength \in 0..Limit /\ 0 \in 0..Limit
  BY Rooms
<1>4. CASE pc = "read" \/ (pc = "copy" /\ then # "build")
  <2>1. pos + Len(work) + Len(source) <= Room(n)
    BY <1>4 DEF Typed, Placed, n
  <2>a. pos \in Nat /\ Len(work) \in Nat /\ Len(source) \in Nat
    BY TypedFacts DEF Typed
  <2>b. Room(n) \in Nat
    BY <1>2
  <2>2. pos + Len(work) <= Room(n) /\ pos + Len(work) \in Nat
    BY <2>1, <2>a, <2>b
  <2>3. pos + Len(work) \in 0..Limit
    BY <1>2, <2>2
  <2> QED
    BY <1>2, <1>3, <1>4, <2>3
<1>5. CASE pc = "copy" /\ then = "build"
  BY <1>2, <1>3, <1>5 DEF Typed, Placed, Finishing
<1>6. CASE pc = "files"
  BY <1>2, <1>3, <1>6, TypedFacts DEF Typed, Placed
<1>7. CASE pc \notin {"files", "read", "copy"}
  BY <1>2, <1>3, <1>7
<1> QED
  BY <1>4, <1>5, <1>6, <1>7

(* Each step of the builder.                                               *)
LEMMA ReserveTyped == Typed /\ Reserve => Typed'
<1> SUFFICES ASSUME Typed, Reserve PROVE Typed'
  OBVIOUS
<1>0. TypeOK /\ Placed /\ LaidOut /\ Stocked
  BY DEF Typed
<1>1. /\ pc = "reserve" /\ buff \in Content /\ MetaLength \in 0..Limit
      /\ work = << >> /\ nodes = << >> /\ readErrors = 0 /\ MetaLength \in Nat
      /\ UNCHANGED <<built, work, then, source, node, nodes, meta, readErrors>>
  BY <1>0, InBounds, TypedFacts DEF Typed, Placed, Reserve, file
<1>2. CASE Move(MetaLength, buff) /\ Goto("files") /\ UNCHANGED status
  <2>1. /\ files' \in [Ids -> Content \cup {Torn, None}] /\ in_store' \in SUBSET Ids
        /\ Stocked'
        /\ buff' \in Content /\ pos' = MetaLength /\ chunk_num' = Num(MetaLength)
        /\ chunk_num' \in Ids /\ failures' = failures
    BY <1>0, <1>1, <1>2, MoveTyped
  <2>2. TypeOK'
    BY <1>0, <1>1, <1>2, <2>1 DEF TypeOK, Goto
  <2>3. Room(0) = MetaLength /\ MaxFiles \in Nat
    BY Rooms, BoundsAssumption
  <2>4. Placed'
    BY <1>1, <1>2, <2>1, <2>3 DEF Placed, Adding, Filing, Finishing, Current, Goto
  <2> QED
    BY <1>1, <2>1, <2>2, <2>4 DEF Typed, LaidOut
<1>3. CASE MoveFails(MetaLength, buff) /\ UNCHANGED pos /\ Abort
  <2>1. /\ files' \in [Ids -> Content \cup {Torn, None}] /\ in_store' \in SUBSET Ids
        /\ Stocked'
        /\ buff' \in Content /\ chunk_num' \in Ids /\ failures' \in 0..MaxFailures
    BY <1>0, <1>1, <1>3, MoveFailsTyped
  <2>2. TypeOK'
    BY <1>0, <1>1, <1>3, <2>1 DEF TypeOK, Abort, Goto
  <2>3. Placed'
    BY <1>1, <1>3, BoundsAssumption DEF Placed, Adding, Filing, Finishing, Current, Abort, Goto
  <2> QED
    BY <1>1, <2>1, <2>2, <2>3 DEF Typed, LaidOut
<1> QED
  BY <1>2, <1>3 DEF Reserve

LEMMA AddFileTyped == Typed /\ AddFile => Typed'
<1> SUFFICES ASSUME Typed, AddFile PROVE Typed'
  OBVIOUS
<1>0. TypeOK /\ Placed /\ LaidOut /\ Stocked
  BY DEF Typed
<1>1. /\ pc = "files" /\ pc' = "read" /\ Len(nodes) < MaxFiles
      /\ source' \in Strings(MaxFileLength)
      /\ node' = [offset |-> pos, bytes |-> << >>]
      /\ UNCHANGED <<files, in_store, buff, pos, chunk_num>>
      /\ UNCHANGED <<built, work, then, nodes, meta, status, failures, readErrors>>
  BY DEF AddFile, Goto, store, builder
<1>2. source' \in Seq(Bytes) /\ Len(source') \in Nat /\ Len(source') <= MaxFileLength
  BY <1>1, StringsAre, BoundsAssumption
<1>3. << >> \in Strings(MaxFileLength)
  BY EmptyTyped DEF NoNode, Node
<1>4. node' \in Node
  BY <1>0, <1>1, <1>3, TypedFacts DEF Node
<1>5. TypeOK'
  BY <1>0, <1>1, <1>2, <1>4 DEF TypeOK
<1>6. Placed'
  <2>1. /\ work = << >> /\ pos <= Room(Len(nodes) + readErrors) /\ chunk_num = Num(pos)
        /\ MetaLength <= pos
    BY <1>0, <1>1 DEF Placed, Filing
  <2>a. Len(nodes) + readErrors \in Nat /\ pos \in Nat /\ MaxFileLength \in Nat
    BY <1>0, TypedFacts
  <2>2. /\ Room(Len(nodes) + readErrors) \in Nat
        /\ Room(Len(nodes) + readErrors + 1) = Room(Len(nodes) + readErrors) + MaxFileLength
    BY <2>a, Rooms
  <2>3. pos + 0 + Len(source') <= Room(Len(nodes) + readErrors + 1)
    BY <1>2, <2>1, <2>2, <2>a
  <2>4. Adding' /\ Filing' /\ ~Finishing' /\ Current' = 1
    BY <1>1 DEF Adding, Filing, Finishing, Current
  <2>5. node'.offset = pos /\ Len(node'.bytes) = 0 /\ Len(work') = 0
    BY <1>1, <2>1
  <2>6. /\ Len(nodes') + Current' <= MaxFiles
        /\ pos' + Len(work') + Len(source') <= Room(Len(nodes') + readErrors' + Current')
    BY <1>0, <1>1, <2>3, <2>4, <2>5, TypedFacts
  <2>7. node'.offset + Len(node'.bytes) = pos' + Len(work')
        /\ Len(node'.bytes) + Len(source') <= MaxFileLength
    BY <1>0, <1>1, <1>2, <2>5, TypedFacts
  <2> QED
    BY <1>0, <1>1, <2>1, <2>4, <2>5, <2>6, <2>7, TypedFacts DEF Placed
<1>7. LaidOut' /\ Stocked'
  BY <1>0, <1>1 DEF LaidOut, Stocked, Filing
<1> QED
  BY <1>5, <1>6, <1>7 DEF Typed
LEMMA ReadTyped == Typed /\ Read => Typed'
<1> SUFFICES ASSUME Typed, Read PROVE Typed'
  OBVIOUS
<1> DEFINE n == Smaller(ChunkSize, Len(source))
<1>0. TypeOK /\ Placed /\ LaidOut /\ Stocked
  BY DEF Typed
<1>f. /\ ChunkSize \in Nat \ {0} /\ MaxFileLength \in Nat
      /\ source \in Seq(Bytes) /\ Len(source) \in Nat
      /\ node.bytes \in Seq(Bytes) /\ Len(node.bytes) \in Nat
      /\ pos \in Nat /\ node.offset \in Nat
  BY <1>0, TypedFacts
<1>1. /\ pc = "read" /\ pc' = "copy"
      /\ work' = SubSeq(source, 1, n)
      /\ source' = SubSeq(source, n + 1, Len(source))
      /\ node' = [node EXCEPT !.bytes = @ \o work']
      /\ then' \in {"added", "read"}
      /\ UNCHANGED <<files, in_store, buff, pos, chunk_num>>
      /\ UNCHANGED <<built, nodes, meta, status, failures, readErrors>>
  BY DEF Read, Goto, store, builder
<1>2. n \in 0..Len(source)
  BY <1>f DEF Smaller
<1> HIDE DEF n
<1>3. /\ work' \in Seq(Bytes) /\ Len(work') = n
      /\ source' \in Seq(Bytes) /\ Len(source') = Len(source) - n
  BY <1>f, <1>1, <1>2, Cut
<1>4. /\ node'.offset = node.offset /\ node'.bytes = node.bytes \o work'
      /\ node'.bytes \in Seq(Bytes) /\ Len(node'.bytes) = Len(node.bytes) + n
  <2>1. node.bytes \o work' \in Seq(Bytes) /\ Len(node.bytes \o work') = Len(node.bytes) + Len(work')
    BY <1>f, <1>3, Joined
  <2>2. node'.offset = node.offset /\ node'.bytes = node.bytes \o work'
    BY <1>0, <1>1 DEF TypeOK, Node
  <2> QED
    BY <1>3, <2>1, <2>2
<1>5. /\ work = << >> /\ MetaLength <= node.offset /\ node.offset <= pos
      /\ node.offset + Len(node.bytes) = pos + Len(work)
      /\ Len(node.bytes) + Len(source) <= MaxFileLength
      /\ pos + Len(work) + Len(source) <= Room(Len(nodes) + readErrors + Current)
      /\ MetaLength <= pos /\ chunk_num = Num(pos) /\ Current = 1
      /\ Len(nodes) + Current <= MaxFiles
  BY <1>0, <1>1 DEF Placed, Adding, Filing, Current
<1>6. Adding' /\ Filing' /\ ~Finishing' /\ Current' = 1
  BY <1>1 DEF Adding, Filing, Finishing, Current
<1>7. TypeOK'
  <2>1. node'.bytes \in Strings(MaxFileLength)
    <3>1. Len(node'.bytes) <= MaxFileLength
      BY <1>2, <1>4, <1>5, <1>f
    <3> QED
      BY <1>4, <3>1, StringsAre, BoundsAssumption
  <2>2. node' \in Node
    BY <1>0, <1>1, <2>1, <1>4 DEF TypeOK, Node
  <2> QED
    BY <1>0, <1>1, <1>3, <2>2 DEF TypeOK
<1>8. Placed'
  <2>0. /\ n \in Nat /\ Len(source) \in Nat /\ Len(node.bytes) \in Nat /\ Len(work) = 0
        /\ pos \in Nat /\ node.offset \in Nat
    BY <1>2, <1>5, <1>f
  <2>a. pos' + Len(work') + Len(source') = pos + Len(work) + Len(source)
    BY <1>1, <1>3, <2>0
  <2>b. Len(nodes') + readErrors' + Current' = Len(nodes) + readErrors + Current
    BY <1>1, <1>5, <1>6
  <2>1. pos' + Len(work') + Len(source') <= Room(Len(nodes') + readErrors' + Current')
    <3>1. pos + Len(work) + Len(source) <= Room(Len(nodes) + readErrors + Current)
      BY <1>5
    <3> QED
      BY <2>a, <2>b, <3>1
  <2>c. node.offset + Len(node.bytes) = pos
    BY <1>5, <2>0
  <2>2. node'.offset + Len(node'.bytes) = pos' + Len(work')
    <3>1. /\ node'.offset = node.offset /\ Len(node'.bytes) = Len(node.bytes) + n
          /\ pos' = pos /\ Len(work') = n
      BY <1>1, <1>3, <1>4
    <3> QED
      BY <2>0, <2>c, <3>1
  <2>3. Len(node'.bytes) + Len(source') <= MaxFileLength
    BY <1>3, <1>4, <1>5, <2>0
  <2> QED
    BY <1>1, <1>4, <1>5, <1>6, <2>1, <2>2, <2>3 DEF Placed
<1>9. LaidOut' /\ Stocked'
  BY <1>0, <1>1 DEF LaidOut, Stocked, Filing
<1> QED
  BY <1>7, <1>8, <1>9 DEF Typed

LEMMA ReadErrorTyped == Typed /\ ReadError => Typed'
<1> SUFFICES ASSUME Typed, ReadError PROVE Typed'
  OBVIOUS
<1>0. TypeOK /\ Placed /\ LaidOut /\ Stocked
  BY DEF Typed
<1>1. PICK n \in 0..Smaller(ChunkSize - 1, Len(source)) :
        IF n = 0 THEN Goto("dead") /\ UNCHANGED work
                 ELSE Goto("copy") /\ work' = SubSeq(source, 1, n - 1)
  BY DEF ReadError
<1>2. /\ pc = "read" /\ readErrors < MaxReadErrors /\ readErrors' = readErrors + 1
      /\ then' = "skipped" /\ source' = << >> /\ node' = NoNode
      /\ UNCHANGED <<files, in_store, buff, pos, chunk_num>>
      /\ UNCHANGED <<built, nodes, meta, status, failures>>
  BY DEF ReadError, store, builder
<1>3. n # 0 => /\ work' \in Seq(Bytes) /\ Len(work') = n - 1
               /\ n - 1 \in 0..Len(source) /\ n - 1 <= Len(source)
  <2>0. source \in Seq(Bytes) /\ Len(source) \in Nat /\ ChunkSize \in Nat \ {0}
    BY <1>0, TypedFacts
  <2>1. n # 0 => n - 1 \in 0..Len(source)
    BY <2>0 DEF Smaller
  <2>2. n # 0 => work' = SubSeq(source, 1, n - 1)
    BY <1>1
  <2>3. CASE n # 0
    <3>1. n - 1 \in 0..Len(source) /\ work' = SubSeq(source, 1, n - 1)
      BY <2>1, <2>2, <2>3
    <3>2. SubSeq(source, 1, n - 1) \in Seq(Bytes) /\ Len(SubSeq(source, 1, n - 1)) = n - 1
      BY <2>0, <3>1, Cut
    <3> QED
      BY <2>0, <3>1, <3>2
  <2> QED
    BY <2>3
<1>4. TypeOK'
  <2>0. readErrors \in Nat /\ MaxReadErrors \in Nat
    BY <1>0, TypedFacts
  <2>1. readErrors' \in 0..MaxReadErrors
    BY <1>2, <2>0
  <2>2. work' \in Seq(Bytes) /\ pc' \in {"dead", "copy"}
    BY <1>0, <1>1, <1>3 DEF TypeOK, Goto
  <2> QED
    BY <1>0, <1>2, <2>1, <2>2, EmptyTyped DEF TypeOK
<1>5. /\ work = << >> /\ MetaLength <= pos /\ chunk_num = Num(pos)
      /\ pos + Len(work) + Len(source) <= Room(Len(nodes) + readErrors + 1)
      /\ Len(nodes) + 1 <= MaxFiles
  BY <1>0, <1>2 DEF Placed, Adding, Filing, Current
<1>6. ~Adding' /\ ~Finishing' /\ Current' = 0 /\ pc' \in {"dead", "copy"}
  BY <1>1, <1>2 DEF Adding, Finishing, Current, Goto
<1>7. Placed'
  <2>1. CASE n = 0
    <3>1. pc' = "dead" /\ ~Filing'
      BY <1>1, <2>1 DEF Goto, Filing
    <3> QED
      BY <1>0, <1>2, <1>5, <1>6, <3>1, TypedFacts DEF Placed
  <2>2. CASE n # 0
    <3>0. /\ pos \in Nat /\ Len(nodes) \in Nat /\ readErrors \in Nat
          /\ Len(source) \in Nat /\ Len(work) = 0 /\ Len(source') = 0
          /\ MaxFiles \in Nat /\ MaxReadErrors \in Nat
      BY <1>0, <1>2, <1>5, TypedFacts
    <3>1. /\ Len(nodes) + readErrors + 1 = Len(nodes') + readErrors' + Current'
          /\ Len(nodes') + Current' <= MaxFiles
      BY <3>0, <1>2, <1>5, <1>6
    <3>3. /\ Len(nodes) + readErrors + 1 \in 0..(MaxFiles + MaxReadErrors)
      BY <3>0, <1>2, <1>5
    <3>a. Limit \in Nat /\ Room(Len(nodes) + readErrors + 1) \in 0..Limit
      BY <3>3, Rooms
    <3>4. Room(Len(nodes) + readErrors + 1) \in Nat
      BY <3>a
    <3>5. pos' + Len(work') + Len(source') <= Room(Len(nodes') + readErrors' + Current')
      BY <1>2, <1>3, <1>5, <2>2, <3>0, <3>1, <3>4
    <3> QED
      BY <1>2, <1>5, <1>6, <3>1, <3>5 DEF Placed
  <2> QED
    BY <2>1, <2>2
<1>8. LaidOut' /\ Stocked'
  BY <1>0, <1>2 DEF LaidOut, Stocked, Filing
<1> QED
  BY <1>4, <1>7, <1>8 DEF Typed
LEMMA CopyTyped == Typed /\ Copy => Typed'
<1> SUFFICES ASSUME Typed, Copy PROVE Typed'
  OBVIOUS
<1>0. TypeOK /\ Placed /\ LaidOut /\ Stocked
  BY DEF Typed
<1>1. /\ pc = "copy" /\ work # << >>
      /\ UNCHANGED <<built, then, source, node, nodes, meta, readErrors>>
  BY CopyIs
<1>2. /\ Turn \in 1..Len(work) /\ Filled \in Content
  BY <1>0, <1>1, TurnIs
<1>3. /\ pos \in Nat /\ Len(work) \in Nat /\ work \in Seq(Bytes)
      /\ Turn \in Nat /\ Turn <= Len(work)
  BY <1>0, <1>2, TypedFacts
<1>4. pos + Turn \in 0..Limit /\ pos + Turn \in Nat
  <2>1. pos + Len(work) \in 0..Limit /\ Limit \in Nat
    BY <1>1, InBounds, Rooms
  <2> QED
    BY <1>3, <2>1
<1>5. CASE /\ Move(pos + Turn, Filled)
           /\ work' = SubSeq(work, Turn + 1, Len(work))
           /\ UNCHANGED <<pc, status>>
  <2>1. /\ files' \in [Ids -> Content \cup {Torn, None}] /\ in_store' \in SUBSET Ids
        /\ Stocked'
        /\ buff' \in Content /\ pos' = pos + Turn /\ chunk_num' = Num(pos + Turn)
        /\ chunk_num' \in Ids /\ failures' = failures
    BY <1>0, <1>2, <1>4, <1>5, MoveTyped
  <2>2. work' \in Seq(Bytes) /\ Len(work') = Len(work) - Turn
    BY <1>2, <1>3, <1>5, Cut
  <2>3. TypeOK'
    BY <1>0, <1>1, <1>4, <1>5, <2>1, <2>2 DEF TypeOK
  <2>4. pos' + Len(work') = pos + Len(work)
    BY <1>3, <2>1, <2>2
  <2>5. /\ pc' = pc /\ Adding' = Adding /\ Filing' = Filing /\ Finishing' = Finishing
        /\ Current' = Current
    BY <1>1, <1>5 DEF Adding, Filing, Finishing, Current
  <2>6. pos <= pos'
    BY <1>3, <2>1
  <2>7. Placed'
    <3>1. pos' + Len(work') + Len(source') = pos + Len(work) + Len(source)
      BY <1>1, <2>4
    <3>2. Adding => node.offset <= pos'
      <4>1. node.offset \in Nat
        BY <1>0, TypedFacts
      <4> QED
        BY <1>0, <1>3, <2>1, <2>6, <4>1 DEF Placed
    <3>3. Filing => MetaLength <= pos'
      BY <1>0, <1>3, <2>1, <2>6, SizeAssumption DEF Placed
    <3>4. /\ Len(nodes) + Current <= MaxFiles
          /\ then # "build" => pos' + Len(work') + Len(source')
                                 <= Room(Len(nodes) + readErrors + Current)
          /\ Adding => /\ MetaLength <= node.offset
                       /\ node.offset + Len(node.bytes) = pos' + Len(work')
                       /\ Len(node.bytes) + Len(source) <= MaxFileLength
          /\ Finishing => pos' + Len(work') = MetaLength
      BY <1>0, <1>1, <2>4, <3>1 DEF Placed
    <3> QED
      BY <1>1, <2>1, <2>5, <3>2, <3>3, <3>4 DEF Placed
  <2>8. LaidOut'
    <3>1. nodes' = nodes /\ Filing' = Filing
      BY <1>1, <2>5
    <3>2. ASSUME NEW k \in DOMAIN nodes, nodes[k].offset + Len(nodes[k].bytes) <= pos
          PROVE  nodes[k].offset + Len(nodes[k].bytes) <= pos'
      <4>1. nodes[k].offset \in Nat /\ Len(nodes[k].bytes) \in Nat
        BY <1>0, TypedFacts
      <4> QED
        BY <1>3, <2>1, <2>6, <3>2, <4>1
    <3> QED
      BY <1>0, <3>1, <3>2 DEF LaidOut
  <2> QED
    BY <2>1, <2>3, <2>7, <2>8 DEF Typed
<1>6. CASE /\ MoveFails(pos + Turn, Filled)
           /\ pos' = pos + Turn
           /\ work' = << >>
           /\ IF then = "build" THEN Goto("build") /\ UNCHANGED status ELSE Abort
  <2>1. /\ files' \in [Ids -> Content \cup {Torn, None}] /\ in_store' \in SUBSET Ids
        /\ Stocked'
        /\ buff' \in Content /\ chunk_num' \in Ids /\ failures' \in 0..MaxFailures
    BY <1>0, <1>2, <1>4, <1>6, MoveFailsTyped
  <2>2. pc' \in {"build", "destroy"} /\ status' \in {"none", "ok", "error"}
    BY <1>0, <1>6 DEF Abort, Goto, TypeOK
  <2>3. << >> \in Seq(Bytes)
    OBVIOUS
  <2>4. TypeOK'
    BY <1>0, <1>1, <1>4, <1>6, <2>1, <2>2, <2>3 DEF TypeOK
  <2>5. ~Adding' /\ ~Filing' /\ ~Finishing' /\ Current' = 0
    BY <2>2 DEF Adding, Filing, Finishing, Current
  <2>6. Len(nodes') + Current' <= MaxFiles
    <3>1. /\ Len(nodes) \in Nat /\ MaxFiles \in Nat /\ Current \in {0, 1}
          /\ Len(nodes) + Current <= MaxFiles
      BY <1>0, TypedFacts DEF Placed, Current
    <3> QED
      BY <1>1, <2>5, <3>1
  <2>7. Placed'
    BY <2>2, <2>5, <2>6 DEF Placed
  <2>8. LaidOut'
    BY <1>0, <1>1, <2>5 DEF LaidOut
  <2> QED
    BY <2>1, <2>4, <2>7, <2>8 DEF Typed
<1> QED
  BY <1>5, <1>6, CopyIs

LEMMA CopiedTyped == Typed /\ Copied => Typed'
<1> SUFFICES ASSUME Typed, Copied PROVE Typed'
  OBVIOUS
<1>0. TypeOK /\ Placed /\ LaidOut /\ Stocked
  BY DEF Typed
<1>1. /\ pc = "copy" /\ work = << >>
      /\ pc' = IF then \in {"added", "skipped"} THEN "files" ELSE then
      /\ nodes' = IF then = "added" THEN Append(nodes, node) ELSE nodes
      /\ UNCHANGED <<files, in_store, buff, pos, chunk_num>>
      /\ UNCHANGED <<built, work, then, source, node, meta, status, failures, readErrors>>
  BY DEF Copied, Goto, store, builder, file
<1>f. /\ pos \in Nat /\ Len(nodes) \in Nat /\ nodes \in Seq(Node) /\ node \in Node
      /\ readErrors \in Nat /\ Len(source) \in Nat /\ Len(work) = 0
      /\ then \in {"read", "added", "skipped", "build"}
      /\ node.offset \in Nat /\ Len(node.bytes) \in Nat
  BY <1>0, <1>1, TypedFacts DEF TypeOK
<1>2. nodes' \in Seq(Node)
  BY <1>1, <1>f
<1>3. TypeOK'
  BY <1>0, <1>1, <1>2, <1>f DEF TypeOK
<1>4. /\ pc' = "files" => Len(nodes') = IF then = "added" THEN Len(nodes) + 1 ELSE Len(nodes)
      /\ pc' # "files" => nodes' = nodes
  BY <1>1, <1>f
<1>5. /\ chunk_num = Num(pos)
      /\ then # "build" => /\ MetaLength <= pos
                           /\ pos + Len(work) + Len(source) <= Room(Len(nodes) + readErrors + Current)
      /\ Len(nodes) + Current <= MaxFiles
      /\ Current = IF then \in {"read", "added"} THEN 1 ELSE 0
  BY <1>0, <1>1 DEF Placed, Filing, Current, Adding
<1>6. /\ Len(nodes') + Current' <= MaxFiles
      /\ then # "build" => Len(nodes') + readErrors' + Current' = Len(nodes) + readErrors + Current
      /\ Current' = IF then = "read" THEN 1 ELSE 0
  <2>1. Current' = IF then = "read" THEN 1 ELSE 0
    BY <1>1, <1>f DEF Current, Adding
  <2>2. MaxFiles \in Nat /\ readErrors' = readErrors
    BY <1>1, BoundsAssumption
  <2>3. Len(nodes') = IF then = "added" THEN Len(nodes) + 1 ELSE Len(nodes)
    BY <1>1, <1>f
  <2>4. CASE then = "added"
    BY <1>5, <1>f, <2>1, <2>2, <2>3, <2>4
  <2>5. CASE then # "added"
    BY <1>5, <1>f, <2>1, <2>2, <2>3, <2>5
  <2> QED
    BY <2>4, <2>5
<1>7. then # "build" => /\ pos <= Room(Len(nodes) + readErrors + Current)
                        /\ Len(nodes) + readErrors + Current \in Nat
  <2>1. Len(nodes) + readErrors + Current \in Nat
    BY <1>5, <1>f
  <2>2. Room(Len(nodes) + readErrors + Current) \in Nat
    BY <2>1, Rooms
  <2> QED
    BY <1>5, <1>f, <2>1, <2>2
<1>8. Placed'
  <2>1. CASE then \in {"added", "skipped"}
    <3>1. /\ pc' = "files" /\ Current' = 0 /\ ~Adding' /\ ~Finishing'
          /\ Len(nodes') + readErrors' \in Nat
          /\ Len(nodes') + readErrors' = Len(nodes) + readErrors + Current
      BY <1>1, <1>4, <1>5, <1>6, <1>f, <2>1 DEF Adding, Finishing, Current
    <3> QED
      BY <1>1, <1>5, <1>6, <1>7, <2>1, <3>1 DEF Placed
  <2>2. CASE then = "read"
    <3>1. pc' = "read" /\ Adding' /\ ~Finishing' /\ Adding
      BY <1>1, <2>2 DEF Adding, Finishing
    <3>2. nodes' = nodes /\ Current' = Current
      BY <1>1, <1>5, <1>6, <2>2
    <3> QED
      BY <1>0, <1>1, <1>5, <1>6, <2>2, <3>1, <3>2 DEF Placed
  <2>3. CASE then = "build"
    <3>1. pc' = "build" /\ ~Adding' /\ ~Filing' /\ ~Finishing'
      BY <1>1, <2>3 DEF Adding, Filing, Finishing
    <3> QED
      BY <1>1, <1>6, <3>1 DEF Placed
  <2> QED
    BY <1>f, <2>1, <2>2, <2>3
<1>9. LaidOut'
  <2>1. CASE then = "added"
    <3>1. /\ DOMAIN nodes' = 1..(Len(nodes) + 1) /\ nodes'[Len(nodes) + 1] = node
          /\ \A k \in DOMAIN nodes : nodes'[k] = nodes[k]
          /\ DOMAIN nodes = 1..Len(nodes)
      BY <1>1, <1>f, <2>1
    <3>2. /\ MetaLength <= node.offset
          /\ node.offset + Len(node.bytes) = pos
      BY <1>0, <1>1, <1>f, <2>1 DEF Placed, Adding
    <3>3. pos <= Limit
      <4>1. pos + Len(work) \in 0..Limit /\ Limit \in Nat
        BY <1>1, InBounds, Rooms
      <4> QED
        BY <1>f, <4>1
    <3>4. ASSUME NEW k \in DOMAIN nodes'
          PROVE  /\ MetaLength <= nodes'[k].offset
                 /\ nodes'[k].offset + Len(nodes'[k].bytes) <= Limit
                 /\ nodes'[k].offset + Len(nodes'[k].bytes) <= pos
      <4>1. CASE k = Len(nodes) + 1
        BY <1>f, <3>1, <3>2, <3>3, <4>1
      <4>2. CASE k # Len(nodes) + 1
        <5>1. k \in DOMAIN nodes /\ nodes'[k] = nodes[k]
          BY <1>f, <3>1, <4>2
        <5>2. Filing
          BY <1>1, <2>1 DEF Filing
        <5> QED
          BY <1>0, <5>1, <5>2 DEF LaidOut
      <4> QED
        BY <4>1, <4>2
    <3> QED
      BY <1>1, <3>4 DEF LaidOut
  <2>2. CASE then # "added"
    <3>1. nodes' = nodes /\ pos' = pos /\ (Filing' => Filing)
      BY <1>1, <2>2 DEF Filing
    <3>2. ASSUME NEW k \in DOMAIN nodes
          PROVE  /\ MetaLength <= nodes[k].offset
                 /\ nodes[k].offset + Len(nodes[k].bytes) <= Limit
                 /\ Filing => nodes[k].offset + Len(nodes[k].bytes) <= pos
      BY <1>0 DEF LaidOut
    <3> QED
      BY <3>1, <3>2 DEF LaidOut
  <2> QED
    BY <2>1, <2>2
<1> QED
  BY <1>0, <1>1, <1>3, <1>8, <1>9 DEF Typed, Stocked
LEMMA WriteMetaTyped == Typed /\ WriteMeta => Typed'
<1> SUFFICES ASSUME Typed, WriteMeta PROVE Typed'
  OBVIOUS
<1>0. TypeOK /\ Placed /\ LaidOut /\ Stocked
  BY DEF Typed
<1>1. /\ pc = "files" /\ then' = "build" /\ meta' \in [1..MetaLength -> Bytes]
      /\ UNCHANGED <<built, source, node, nodes, status, readErrors>>
      /\ work = << >>
  BY <1>0 DEF WriteMeta, file, Placed
<1>2. /\ buff \in Content /\ 0 \in 0..Limit /\ MetaLength \in Nat
      /\ Len(nodes) \in Nat /\ MaxFiles \in Nat
  BY <1>0, TypedFacts, InBounds
<1>3. /\ meta' \in Strings(MetaLength) /\ meta' \in Seq(Bytes) /\ Len(meta') = MetaLength
  <2>1. meta' \in Seq(Bytes) /\ Len(meta') = MetaLength
    BY <1>1, <1>2
  <2> QED
    BY <1>2, <2>1, StringsAre
<1>4. Len(nodes) <= MaxFiles
  BY <1>0, <1>1, <1>2 DEF Placed, Current
<1>5. CASE Move(0, buff) /\ work' = meta' /\ Goto("copy")
  <2>1. /\ files' \in [Ids -> Content \cup {Torn, None}] /\ in_store' \in SUBSET Ids
        /\ Stocked'
        /\ buff' \in Content /\ pos' = 0 /\ chunk_num' = Num(0)
        /\ chunk_num' \in Ids /\ failures' = failures
    BY <1>0, <1>2, <1>5, MoveTyped
  <2>2. TypeOK'
    BY <1>0, <1>1, <1>3, <1>5, <2>1 DEF TypeOK, Goto
  <2>3. ~Adding' /\ ~Filing' /\ Finishing' /\ Current' = 0 /\ pc' = "copy"
    BY <1>1, <1>5 DEF Adding, Filing, Finishing, Current, Goto
  <2>4. pos' + Len(work') = MetaLength /\ Len(nodes') + Current' <= MaxFiles
    BY <1>1, <1>2, <1>3, <1>4, <1>5, <2>1, <2>3
  <2>5. Placed'
    BY <1>1, <2>1, <2>3, <2>4 DEF Placed
  <2>6. LaidOut'
    BY <1>0, <1>1, <2>3 DEF LaidOut
  <2> QED
    BY <2>1, <2>2, <2>5, <2>6 DEF Typed
<1>6. CASE MoveFails(0, buff) /\ UNCHANGED <<pos, work>> /\ Goto("build")
  <2>1. /\ files' \in [Ids -> Content \cup {Torn, None}] /\ in_store' \in SUBSET Ids
        /\ Stocked'
        /\ buff' \in Content /\ chunk_num' \in Ids /\ failures' \in 0..MaxFailures
    BY <1>0, <1>2, <1>6, MoveFailsTyped
  <2>2. TypeOK'
    BY <1>0, <1>1, <1>3, <1>6, <2>1 DEF TypeOK, Goto
  <2>3. ~Adding' /\ ~Filing' /\ ~Finishing' /\ Current' = 0 /\ pc' = "build"
    BY <1>6 DEF Adding, Filing, Finishing, Current, Goto
  <2>4. Len(nodes') + Current' <= MaxFiles
    BY <1>1, <1>2, <1>4, <2>3
  <2>5. Placed'
    BY <2>3, <2>4 DEF Placed
  <2>6. LaidOut'
    BY <1>0, <1>1, <2>3 DEF LaidOut
  <2> QED
    BY <2>1, <2>2, <2>5, <2>6 DEF Typed
<1> QED
  BY <1>5, <1>6 DEF WriteMeta

(* The last steps: the position and the files laid out no longer change.   *)
LEMMA LastPlaced ==
  ASSUME Typed, pc \in {"build", "destroy", "exit"}, nodes' = nodes,
         pc' \in {"destroy", "exit", "serving", "throws"}
  PROVE  Placed' /\ LaidOut'
<1>0. Placed /\ LaidOut
  BY DEF Typed
<1>1. ~Adding' /\ ~Filing' /\ ~Finishing' /\ Current' = 0 /\ Current = 0
  BY DEF Adding, Filing, Finishing, Current
<1>2. Len(nodes') + Current' <= MaxFiles
  BY <1>0, <1>1 DEF Placed
<1>3. Placed'
  BY <1>1, <1>2 DEF Placed
<1>4. LaidOut'
  BY <1>0, <1>1 DEF LaidOut
<1> QED
  BY <1>3, <1>4

LEMMA BuildTyped == Typed /\ Build => Typed'
<1> SUFFICES ASSUME Typed, Build PROVE Typed'
  OBVIOUS
<1>0. TypeOK /\ Stocked
  BY DEF Typed
<1>1. /\ pc = "build" /\ pc' = "destroy" /\ status' = "ok"
      /\ \/ Stored(buff) /\ built' = TRUE /\ UNCHANGED failures
         \/ StoreFails /\ UNCHANGED built
      /\ UNCHANGED <<buff, pos, chunk_num>>
      /\ UNCHANGED <<work, then, source, node, nodes, meta, readErrors>>
  BY DEF Build, Goto, builder, file
<1>2. buff \in Content
  BY <1>0 DEF TypeOK
<1>3. /\ files' \in [Ids -> Content \cup {Torn, None}] /\ in_store' \in SUBSET Ids
      /\ Stocked' /\ failures' \in 0..MaxFailures /\ built' \in BOOLEAN
  <2>1. CASE Stored(buff) /\ built' = TRUE /\ UNCHANGED failures
    BY <1>0, <1>2, <2>1, StoredTyped DEF TypeOK, Stocked
  <2>2. CASE StoreFails /\ UNCHANGED built
    BY <1>0, <2>2, StoreFailsTyped DEF TypeOK, Stocked
  <2> QED
    BY <1>1, <2>1, <2>2
<1>4. TypeOK'
  BY <1>0, <1>1, <1>3 DEF TypeOK
<1> QED
  BY <1>1, <1>3, <1>4, LastPlaced DEF Typed

LEMMA DestroyTyped == Typed /\ Destroy => Typed'
<1> SUFFICES ASSUME Typed, Destroy PROVE Typed'
  OBVIOUS
<1>0. TypeOK /\ Stocked
  BY DEF Typed
<1>1. /\ pc = "destroy" /\ pc' = "exit"
      /\ UNCHANGED <<buff, pos, chunk_num>>
      /\ UNCHANGED <<built, work, then, source, node, nodes, meta, status, readErrors>>
  BY DEF Destroy, Goto, builder, file
<1>2. /\ files' \in [Ids -> Content \cup {Torn, None}] /\ in_store' \in SUBSET Ids
      /\ Stocked' /\ failures' \in 0..MaxFailures
  <2>1. CASE UNCHANGED <<store, failures>>
    BY <1>0, <2>1 DEF store, TypeOK, Stocked
  <2>2. CASE \E kept \in SUBSET in_store :
               /\ failures' = failures + Cardinality(kept)
               /\ failures' <= MaxFailures
               /\ files' = [i \in Ids |-> IF i \in in_store \ kept THEN None ELSE files[i]]
               /\ in_store' = kept
    <3>1. PICK kept \in SUBSET in_store :
               /\ failures' = failures + Cardinality(kept)
               /\ failures' <= MaxFailures
               /\ files' = [i \in Ids |-> IF i \in in_store \ kept THEN None ELSE files[i]]
               /\ in_store' = kept
      BY <2>2
    <3>2. kept \in SUBSET Ids
      BY <1>0 DEF TypeOK
    <3>3. Cardinality(kept) \in Nat
      BY <3>2, IdsAre, FS_Subset, FS_CardinalityType
    <3>4. failures \in Nat /\ MaxFailures \in Nat
      BY <1>0, BoundsAssumption DEF TypeOK
    <3>5. failures' \in 0..MaxFailures
      BY <3>1, <3>3, <3>4
    <3>6. files' \in [Ids -> Content \cup {Torn, None}]
      BY <1>0, <3>1 DEF TypeOK
    <3>7. Stocked'
      BY <1>0, <3>1, <3>2 DEF Stocked
    <3> QED
      BY <3>1, <3>2, <3>5, <3>6, <3>7
  <2> QED
    BY <2>1, <2>2 DEF Destroy
<1>3. TypeOK'
  BY <1>0, <1>1, <1>2 DEF TypeOK
<1> QED
  BY <1>1, <1>2, <1>3, LastPlaced DEF Typed

LEMMA ServeTyped == Typed /\ Serve => Typed'
<1> SUFFICES ASSUME Typed, Serve PROVE Typed'
  OBVIOUS
<1>0. TypeOK
  BY DEF Typed
<1>1. /\ pc = "exit" /\ pc' \in {"serving", "throws"}
      /\ in_store' = OnDisk
      /\ UNCHANGED <<files, buff, pos, chunk_num>>
      /\ UNCHANGED <<built, work, then, source, node, nodes, meta, status, failures, readErrors>>
  BY DEF Serve, Goto, builder, file, OnDisk
<1>2. OnDisk \in SUBSET Ids /\ Stocked'
  BY <1>1 DEF OnDisk, Stocked
<1>3. TypeOK'
  BY <1>0, <1>1, <1>2 DEF TypeOK
<1> QED
  BY <1>1, <1>2, <1>3, LastPlaced DEF Typed

LEMMA IdleTyped == Typed /\ UNCHANGED vars => Typed'
  BY DEF vars, Typed, TypeOK, Placed, LaidOut, Stocked, Adding, Filing, Finishing, Current

LEMMA NextTyped == Typed /\ [Next]_vars => Typed'
  BY ReserveTyped, AddFileTyped, ReadTyped, ReadErrorTyped, CopyTyped, CopiedTyped,
     WriteMetaTyped, BuildTyped, DestroyTyped, ServeTyped, IdleTyped DEF Next, Ended

(* The builder never holds a chunk, writes a position or stores an id that *)
(* the directory has no room for, whatever fails: the bounds on pos and    *)
(* chunk_num that the loop of write_data never checks.                     *)
THEOREM TypeCorrect == Spec => []TypeOK
<1>1. Typed => TypeOK
  BY DEF Typed
<1> QED
  BY <1>1, InitTyped, NextTyped, PTL DEF Spec
----------------------------------------------------------------------------
LEMMA FiniteParts ==
  ASSUME NEW S \in SUBSET Ids
  PROVE  IsFiniteSet(S) /\ Cardinality(S) \in Nat
  BY IdsAre, FS_Subset, FS_CardinalityType

(* What a step of the builder does to the files that in_store ignores.     *)
LEMMA MoveGhosts ==
  ASSUME TypeOK, NEW to, NEW chunk, Move(to, chunk)
  PROVE  failures' = failures /\ Ghosts' \subseteq Ghosts
<1>1. CASE UNCHANGED store
  BY <1>1 DEF Move, Ghosts, store
<1>2. CASE Stored(chunk)
  BY <1>2 DEF Move, Ghosts, Stored, TypeOK
<1> QED
  BY <1>1, <1>2 DEF Move, store

LEMMA StoreFailsGhosts ==
  ASSUME TypeOK, StoreFails
  PROVE  failures' = failures + 1 /\ Ghosts' \subseteq Ghosts \cup {chunk_num}
  BY DEF StoreFails, Fails, Ghosts, TypeOK

LEMMA MoveFailsGhosts ==
  ASSUME TypeOK, NEW to, NEW chunk, MoveFails(to, chunk)
  PROVE  \/ failures' = failures + 1 /\ Ghosts' \subseteq Ghosts \cup {chunk_num}
         \/ failures' = failures /\ Ghosts' \subseteq Ghosts
<1>1. CASE StoreFails
  BY <1>1, StoreFailsGhosts
<1>2. CASE Stored(chunk) /\ failures' \in {failures, failures + 1}
  BY <1>2 DEF Ghosts, Stored, TypeOK
<1> QED
  BY <1>1, <1>2 DEF MoveFails

LEMMA StepGhosts ==
  ASSUME TypeOK, [Next]_vars, ~Destroy, ~Serve
  PROVE  \/ failures' = failures + 1 /\ Ghosts' \subseteq Ghosts \cup {chunk_num}
         \/ failures' = failures /\ Ghosts' \subseteq Ghosts
<1>1. CASE Reserve
  BY <1>1, MoveGhosts, MoveFailsGhosts DEF Reserve
<1>2. CASE Copy
  BY <1>2, MoveGhosts, MoveFailsGhosts, CopyIs
<1>3. CASE WriteMeta
  BY <1>3, MoveGhosts, MoveFailsGhosts DEF WriteMeta
<1>4. CASE Build
  <2>1. CASE Stored(buff) /\ UNCHANGED failures
    BY <2>1 DEF Stored, Ghosts, TypeOK
  <2> QED
    BY <1>4, <2>1, StoreFailsGhosts DEF Build
<1>5. CASE AddFile \/ Read \/ ReadError \/ Copied
  BY <1>5 DEF AddFile, Read, ReadError, Copied, Ghosts, store
<1>6. CASE UNCHANGED vars \/ Ended
  BY <1>6 DEF vars, Ended, Ghosts
<1> QED
  BY <1>1, <1>2, <1>3, <1>4, <1>5, <1>6 DEF Next

LEMMA InitAccounted == Init => Accounted
<1> SUFFICES ASSUME Init PROVE Accounted
  OBVIOUS
<1>1. Ghosts = {}
  BY DEF Init, Ghosts
<1> QED
  BY <1>1, FS_EmptySet DEF Init, Accounted

LEMMA NextAccounted == Typed /\ Accounted /\ [Next]_vars => Accounted'
<1> SUFFICES ASSUME Typed, Accounted, [Next]_vars PROVE Accounted'
  OBVIOUS
<1>0. TypeOK /\ failures \in Nat /\ Ghosts \in SUBSET Ids /\ OnDisk \in SUBSET Ids
  BY DEF Typed, TypeOK, Ghosts, OnDisk
<1>1. CASE Destroy
  <2>0. pc = "destroy" /\ pc' = "exit" /\ built' = built
    BY <1>1 DEF Destroy, Goto
  <2>1. CASE built
    BY <2>0, <2>1 DEF Accounted
  <2>2. CASE ~built
    <3>1. PICK kept \in SUBSET in_store :
            /\ failures' = failures + Cardinality(kept)
            /\ files' = [i \in Ids |-> IF i \in in_store \ kept THEN None ELSE files[i]]
      BY <1>1, <2>2 DEF Destroy
    <3>2. kept \in SUBSET Ids
      BY <1>0 DEF TypeOK
    <3>3. OnDisk' \subseteq Ghosts \cup kept
      BY <3>1 DEF OnDisk, Ghosts
    <3>4. /\ IsFiniteSet(Ghosts) /\ IsFiniteSet(kept)
          /\ Cardinality(Ghosts) \in Nat /\ Cardinality(kept) \in Nat
          /\ Cardinality(Ghosts \cap kept) \in Nat
      <4>1. Ghosts \cap kept \in SUBSET Ids
        BY <1>0
      <4> QED
        BY <1>0, <3>2, <4>1, FiniteParts
    <3>5. /\ IsFiniteSet(Ghosts \cup kept)
          /\ Cardinality(Ghosts \cup kept)
               = Cardinality(Ghosts) + Cardinality(kept) - Cardinality(Ghosts \cap kept)
      BY <3>4, FS_Union
    <3>6. Cardinality(OnDisk') <= Cardinality(Ghosts \cup kept) /\ Cardinality(OnDisk') \in Nat
      BY <3>3, <3>5, FS_Subset, FS_CardinalityType
    <3>7. Cardinality(Ghosts) <= failures
      BY <2>0 DEF Accounted
    <3>8. Cardinality(OnDisk') <= failures'
      BY <1>0, <3>1, <3>4, <3>5, <3>6, <3>7
    <3> QED
      BY <2>0, <3>8 DEF Accounted
  <2> QED
    BY <2>1, <2>2
<1>2. CASE Serve
  BY <1>2 DEF Serve, Goto, Accounted
<1>3. CASE ~Destroy /\ ~Serve
  <2>1. \/ failures' = failures + 1 /\ Ghosts' \subseteq Ghosts \cup {chunk_num}
        \/ failures' = failures /\ Ghosts' \subseteq Ghosts
    BY <1>0, <1>3, StepGhosts
  <2>2. /\ IsFiniteSet(Ghosts) /\ Cardinality(Ghosts) \in Nat
        /\ IsFiniteSet(Ghosts \cup {chunk_num})
        /\ Cardinality(Ghosts \cup {chunk_num}) \in Nat
        /\ Cardinality(Ghosts \cup {chunk_num}) <= Cardinality(Ghosts) + 1
    BY <1>0, FiniteParts, FS_AddElement, FS_CardinalityType
  <2>3. Cardinality(Ghosts) <= failures => Cardinality(Ghosts') <= failures'
    <3>1. CASE failures' = failures + 1 /\ Ghosts' \subseteq Ghosts \cup {chunk_num}
      <4>1. Cardinality(Ghosts') <= Cardinality(Ghosts \cup {chunk_num}) /\ Cardinality(Ghosts') \in Nat
        BY <2>2, <3>1, FS_Subset, FS_CardinalityType
      <4> QED
        BY <1>0, <2>2, <3>1, <4>1
    <3>2. CASE failures' = failures /\ Ghosts' \subseteq Ghosts
      <4>1. Cardinality(Ghosts') <= Cardinality(Ghosts) /\ Cardinality(Ghosts') \in Nat
        BY <2>2, <3>2, FS_Subset, FS_CardinalityType
      <4> QED
        BY <1>0, <2>2, <3>2, <4>1
    <3> QED
      BY <2>1, <3>1, <3>2
  <2>4. \/ UNCHANGED vars
        \/ pc \notin {"exit", "serving", "throws"} /\ pc' \notin {"exit", "serving", "throws"}
    <3>1. CASE Copied
      BY <3>1, <1>0 DEF Copied, Goto, TypeOK
    <3>2. CASE Copy
      BY <3>2, CopyIs DEF Abort, Goto
    <3> QED
      BY <1>3, <3>1, <3>2 DEF Next, Ended, Reserve, AddFile, Read, ReadError, WriteMeta, Build,
                              Abort, Goto
  <2>5. CASE UNCHANGED vars
    BY <2>5 DEF vars, Accounted, Ghosts, OnDisk
  <2>6. CASE pc \notin {"exit", "serving", "throws"} /\ pc' \notin {"exit", "serving", "throws"}
    BY <2>3, <2>6 DEF Accounted
  <2> QED
    BY <2>4, <2>5, <2>6
<1> QED
  BY <1>1, <1>2, <1>3

(* A failed build leaves at most one file per call of the store that       *)
(* failed, whatever the store held before: nothing of the new image and    *)
(* nothing of the old one otherwise.                                       *)
THEOREM LeftoversAreFailuresHolds == Spec => []LeftoversAreFailures
<1>1. Accounted => LeftoversAreFailures
  BY DEF Accounted, LeftoversAreFailures, OnDisk
<1> QED
  BY <1>1, InitTyped, NextTyped, InitAccounted, NextAccounted, PTL DEF Spec
----------------------------------------------------------------------------
(* Without a failing call and with readable chunks, move_pos succeeds.     *)
LEMMA NoMoveFails ==
  ASSUME TypeOK, failures' = 0, Readable', NEW to \in 0..Limit, NEW chunk, MoveFails(to, chunk)
  PROVE  FALSE
<1>1. failures \in Nat /\ failures + 1 # 0
  BY DEF TypeOK
<1>2. ~StoreFails
  BY <1>1 DEF StoreFails, Fails
<1>3. /\ chunk_num' = Num(to)
      /\ failures' = IF files'[chunk_num'] = Torn THEN failures ELSE failures + 1
  BY <1>2 DEF MoveFails, Num
<1>4. chunk_num' \in Ids
  BY <1>3, IdsAre
<1> QED
  BY <1>1, <1>3, <1>4 DEF Readable

LEMMA FailuresGrow ==
  ASSUME Typed, [Next]_vars, failures' = 0
  PROVE  failures = 0
<1>0. TypeOK /\ failures \in Nat
  BY DEF Typed, TypeOK
<1>1. CASE Destroy
  <2>1. CASE UNCHANGED failures
    BY <2>1
  <2>2. CASE \E kept \in SUBSET in_store : failures' = failures + Cardinality(kept)
    <3>1. PICK kept \in SUBSET in_store : failures' = failures + Cardinality(kept)
      BY <2>2
    <3>2. Cardinality(kept) \in Nat
      BY <1>0, FiniteParts DEF TypeOK
    <3> QED
      BY <1>0, <3>1, <3>2
  <2> QED
    BY <1>1, <2>1, <2>2 DEF Destroy
<1>2. CASE Serve
  BY <1>2 DEF Serve
<1>3. CASE ~Destroy /\ ~Serve
  BY <1>0, <1>3, StepGhosts
<1> QED
  BY <1>1, <1>2, <1>3

(* Every chunk that is on disk is in in_store.                             *)
Known == \A i \in Ids : files[i] # None => i \in in_store

(* move_pos with chunk in buff: what can be read of the image goes on      *)
(* being read, for the chunk that is left is stored and the one that is    *)
(* entered is brought back.                                                *)
LEMMA MoveKeeps ==
  ASSUME TypeOK, Stocked, Known, failures = 0, Readable',
         NEW to \in 0..Limit, NEW chunk \in Content, Move(to, chunk)
  PROVE  /\ Known'
         /\ \A p \in 0..Limit : \A b :
              Reads([files EXCEPT ![chunk_num] = chunk], p, b) => Reads(Image', p, b)
<1> DEFINE after == [files EXCEPT ![chunk_num] = chunk]
<1>1. /\ chunk_num' = Num(to) /\ failures' = 0
      /\ Num(to) = chunk_num => buff' = chunk /\ UNCHANGED store
      /\ Num(to) # chunk_num =>
           /\ Stored(chunk)
           /\ IF chunk_num' \in in_store' THEN buff' = files'[chunk_num'] ELSE buff' = chunk
  BY DEF Move, Num
<1>2. /\ files \in [Ids -> Content \cup {Torn, None}] /\ chunk_num \in Ids
      /\ chunk_num' \in Ids
  BY <1>1, IdsAre DEF TypeOK
<1>3. chunk # None /\ None \notin Content
  BY ContentAssumption
<1>4. CASE Num(to) = chunk_num
  <2>1. files' = files /\ in_store' = in_store /\ Image' = after
    BY <1>1, <1>4 DEF Image, store
  <2> QED
    BY <2>1 DEF Known
<1>5. CASE Num(to) # chunk_num
  <2>1. files' = after /\ in_store' = in_store \cup {chunk_num}
    <3>1. files'[chunk_num] # Torn
      BY <1>1, <1>2 DEF Readable
    <3> QED
      BY <1>1, <1>2, <1>5, <3>1 DEF Stored
  <2>2. Known'
    BY <1>2, <2>1 DEF Known
  <2>3. ASSUME NEW i \in Ids, after[i] \in Content
        PROVE  Image'[i] = after[i]
    <3>1. files' \in [Ids -> Content \cup {Torn, None}]
      BY <1>2, <2>1
    <3>2. i \in in_store'
      BY <1>2, <1>3, <2>1, <2>2, <2>3 DEF Known
    <3>3. CASE i = chunk_num'
      BY <1>1, <1>2, <1>5, <2>1, <3>1, <3>2, <3>3 DEF Image
    <3>4. CASE i # chunk_num'
      BY <1>2, <2>1, <3>1, <3>4 DEF Image
    <3> QED
      BY <3>3, <3>4
  <2> HIDE DEF after
  <2>4. ASSUME NEW p \in 0..Limit, NEW b, Reads(after, p, b)
        PROVE  Reads(Image', p, b)
    <3>1. Num(p) \in Ids /\ after[Num(p)] \in Content
      BY <2>4, IdsAre DEF Reads
    <3>2. Image'[Num(p)] = after[Num(p)]
      BY <2>3, <3>1
    <3> QED
      BY <2>4, <3>2 DEF Reads
  <2> QED
    BY <2>2, <2>4 DEF after
<1> QED
  BY <1>4, <1>5

(* One turn of write_data puts the bytes where the position is, and        *)
(* nowhere else.                                                           *)
LEMMA TurnWrites ==
  ASSUME TypeOK, work # << >>, chunk_num = Num(pos)
  PROVE  /\ \A p \in 0..Limit : \A b :
              Reads(Image, p, b) /\ (p < pos \/ pos + Turn <= p) =>
                Reads([files EXCEPT ![chunk_num] = Filled], p, b)
         /\ \A j \in 0..(Turn - 1) :
              Reads([files EXCEPT ![chunk_num] = Filled], pos + j, work[j + 1])
<1> DEFINE after == [files EXCEPT ![chunk_num] = Filled]
<1>1. /\ Turn \in Nat /\ Turn \in 0..(ChunkSize - At(pos))
      /\ Filled \in Content
      /\ \A j \in 0..(Turn - 1) : Filled[At(pos) + j] = work[j + 1]
      /\ \A k \in 0..(ChunkSize - 1) :
           k \notin At(pos)..(At(pos) + Turn - 1) => Filled[k] = buff[k]
  <2>1. Turn \in 1..Len(work) /\ Len(work) \in Nat
    BY TurnIs, TypedFacts
  <2> QED
    BY <2>1, TurnIs
<1>2. /\ files \in [Ids -> Content \cup {Torn, None}] /\ chunk_num \in Ids /\ pos \in Nat
      /\ Limit \in Nat
  BY Rooms DEF TypeOK
<1>3. /\ \A i \in Ids : i # chunk_num => after[i] = files[i] /\ Image[i] = files[i]
      /\ after[chunk_num] = Filled /\ Image[chunk_num] = buff
  BY <1>2 DEF Image
<1> HIDE DEF after
<1>4. ASSUME NEW p \in 0..Limit, NEW b, Reads(Image, p, b), p < pos \/ pos + Turn <= p
      PROVE  Reads(after, p, b)
  <2>1. Num(p) \in Ids /\ p \in Nat /\ At(p) \in 0..(ChunkSize - 1) /\ At(pos) \in Nat
    <3>1. p \in Nat /\ Num(p) \in Ids
      BY <1>2, IdsAre
    <3>2. At(p) \in 0..(ChunkSize - 1) /\ At(pos) \in 0..(ChunkSize - 1) /\ ChunkSize \in Nat
      BY <1>2, <3>1, NumAt, SizeAssumption
    <3> QED
      BY <3>1, <3>2
  <2>2. CASE Num(p) # chunk_num
    BY <1>3, <1>4, <2>1, <2>2 DEF Reads
  <2>3. CASE Num(p) = chunk_num
    <3>1. At(p) - At(pos) = p - pos
      BY <1>2, <2>1, <2>3, SamePlace
    <3>2. At(p) \notin At(pos)..(At(pos) + Turn - 1)
      BY <1>1, <1>2, <1>4, <2>1, <3>1
    <3>3. Filled[At(p)] = buff[At(p)]
      BY <1>1, <2>1, <3>2
    <3> QED
      BY <1>1, <1>3, <1>4, <2>3, <3>3 DEF Reads
  <2> QED
    BY <2>2, <2>3
<1>5. ASSUME NEW j \in 0..(Turn - 1)
      PROVE  Reads(after, pos + j, work[j + 1])
  <2>1. Num(pos + j) = chunk_num /\ At(pos + j) = At(pos) + j
    BY <1>1, <1>2, WithinChunk
  <2> QED
    BY <1>1, <1>3, <2>1 DEF Reads
<1> QED
  BY <1>4, <1>5 DEF after
----------------------------------------------------------------------------
LEMMA HoldsIs ==
  ASSUME NEW image, NEW offset, NEW bytes
  PROVE  Holds(image, offset, bytes) <=>
           \A k \in DOMAIN bytes : Reads(image, offset + k - 1, bytes[k])
  BY DEF Holds, Reads, Num, At

(* A string all of which was written can be read.                          *)
LEMMA Arrived ==
  ASSUME NEW image, NEW at \in Nat, NEW todo, NEW offset \in Nat, NEW bytes \in Seq(Bytes),
         InTransit(image, at, todo, offset, bytes), offset + Len(bytes) <= at
  PROVE  Holds(image, offset, bytes)
<1> SUFFICES ASSUME NEW k \in DOMAIN bytes
             PROVE  Reads(image, offset + k - 1, bytes[k])
  BY HoldsIs
<1>1. k \in 1..Len(bytes) /\ Len(bytes) \in Nat
  OBVIOUS
<1>2. offset + k - 1 < at
  BY <1>1
<1> QED
  BY <1>2 DEF InTransit

LEMMA CopyKeeps ==
  ASSUME Typed, Known, failures = 0, Readable', pc = "copy", work # << >>,
         Move(pos + Turn, Filled)
  PROVE  /\ Known'
         /\ \A p \in 0..Limit : \A b :
              Reads(Image, p, b) /\ (p < pos \/ pos + Turn <= p) => Reads(Image', p, b)
         /\ \A j \in 0..(Turn - 1) : Reads(Image', pos + j, work[j + 1])
<1>1. TypeOK /\ Stocked /\ chunk_num = Num(pos)
  BY DEF Typed, Placed
<1>2. /\ pos \in Nat /\ Len(work) \in Nat /\ Limit \in Nat
      /\ pos + Len(work) \in 0..Limit
  BY <1>1, TypedFacts, InBounds, Rooms
<1>3. Turn \in 1..Len(work) /\ Filled \in Content
  BY <1>1, TurnIs
<1>4. /\ pos + Turn \in 0..Limit
      /\ \A j \in 0..(Turn - 1) : pos + j \in 0..Limit
  BY <1>2, <1>3
<1>5. /\ Known'
      /\ \A p \in 0..Limit : \A b :
           Reads([files EXCEPT ![chunk_num] = Filled], p, b) => Reads(Image', p, b)
  BY <1>1, <1>3, <1>4, MoveKeeps
<1>6. /\ \A p \in 0..Limit : \A b :
           Reads(Image, p, b) /\ (p < pos \/ pos + Turn <= p) =>
             Reads([files EXCEPT ![chunk_num] = Filled], p, b)
      /\ \A j \in 0..(Turn - 1) :
           Reads([files EXCEPT ![chunk_num] = Filled], pos + j, work[j + 1])
  BY <1>1, TurnWrites
<1> QED
  BY <1>4, <1>5, <1>6

(* What is being written moves on from the string to the image.            *)
LEMMA TransitKept ==
  ASSUME Typed, Known, failures = 0, Readable', pc = "copy", work # << >>,
         Move(pos + Turn, Filled), work' = SubSeq(work, Turn + 1, Len(work)),
         NEW offset \in Nat, NEW bytes \in Seq(Bytes),
         offset + Len(bytes) = pos + Len(work),
         InTransit(Image, pos, work, offset, bytes)
  PROVE  InTransit(Image', pos', work', offset, bytes)
<1>1. /\ pos \in Nat /\ work \in Seq(Bytes) /\ Len(work) \in Nat /\ Limit \in Nat
      /\ pos + Len(work) \in 0..Limit
  BY TypedFacts, InBounds, Rooms DEF Typed
<1>2. Turn \in 1..Len(work) /\ Turn \in 0..Len(work)
  <2>1. Turn \in 1..Len(work)
    BY TurnIs DEF Typed
  <2> QED
    BY <1>1, <2>1
<1>3. pos' = pos + Turn
  BY DEF Move
<1>4. \A m \in 1..(Len(work) - Turn) : work'[m] = work[m + Turn]
  BY <1>1, <1>2, Cut
<1> SUFFICES ASSUME NEW k \in DOMAIN bytes
             PROVE  IF offset + k - 1 < pos'
                    THEN Reads(Image', offset + k - 1, bytes[k])
                    ELSE bytes[k] = work'[offset + k - pos']
  BY DEF InTransit
<1>5. k \in 1..Len(bytes) /\ Len(bytes) \in Nat
  OBVIOUS
<1>6. IF offset + k - 1 < pos
      THEN Reads(Image, offset + k - 1, bytes[k])
      ELSE bytes[k] = work[offset + k - pos]
  BY DEF InTransit
<1>7. offset + k - 1 \in 0..Limit
  BY <1>1, <1>5
<1>a. /\ ~(offset + k - 1 < pos) /\ offset + k - 1 < pos + Turn =>
           /\ offset + k - 1 - pos \in 0..(Turn - 1)
           /\ pos + (offset + k - 1 - pos) = offset + k - 1
           /\ (offset + k - 1 - pos) + 1 = offset + k - pos
      /\ ~(offset + k - 1 < pos + Turn) =>
           /\ offset + k - (pos + Turn) \in 1..(Len(work) - Turn)
           /\ (offset + k - (pos + Turn)) + Turn = offset + k - pos
           /\ ~(offset + k - 1 < pos)
      /\ offset + k - 1 < pos => offset + k - 1 < pos + Turn
  <2> DEFINE l == Len(work)
             n == Len(bytes)
             t == Turn
  <2>1. /\ pos \in Nat /\ l \in Nat /\ t \in 1..l /\ k \in 1..n /\ n \in Nat
        /\ offset + n = pos + l /\ offset \in Nat
    BY <1>1, <1>2, <1>5
  <2> HIDE DEF l, n, t
  <2>2. ASSUME ~(offset + k - 1 < pos), offset + k - 1 < pos + t
        PROVE  /\ offset + k - 1 - pos \in 0..(t - 1)
               /\ pos + (offset + k - 1 - pos) = offset + k - 1
               /\ (offset + k - 1 - pos) + 1 = offset + k - pos
    BY ONLY <2>1, <2>2
  <2>3. ASSUME ~(offset + k - 1 < pos + t)
        PROVE  /\ offset + k - (pos + t) \in 1..(l - t)
               /\ (offset + k - (pos + t)) + t = offset + k - pos
               /\ ~(offset + k - 1 < pos)
    BY ONLY <2>1, <2>3
  <2>4. offset + k - 1 < pos => offset + k - 1 < pos + t
    BY ONLY <2>1
  <2> QED
    BY <2>2, <2>3, <2>4 DEF l, n, t
<1>8. CASE offset + k - 1 < pos
  <2>1. Reads(Image', offset + k - 1, bytes[k])
    BY <1>6, <1>7, <1>8, CopyKeeps
  <2>2. offset + k - 1 < pos'
    BY <1>1, <1>3, <1>5, <1>8, <1>a
  <2> QED
    BY <2>1, <2>2
<1>9. CASE ~(offset + k - 1 < pos) /\ offset + k - 1 < pos + Turn
  <2> DEFINE j == offset + k - 1 - pos
  <2>1. j \in 0..(Turn - 1) /\ pos + j = offset + k - 1 /\ j + 1 = offset + k - pos
    BY <1>1, <1>5, <1>9, <1>a
  <2> HIDE DEF j
  <2>2. Reads(Image', pos + j, work[j + 1])
    BY <2>1, CopyKeeps
  <2>3. bytes[k] = work[j + 1]
    BY <1>6, <1>9, <2>1
  <2>4. Reads(Image', offset + k - 1, bytes[k])
    BY <2>1, <2>2, <2>3
  <2> QED
    BY <1>3, <1>9, <2>4
<1>10. CASE ~(offset + k - 1 < pos + Turn)
  <2> DEFINE m == offset + k - pos'
  <2>1. m \in 1..(Len(work) - Turn) /\ m + Turn = offset + k - pos
    BY <1>1, <1>3, <1>5, <1>10, <1>a
  <2>2. ~(offset + k - 1 < pos) /\ ~(offset + k - 1 < pos')
    BY <1>1, <1>3, <1>5, <1>10, <1>a
  <2> HIDE DEF m
  <2>3. work'[m] = work[offset + k - pos]
    BY <1>4, <2>1
  <2>4. bytes[k] = work'[m]
    BY <1>6, <2>2, <2>3
  <2> QED
    BY <2>2, <2>4 DEF m
<1> QED
  BY <1>8, <1>9, <1>10

(* The files are kept by what keeps the positions that they take.          *)
LEMMA FilesStay ==
  ASSUME Typed, FilesIn(Image), NEW image,
         \A k \in DOMAIN nodes : \A p \in 0..Limit : \A b :
           nodes[k].offset <= p /\ p < nodes[k].offset + Len(nodes[k].bytes) /\ Reads(Image, p, b)
             => Reads(image, p, b)
  PROVE  \A k \in DOMAIN nodes : Holds(image, nodes[k].offset, nodes[k].bytes)
<1> SUFFICES ASSUME NEW k \in DOMAIN nodes, NEW m \in DOMAIN nodes[k].bytes
             PROVE  Reads(image, nodes[k].offset + m - 1, nodes[k].bytes[m])
  BY HoldsIs
<1> DEFINE offset == nodes[k].offset
           bytes == nodes[k].bytes
           p == offset + m - 1
<1>1. /\ offset \in Nat /\ bytes \in Seq(Bytes) /\ Len(bytes) \in Nat /\ Limit \in Nat
      /\ m \in 1..Len(bytes)
  <2>1. offset \in Nat /\ bytes \in Seq(Bytes) /\ Len(bytes) \in Nat
    BY TypedFacts DEF Typed
  <2>2. m \in 1..Len(bytes)
    BY <2>1
  <2> QED
    BY <2>1, <2>2, Rooms
<1>2. offset + Len(bytes) <= Limit
  BY DEF Typed, LaidOut
<1>3. Reads(Image, p, bytes[m])
  BY HoldsIs DEF FilesIn
<1> HIDE DEF offset, bytes
<1>4. p \in 0..Limit /\ offset <= p /\ p < offset + Len(bytes)
  BY <1>1, <1>2
<1> HIDE DEF p
<1>5. Reads(image, p, bytes[m])
  BY <1>3, <1>4 DEF offset, bytes
<1> QED
  BY <1>5 DEF p, offset, bytes
----------------------------------------------------------------------------
(* An undisturbed step keeps what a clean build has.                       *)
LEMMA MoveInPlaceKeeps ==
  ASSUME Typed, Known, failures = 0, Readable', FilesIn(Image), nodes' = nodes,
         NEW to \in 0..Limit, Move(to, buff)
  PROVE  Known' /\ FilesIn(Image)'
<1>1. TypeOK /\ Stocked /\ buff \in Content
  BY DEF Typed, TypeOK
<1>2. /\ Known'
      /\ \A p \in 0..Limit : \A b : Reads(Image, p, b) => Reads(Image', p, b)
  BY <1>1, MoveKeeps DEF Image
<1>3. \A k \in DOMAIN nodes : Holds(Image', nodes[k].offset, nodes[k].bytes)
  BY <1>2, FilesStay
<1> QED
  BY <1>2, <1>3 DEF FilesIn

LEMMA ReserveClean ==
  ASSUME Typed, Reserve, Clean, failures = 0, failures' = 0, Readable'
  PROVE  Clean'
<1>1. TypeOK /\ MetaLength \in 0..Limit
  BY Rooms DEF Typed
<1>2. /\ Move(MetaLength, buff) /\ pc' = "files" /\ nodes' = nodes
  BY <1>1, NoMoveFails DEF Reserve, Goto
<1>3. Known' /\ FilesIn(Image)'
  BY <1>1, <1>2, MoveInPlaceKeeps DEF Clean, Known
<1> QED
  BY <1>2, <1>3 DEF Clean, Known, Adding, Finishing, Finished

LEMMA AddFileClean ==
  ASSUME Typed, AddFile, Clean
  PROVE  Clean'
<1>1. /\ pc = "files" /\ pc' = "read" /\ node' = [offset |-> pos, bytes |-> << >>]
      /\ UNCHANGED <<files, in_store, buff, chunk_num, nodes>>
  BY DEF AddFile, Goto, store, builder
<1>2. InTransit(Image', pos', work', node'.offset, node'.bytes)
  BY <1>1 DEF InTransit
<1> QED
  BY <1>1, <1>2 DEF Clean, Finished, Finishing, Image, FilesIn

LEMMA ReadClean ==
  ASSUME Typed, Read, Clean
  PROVE  Clean'
<1> DEFINE n == Smaller(ChunkSize, Len(source))
<1>1. /\ pc = "read" /\ pc' = "copy" /\ then' # "build"
      /\ work' = SubSeq(source, 1, n)
      /\ node' = [node EXCEPT !.bytes = @ \o work']
      /\ UNCHANGED <<files, in_store, buff, pos, chunk_num, nodes>>
  BY DEF Read, Goto, store, builder
<1>f. /\ ChunkSize \in Nat \ {0} /\ source \in Seq(Bytes) /\ Len(source) \in Nat
      /\ node.bytes \in Seq(Bytes) /\ Len(node.bytes) \in Nat
      /\ pos \in Nat /\ node.offset \in Nat
  BY TypedFacts DEF Typed
<1>2. n \in 0..Len(source)
  BY <1>f DEF Smaller
<1> HIDE DEF n
<1>3. work' \in Seq(Bytes) /\ Len(work') = n
  BY <1>f, <1>1, <1>2, Cut
<1>4. node'.offset = node.offset /\ node'.bytes = node.bytes \o work'
  <2>1. node \in [offset : Nat, bytes : Strings(MaxFileLength)]
    BY DEF Typed, TypeOK, Node
  <2> QED
    BY <1>1, <2>1
<1>5. /\ node'.bytes \in Seq(Bytes) /\ Len(node'.bytes) = Len(node.bytes) + n
      /\ \A k \in 1..(Len(node.bytes) + n) :
           node'.bytes[k] = IF k <= Len(node.bytes) THEN node.bytes[k]
                                                    ELSE work'[k - Len(node.bytes)]
  <2>1. /\ node.bytes \o work' \in Seq(Bytes)
        /\ Len(node.bytes \o work') = Len(node.bytes) + Len(work')
        /\ \A k \in 1..(Len(node.bytes) + Len(work')) :
             (node.bytes \o work')[k] = IF k <= Len(node.bytes) THEN node.bytes[k]
                                                               ELSE work'[k - Len(node.bytes)]
    BY <1>f, <1>3, Joined
  <2> QED
    BY <1>3, <1>4, <2>1
<1>6. work = << >> /\ node.offset + Len(node.bytes) = pos + Len(work)
  BY <1>1 DEF Typed, Placed, Adding
<1>7. node.offset + Len(node.bytes) = pos
  BY <1>f, <1>6
<1>8. InTransit(Image, pos, work, node.offset, node.bytes)
  BY <1>1 DEF Clean, Adding
<1>9. InTransit(Image', pos', work', node'.offset, node'.bytes)
  <2> SUFFICES ASSUME NEW k \in DOMAIN node'.bytes
               PROVE  IF node.offset + k - 1 < pos
                      THEN Reads(Image, node.offset + k - 1, node'.bytes[k])
                      ELSE node'.bytes[k] = work'[node.offset + k - pos]
    BY <1>1, <1>4 DEF InTransit, Image
  <2>1. k \in 1..(Len(node.bytes) + n) /\ n \in Nat
    BY <1>2, <1>5, <1>f
  <2>2. CASE k <= Len(node.bytes)
    <3>1. k \in DOMAIN node.bytes /\ node.offset + k - 1 < pos
      BY <1>f, <1>7, <2>1, <2>2
    <3>2. Reads(Image, node.offset + k - 1, node.bytes[k])
      BY <1>8, <3>1 DEF InTransit
    <3> QED
      BY <1>5, <2>1, <2>2, <3>1, <3>2
  <2>3. CASE ~(k <= Len(node.bytes))
    <3>1. ~(node.offset + k - 1 < pos) /\ node.offset + k - pos = k - Len(node.bytes)
      BY <1>f, <1>7, <2>1, <2>3
    <3> QED
      BY <1>5, <2>1, <2>3, <3>1
  <2> QED
    BY <2>2, <2>3
<1> QED
  BY <1>1, <1>9 DEF Clean, Finished, Finishing, Image, FilesIn

LEMMA ReadErrorClean ==
  ASSUME Typed, ReadError, Clean
  PROVE  Clean'
<1>1. /\ pc = "read" /\ pc' \in {"dead", "copy"} /\ then' = "skipped"
      /\ UNCHANGED <<files, in_store, buff, chunk_num, nodes>>
  BY DEF ReadError, Goto, store, builder
<1> QED
  BY <1>1 DEF Clean, Adding, Finished, Finishing, Image, FilesIn

LEMMA CopyClean ==
  ASSUME Typed, Copy, Clean, failures = 0, failures' = 0, Readable'
  PROVE  Clean'
<1>1. /\ pc = "copy" /\ work # << >> /\ Known /\ TypeOK
      /\ UNCHANGED <<built, then, source, node, nodes, meta, readErrors>>
  BY CopyIs DEF Typed, Clean, Known
<1>2. /\ pos \in Nat /\ Len(work) \in Nat /\ Limit \in Nat
      /\ pos + Len(work) \in 0..Limit /\ MetaLength \in Nat
  BY <1>1, TypedFacts, InBounds, Rooms
<1>3. Turn \in 1..Len(work) /\ Filled \in Content /\ pos + Turn \in 0..Limit
  <2>1. Turn \in 1..Len(work) /\ Filled \in Content
    BY <1>1, TurnIs
  <2> QED
    BY <1>2, <2>1
<1>4. /\ Move(pos + Turn, Filled)
      /\ work' = SubSeq(work, Turn + 1, Len(work))
      /\ pc' = "copy"
  BY <1>1, <1>3, CopyIs, NoMoveFails
<1>5. /\ Known'
      /\ \A p \in 0..Limit : \A b :
           Reads(Image, p, b) /\ (p < pos \/ pos + Turn <= p) => Reads(Image', p, b)
  BY <1>1, <1>4, CopyKeeps
<1>6. FilesIn(Image)'
  <2>1. ASSUME NEW k \in DOMAIN nodes, NEW p \in 0..Limit, NEW b,
               nodes[k].offset <= p, p < nodes[k].offset + Len(nodes[k].bytes),
               Reads(Image, p, b)
        PROVE  Reads(Image', p, b)
    <3>1. nodes[k].offset \in Nat /\ Len(nodes[k].bytes) \in Nat /\ p \in Nat
      BY <1>1, <1>2, TypedFacts
    <3>2. CASE Filing
      <4>1. nodes[k].offset + Len(nodes[k].bytes) <= pos
        BY <3>2 DEF Typed, LaidOut
      <4>2. p < pos
        BY ONLY <1>2, <2>1, <3>1, <4>1
      <4> QED
        BY <1>5, <2>1, <4>2
    <3>3. CASE Finishing
      <4>1. pos + Len(work) = MetaLength /\ MetaLength <= nodes[k].offset
        BY <3>3 DEF Typed, Placed, LaidOut
      <4>2. pos + Turn <= p
        BY ONLY <1>2, <1>3, <2>1, <3>1, <4>1
      <4> QED
        BY <1>5, <2>1, <4>2
    <3> QED
      BY <1>1, <3>2, <3>3 DEF Filing, Finishing
  <2>2. \A k \in DOMAIN nodes : Holds(Image', nodes[k].offset, nodes[k].bytes)
    BY <2>1, FilesStay DEF Clean
  <2> QED
    BY <1>1, <2>2 DEF FilesIn
<1>7. Adding => InTransit(Image', pos', work', node.offset, node.bytes)
  <2>1. node.offset \in Nat /\ node.bytes \in Seq(Bytes)
    BY <1>1, TypedFacts
  <2>2. Adding => /\ node.offset + Len(node.bytes) = pos + Len(work)
                  /\ InTransit(Image, pos, work, node.offset, node.bytes)
    BY DEF Typed, Placed, Clean
  <2> QED
    BY <1>1, <1>4, <2>1, <2>2, TransitKept
<1>8. Finishing => InTransit(Image', pos', work', 0, meta)
  <2>1. meta \in Seq(Bytes)
    BY <1>1, <1>2, StringsAre DEF TypeOK
  <2>a. Finishing => /\ Len(meta) = pos + Len(work)
                     /\ InTransit(Image, pos, work, 0, meta)
    BY DEF Typed, Placed, Clean
  <2>2. Finishing => /\ 0 + Len(meta) = pos + Len(work)
                     /\ InTransit(Image, pos, work, 0, meta)
    BY <2>a, <1>2
  <2> QED
    BY <1>1, <1>4, <2>1, <2>2, TransitKept
<1>9. Adding' = Adding /\ Finishing' = Finishing /\ ~Finished'
  BY <1>1, <1>4 DEF Adding, Finishing, Finished
<1> QED
  BY <1>1, <1>4, <1>5, <1>6, <1>7, <1>8, <1>9 DEF Clean, Known
LEMMA CopiedClean ==
  ASSUME Typed, Copied, Clean
  PROVE  Clean'
<1>1. /\ pc = "copy" /\ work = << >>
      /\ pc' = IF then \in {"added", "skipped"} THEN "files" ELSE then
      /\ nodes' = IF then = "added" THEN Append(nodes, node) ELSE nodes
      /\ UNCHANGED <<files, in_store, buff, pos, chunk_num>>
      /\ UNCHANGED <<work, then, node, meta>>
  BY DEF Copied, Goto, store, builder, file
<1>f. /\ pos \in Nat /\ Len(nodes) \in Nat /\ nodes \in Seq(Node) /\ node \in Node
      /\ node.offset \in Nat /\ node.bytes \in Seq(Bytes) /\ Len(node.bytes) \in Nat
      /\ then \in {"read", "added", "skipped", "build"} /\ meta \in Seq(Bytes)
      /\ MetaLength \in Nat /\ Len(work) = 0
  <2>1. TypeOK /\ MetaLength \in Nat
    BY SizeAssumption DEF Typed
  <2>2. meta \in Seq(Bytes)
    BY <2>1, StringsAre DEF TypeOK
  <2> QED
    BY <1>1, <2>1, <2>2, TypedFacts DEF TypeOK
<1>2. FilesIn(Image) /\ Known /\ Image' = Image /\ Known'
  BY <1>1 DEF Clean, Known, Image
<1>3. Adding => /\ InTransit(Image, pos, work, node.offset, node.bytes)
                /\ node.offset + Len(node.bytes) = pos + Len(work)
  BY DEF Clean, Typed, Placed
<1>4. FilesIn(Image)'
  <2>1. CASE then = "added"
    <3>1. node.offset + Len(node.bytes) <= pos /\ InTransit(Image, pos, work, node.offset, node.bytes)
      BY <1>1, <1>3, <1>f, <2>1 DEF Adding
    <3>2. Holds(Image, node.offset, node.bytes)
      BY <1>f, <3>1, Arrived
    <3>3. /\ DOMAIN nodes' = 1..(Len(nodes) + 1) /\ nodes'[Len(nodes) + 1] = node
          /\ \A k \in DOMAIN nodes : nodes'[k] = nodes[k]
          /\ DOMAIN nodes = 1..Len(nodes)
      BY <1>1, <1>f, <2>1
    <3>4. ASSUME NEW k \in DOMAIN nodes'
          PROVE  Holds(Image, nodes'[k].offset, nodes'[k].bytes)
      <4>1. CASE k = Len(nodes) + 1
        BY <3>2, <3>3, <4>1
      <4>2. CASE k # Len(nodes) + 1
        <5>1. k \in DOMAIN nodes /\ nodes'[k] = nodes[k]
          BY <1>f, <3>3, <4>2
        <5> QED
          BY <1>2, <5>1 DEF FilesIn
      <4> QED
        BY <4>1, <4>2
    <3> QED
      BY <1>2, <3>4 DEF FilesIn
  <2>2. CASE then # "added"
    BY <1>1, <1>2, <2>2 DEF FilesIn
  <2> QED
    BY <2>1, <2>2
<1>5. CASE then \in {"added", "skipped"}
  <2>1. pc' = "files"
    BY <1>1, <1>5
  <2> QED
    BY <1>2, <1>4, <2>1 DEF Clean, Known, Adding, Finishing, Finished
<1>6. CASE then = "read"
  <2>1. pc' = "read" /\ Adding
    BY <1>1, <1>6 DEF Adding
  <2> QED
    BY <1>1, <1>2, <1>3, <1>4, <2>1 DEF Clean, Known, Adding, Finishing, Finished
<1>7. CASE then = "build"
  <2>1. pc' = "build" /\ Finishing
    BY <1>1, <1>7 DEF Finishing
  <2>2. /\ InTransit(Image, pos, work, 0, meta) /\ Len(meta) = MetaLength
        /\ pos + Len(work) = MetaLength
    BY <2>1 DEF Clean, Typed, Placed
  <2>3. 0 + Len(meta) <= pos /\ Len(meta) = MetaLength
    BY <1>f, <2>2
  <2>4. Holds(Image, 0, meta)
    BY <1>f, <2>2, <2>3, Arrived
  <2> QED
    BY <1>1, <1>2, <1>4, <2>1, <2>3, <2>4 DEF Clean, Known, Adding, Finishing, Finished
<1> QED
  BY <1>f, <1>5, <1>6, <1>7

LEMMA WriteMetaClean ==
  ASSUME Typed, WriteMeta, Clean, failures = 0, failures' = 0, Readable'
  PROVE  Clean'
<1>1. TypeOK /\ 0 \in 0..Limit /\ MetaLength \in Nat
  BY Rooms, SizeAssumption DEF Typed
<1>2. /\ Move(0, buff) /\ pc' = "copy" /\ then' = "build" /\ nodes' = nodes
      /\ work' = meta' /\ meta' \in [1..MetaLength -> Bytes]
  BY <1>1, NoMoveFails DEF WriteMeta, Goto
<1>3. Known' /\ FilesIn(Image)'
  BY <1>1, <1>2, MoveInPlaceKeeps DEF Clean, Known
<1>4. Len(meta') = MetaLength /\ DOMAIN meta' = 1..MetaLength /\ pos' = 0
  BY <1>1, <1>2 DEF Move
<1>5. InTransit(Image', pos', work', 0, meta')
  <2>1. ASSUME NEW k \in 1..MetaLength
        PROVE  ~(0 + k - 1 < 0) /\ 0 + k - 0 = k
    BY <1>1
  <2> QED
    BY <1>2, <1>4, <2>1 DEF InTransit
<1> QED
  BY <1>2, <1>3, <1>4, <1>5 DEF Clean, Known, Adding, Finishing, Finished

LEMMA BuildClean ==
  ASSUME Typed, Build, Clean, failures = 0, failures' = 0, Readable'
  PROVE  Clean'
<1>1. /\ pc = "build" /\ pc' = "destroy"
      /\ Stored(buff) /\ built'
      /\ UNCHANGED <<buff, chunk_num, nodes, meta>>
  BY DEF Build, StoreFails, Fails, Goto, builder, file, Typed, TypeOK
<1>2. /\ files \in [Ids -> Content \cup {Torn, None}] /\ chunk_num \in Ids /\ buff \in Content
  BY DEF Typed, TypeOK
<1>3. files' = Image /\ in_store' = in_store \cup {chunk_num}
  <2>1. files'[chunk_num] # Torn
    BY <1>2 DEF Readable
  <2> QED
    BY <1>1, <1>2, <2>1 DEF Stored, Image
<1>4. Image' = Image
  BY <1>1, <1>2, <1>3 DEF Image
<1>5. \A i \in Ids : files'[i] # None => i \in in_store'
  BY <1>2, <1>3 DEF Clean, Image
<1>6. FilesIn(Image)' /\ FilesIn(files)'
  BY <1>1, <1>3, <1>4 DEF Clean, FilesIn
<1>7. Len(meta') = MetaLength /\ Holds(files', 0, meta')
  BY <1>1, <1>3 DEF Clean
<1> QED
  BY <1>1, <1>5, <1>6, <1>7 DEF Clean, Adding, Finishing, Finished

LEMMA DestroyClean ==
  ASSUME Typed, Destroy, Clean
  PROVE  Clean'
<1>1. /\ pc = "destroy" /\ pc' = "exit" /\ built /\ built'
      /\ UNCHANGED <<files, in_store, buff, chunk_num, nodes, meta>>
  BY DEF Destroy, Goto, store, builder, file, Clean, Finished
<1> QED
  BY <1>1 DEF Clean, Adding, Finishing, Finished, FilesIn, Image

LEMMA ServeClean ==
  ASSUME Typed, Serve, Clean
  PROVE  Clean'
<1>1. /\ pc = "exit" /\ pc' \in {"serving", "throws"} /\ in_store' = OnDisk
      /\ UNCHANGED <<built, files, buff, chunk_num, nodes, meta>>
  BY DEF Serve, Goto, builder, file, OnDisk
<1> QED
  BY <1>1 DEF Clean, Adding, Finishing, Finished, FilesIn, Image, OnDisk

LEMMA IdleClean ==
  ASSUME Clean, UNCHANGED vars
  PROVE  Clean'
  BY DEF vars, Clean, Adding, Finishing, Finished, FilesIn, Image

CleanInv == failures = 0 => Clean

LEMMA InitClean == Init => CleanInv
<1> SUFFICES ASSUME Init PROVE Clean
  BY DEF CleanInv
<1>1. \A i \in Ids : files[i] # None => i \in in_store
  BY DEF Init
<1>2. FilesIn(Image)
  BY DEF Init, FilesIn
<1> QED
  BY <1>1, <1>2 DEF Init, Clean, Adding, Finishing, Finished

LEMMA NextClean == Typed /\ Readable' /\ CleanInv /\ [Next]_vars => CleanInv'
<1> SUFFICES ASSUME Typed, Readable', CleanInv, [Next]_vars, failures' = 0
             PROVE  Clean'
  BY DEF CleanInv
<1>1. failures = 0 /\ Clean
  BY FailuresGrow DEF CleanInv
<1> QED
  BY <1>1, ReserveClean, AddFileClean, ReadClean, ReadErrorClean, CopyClean, CopiedClean,
     WriteMetaClean, BuildClean, DestroyClean, ServeClean, IdleClean DEF Next, Ended

LEMMA NextReadable ==
  ASSUME Incompressible = {}, Typed, Readable, [Next]_vars
  PROVE  Readable'
<1> SUFFICES ASSUME failures' = 0, NEW i \in Ids PROVE files'[i] # Torn
  BY DEF Readable
<1>1. failures = 0 /\ files[i] # Torn /\ files \in [Ids -> Content \cup {Torn, None}]
  BY FailuresGrow DEF Readable, Typed, TypeOK
<1>2. /\ Torn # None /\ Torn \notin Content /\ ~StoreFails
  BY <1>1, ContentAssumption DEF StoreFails, Fails
<1>3. ASSUME NEW chunk \in Content, Stored(chunk)
      PROVE  files'[i] # Torn
  BY <1>1, <1>2, <1>3 DEF Stored
<1>4. ASSUME NEW to, NEW chunk \in Content, Move(to, chunk) \/ MoveFails(to, chunk)
      PROVE  files'[i] # Torn
  BY <1>1, <1>2, <1>3, <1>4 DEF Move, MoveFails, store
<1>5. buff \in Content
  BY DEF Typed, TypeOK
<1>6. CASE Copy
  <2>1. Filled \in Content
    BY <1>6, TurnIs, CopyIs DEF Typed
  <2> QED
    BY <1>4, <1>6, <2>1, CopyIs
<1>7. CASE Reserve \/ WriteMeta
  BY <1>4, <1>5, <1>7 DEF Reserve, WriteMeta
<1>8. CASE Build
  BY <1>2, <1>3, <1>5, <1>8 DEF Build
<1>9. CASE Destroy
  BY <1>1, <1>2, <1>9 DEF Destroy, store
<1>10. CASE AddFile \/ Read \/ ReadError \/ Copied \/ Serve \/ Ended \/ UNCHANGED vars
  BY <1>1, <1>10 DEF AddFile, Read, ReadError, Copied, Serve, Ended, vars, store
<1> QED
  BY <1>6, <1>7, <1>8, <1>9, <1>10 DEF Next

(* Chunks that LZ4 never makes larger are always readable, so that the     *)
(* hypothesis of the theorems below holds of every directory of such       *)
(* chunks, whatever its size: write_chunk stores no empty file then.       *)
THEOREM CompressibleReadable == ASSUME Incompressible = {} PROVE Spec => []Readable
<1>1. Init => Readable
  BY ContentAssumption DEF Init, Readable
<1>2. Typed /\ Readable /\ [Next]_vars => Readable'
  BY NextReadable
<1> QED
  BY <1>1, <1>2, InitTyped, NextTyped, PTL DEF Spec

(* As long as no call of the store fails and every chunk on disk can be    *)
(* read back, no step of the builder spoils a byte of a file that was      *)
(* added: not the change of chunks, not the older image in the store, not  *)
(* a file that could not be read to its end, not the metadata that is      *)
(* written into the chunks of the first files at the end.                  *)
THEOREM FilesKeptHolds == Spec /\ []Readable => []FilesKept
<1>1. CleanInv => FilesKept
  BY DEF CleanInv, Clean, FilesKept, Image
<1> QED
  BY <1>1, InitTyped, NextTyped, InitClean, NextClean, PTL DEF Spec

(* Then what the process leaves on disk when it reports success is the     *)
(* whole image: the metadata at position 0 and every file at its offset.   *)
THEOREM CompleteHolds == Spec /\ []Readable => []CompleteIfUndisturbed
<1>1. CleanInv => CompleteIfUndisturbed
  BY DEF CleanInv, Clean, Finished, CompleteIfUndisturbed, CompleteWhenReported
<1> QED
  BY <1>1, InitTyped, NextTyped, InitClean, NextClean, PTL DEF Spec
----------------------------------------------------------------------------
(* Chunk numbers are naturals; move_pos stores the chunk that is left.     *)
LEMMA Stocks ==
  ASSUME TypeOK
  PROVE  /\ in_store \subseteq Nat /\ chunk_num \in Nat /\ Num(MetaLength) \in Nat
         /\ Num(0) = 0
<1>1. in_store \subseteq Nat /\ chunk_num \in Nat
  BY IdsAre DEF TypeOK
<1>2. Num(MetaLength) \in Nat
  BY NumAt, SizeAssumption
<1>3. Num(0) = 0
  BY SizeAssumption DEF Num
<1> QED
  BY <1>1, <1>2, <1>3

LEMMA MoveStocks ==
  ASSUME NEW to, NEW chunk, Move(to, chunk)
  PROVE  /\ chunk_num' = Num(to)
         /\ Num(to) = chunk_num => in_store' = in_store
         /\ Num(to) # chunk_num => in_store' = in_store \cup {chunk_num}
  BY DEF Move, Num, Stored, store

LEMMA ReserveGapless ==
  ASSUME Typed, Reserve, Gapless, failures' = 0, Readable'
  PROVE  Gapless'
<1>1. TypeOK /\ pc = "reserve" /\ chunk_num = 0 /\ MetaLength \in 0..Limit
  BY InBounds DEF Typed, Reserve, Placed
<1>2. Move(MetaLength, buff) /\ pc' = "files"
  BY <1>1, NoMoveFails DEF Reserve, Goto
<1>3. \A i \in in_store : 0..(i - 1) \subseteq in_store
  BY <1>1 DEF Gapless
<1>4. /\ in_store \subseteq Nat /\ Num(MetaLength) \in Nat
      /\ chunk_num' = Num(MetaLength) /\ in_store' \in {in_store, in_store \cup {0}}
  BY <1>1, <1>2, Stocks, MoveStocks
<1>5. NoHoleAbove(chunk_num)'
  <2> SUFFICES ASSUME NEW i \in in_store', NEW j \in 0..(i - 1), j \notin in_store
               PROVE  FALSE
    BY <1>4 DEF NoHoleAbove
  <2>1. CASE i \in in_store
    BY <1>3, <2>1
  <2>2. CASE i = 0
    BY <2>2
  <2> QED
    BY <1>4, <2>1, <2>2
<1>6. Num(MetaLength)..(chunk_num' - 1) = {}
  BY <1>4
<1> QED
  BY <1>2, <1>5, <1>6 DEF Gapless, Filing, Finishing, Finished

(* A step that does not touch the store, and the next phase it leads to.   *)
LEMMA SamePhaseGapless ==
  ASSUME Gapless, UNCHANGED <<in_store, chunk_num>>,
         \/ Filing /\ Filing'
         \/ Finishing /\ pc' = "build" /\ chunk_num = Num(MetaLength)
         \/ pc' = "dead"
  PROVE  Gapless'
<1>1. CASE Filing /\ Filing'
  <2>1. pc' \in {"files", "read", "copy"} /\ ~Finishing' /\ ~Finished'
    BY <1>1 DEF Filing, Finishing, Finished
  <2> QED
    BY <1>1, <2>1 DEF Gapless, NoHoleAbove
<1>2. CASE Finishing /\ pc' = "build" /\ chunk_num = Num(MetaLength)
  BY <1>2 DEF Gapless, NoHoleAbove, Filing, Finishing, Finished
<1>3. CASE pc' = "dead"
  BY <1>3 DEF Gapless, Filing, Finishing, Finished
<1> QED
  BY <1>1, <1>2, <1>3

LEMMA CopyGapless ==
  ASSUME Typed, Copy, Gapless, failures' = 0, Readable'
  PROVE  Gapless'
<1>1. TypeOK /\ pc = "copy" /\ work # << >> /\ then' = then
  BY CopyIs DEF Typed
<1>2. pos + Turn \in 0..Limit /\ Num(pos + Turn) \in {chunk_num, chunk_num + 1}
  <2>1. /\ pos \in Nat /\ Len(work) \in Nat /\ Limit \in Nat
        /\ pos + Len(work) \in 0..Limit /\ chunk_num = Num(pos)
    BY <1>1, TypedFacts, InBounds, Rooms DEF Typed, Placed
  <2>2. Turn \in 1..Len(work) /\ Turn \in 0..(ChunkSize - At(pos))
    BY <1>1, TurnIs
  <2>3. pos + Turn \in 0..Limit
    BY ONLY <2>1, <2>2
  <2> QED
    BY <2>1, <2>2, <2>3, NextChunk
<1>3. Move(pos + Turn, Filled) /\ pc' = "copy"
  BY <1>1, <1>2, CopyIs, NoMoveFails
<1>4. /\ in_store \subseteq Nat /\ chunk_num \in Nat /\ Num(MetaLength) \in Nat
      /\ \/ in_store' = in_store /\ chunk_num' = chunk_num
         \/ in_store' = in_store \cup {chunk_num} /\ chunk_num' = chunk_num + 1
  BY <1>1, <1>2, <1>3, Stocks, MoveStocks
<1>5. CASE in_store' = in_store /\ chunk_num' = chunk_num
  BY <1>1, <1>3, <1>5 DEF Gapless, NoHoleAbove, Filing, Finishing, Finished
<1>6. CASE in_store' = in_store \cup {chunk_num} /\ chunk_num' = chunk_num + 1
  <2>1. ASSUME NEW m \in Nat, m..(chunk_num - 1) \subseteq in_store
        PROVE  m..(chunk_num' - 1) \subseteq in_store'
    BY <1>4, <1>6, <2>1
  <2>2. ASSUME NoHoleAbove(chunk_num)
        PROVE  NoHoleAbove(chunk_num)'
    <3> SUFFICES ASSUME NEW i \in in_store', NEW j \in 0..(i - 1), j \notin in_store
                 PROVE  j <= chunk_num + 1
      BY <1>6 DEF NoHoleAbove
    <3>1. i \in Nat /\ chunk_num \in Nat /\ j \in Nat /\ j <= i - 1
      BY <1>4, <1>6
    <3>2. j <= chunk_num
      BY <1>6, <2>2, <3>1 DEF NoHoleAbove
    <3> QED
      BY <3>1, <3>2
  <2>3. ASSUME NoHoleAbove(Num(MetaLength)), 0..(chunk_num - 1) \subseteq in_store
        PROVE  NoHoleAbove(Num(MetaLength))'
    BY <1>4, <1>6, <2>3 DEF NoHoleAbove
  <2>4. 0 \in Nat
    OBVIOUS
  <2>5. CASE then # "build"
    <3>1. Filing /\ Filing' /\ ~Finishing' /\ ~Finished'
      BY <1>1, <1>3, <2>5 DEF Filing, Finishing, Finished
    <3>2. NoHoleAbove(chunk_num)' /\ Num(MetaLength)..(chunk_num' - 1) \subseteq in_store'
      BY <1>4, <2>1, <2>2, <3>1 DEF Gapless
    <3> QED
      BY <1>3, <3>1, <3>2 DEF Gapless
  <2>6. CASE then = "build"
    <3>1. Finishing /\ Finishing' /\ ~Filing' /\ ~Finished'
      BY <1>1, <1>3, <2>6 DEF Filing, Finishing, Finished
    <3>2. NoHoleAbove(Num(MetaLength))' /\ 0..(chunk_num' - 1) \subseteq in_store'
      BY <2>1, <2>3, <2>4, <3>1 DEF Gapless
    <3> QED
      BY <1>3, <3>1, <3>2 DEF Gapless
  <2> QED
    BY <2>5, <2>6
<1> QED
  BY <1>4, <1>5, <1>6

LEMMA CopiedGapless ==
  ASSUME Typed, Copied, Gapless
  PROVE  Gapless'
<1>1. /\ pc = "copy" /\ work = << >> /\ UNCHANGED <<in_store, chunk_num, then>>
      /\ pc' = IF then \in {"added", "skipped"} THEN "files" ELSE then
      /\ then \in {"read", "added", "skipped", "build"}
  BY DEF Copied, Goto, store, builder, Typed, TypeOK
<1>2. CASE then = "build"
  <2>1. chunk_num = Num(pos) /\ pos + Len(work) = MetaLength /\ pos \in Nat
    BY <1>1, <1>2 DEF Typed, TypeOK, Placed, Finishing
  <2>2. pos = MetaLength
    BY <1>1, <2>1
  <2> QED
    BY <1>1, <1>2, <2>1, <2>2, SamePhaseGapless DEF Finishing
<1>3. CASE then # "build"
  BY <1>1, <1>3, SamePhaseGapless DEF Filing
<1> QED
  BY <1>2, <1>3

LEMMA WriteMetaGapless ==
  ASSUME Typed, WriteMeta, Gapless, failures' = 0, Readable'
  PROVE  Gapless'
<1>1. TypeOK /\ pc = "files" /\ then' = "build" /\ 0 \in 0..Limit
  BY Rooms DEF Typed, WriteMeta
<1>2. Move(0, buff) /\ pc' = "copy"
  BY <1>1, NoMoveFails DEF WriteMeta, Goto
<1>3. /\ NoHoleAbove(chunk_num)
      /\ Num(MetaLength)..(chunk_num - 1) \subseteq in_store
  BY <1>1 DEF Gapless, Filing
<1>4. /\ in_store \subseteq Nat /\ chunk_num \in Nat /\ Num(MetaLength) \in Nat
      /\ chunk_num' = 0
      /\ \/ chunk_num = 0 /\ in_store' = in_store
         \/ in_store' = in_store \cup {chunk_num}
  BY <1>1, <1>2, Stocks, MoveStocks
<1>5. ASSUME NEW i \in in_store', NEW j \in 0..(i - 1), j \notin in_store'
      PROVE  j <= Num(MetaLength)
  <2>0. in_store' \subseteq in_store \cup {chunk_num} /\ in_store \subseteq in_store'
    BY <1>4
  <2>a. i \in in_store \cup {chunk_num} /\ j \notin in_store
    BY <1>5, <2>0
  <2>1. i \in Nat /\ j \in Nat /\ j <= i - 1
    BY <1>4, <2>a
  <2>2. j \notin in_store /\ j <= chunk_num
    <3>1. CASE i \in in_store
      BY <1>3, <2>a, <3>1 DEF NoHoleAbove
    <3>2. CASE i = chunk_num
      BY <1>4, <2>1, <2>a, <3>2
    <3> QED
      BY <2>a, <3>1, <3>2
  <2>3. j \notin Num(MetaLength)..(chunk_num - 1)
    BY <1>3, <2>2
  <2>4. j # chunk_num \/ chunk_num = 0
    BY <1>4, <1>5
  <2> QED
    BY ONLY <1>4, <2>1, <2>2, <2>3, <2>4
<1>6. 0..(chunk_num' - 1) = {}
  BY <1>4
<1>7. NoHoleAbove(Num(MetaLength))'
  BY <1>5 DEF NoHoleAbove
<1> QED
  BY <1>1, <1>2, <1>6, <1>7 DEF Gapless, Filing, Finishing, Finished

LEMMA BuildGapless ==
  ASSUME Typed, Build, Gapless, failures' = 0
  PROVE  Gapless'
<1>1. /\ pc = "build" /\ pc' = "destroy" /\ TypeOK
      /\ in_store' = in_store \cup {chunk_num}
  BY DEF Build, Stored, StoreFails, Fails, Goto, Typed, TypeOK
<1>2. /\ chunk_num = Num(MetaLength) /\ NoHoleAbove(Num(MetaLength))
      /\ 0..(chunk_num - 1) \subseteq in_store
  BY <1>1 DEF Gapless
<1>3. in_store \subseteq Nat /\ chunk_num \in Nat
  BY <1>1, Stocks
<1>4. ASSUME NEW i \in in_store', NEW j \in 0..(i - 1)
      PROVE  j \in in_store'
  <2>1. i \in Nat /\ j \in Nat /\ j <= i - 1
    BY <1>1, <1>3
  <2>2. j \in in_store \/ j <= chunk_num
    BY <1>1, <1>2, <1>3, <2>1 DEF NoHoleAbove
  <2>3. j <= chunk_num => j = chunk_num \/ j \in 0..(chunk_num - 1)
    BY <1>3, <2>1
  <2> QED
    BY <1>1, <1>2, <2>2, <2>3
<1> QED
  BY <1>1, <1>4 DEF Gapless, Filing, Finishing, Finished

LEMMA DestroyGapless ==
  ASSUME Destroy, Clean, Gapless
  PROVE  Gapless'
<1>1. /\ pc = "destroy" /\ pc' = "exit" /\ UNCHANGED in_store
  BY DEF Destroy, Goto, store, Clean, Finished
<1> QED
  BY <1>1 DEF Gapless, Filing, Finishing, Finished

(* Line 40 of distfs_metadata.cc finds as many chunks as it counts.        *)
LEMMA ServeGapless ==
  ASSUME Typed, Serve, Clean, Gapless
  PROVE  Gapless'
<1>1. /\ pc = "exit" /\ in_store' = OnDisk
      /\ pc' = IF \A i \in 0..(Cardinality(OnDisk) - 1) : i \in OnDisk
               THEN "serving" ELSE "throws"
  BY DEF Serve, Goto, OnDisk
<1>2. OnDisk = in_store /\ in_store \in SUBSET Ids
  BY DEF Clean, Typed, TypeOK, Stocked, OnDisk
<1>3. \A i \in in_store : 0..(i - 1) \subseteq in_store
  BY <1>1 DEF Gapless, Finished
<1>4. IsFiniteSet(OnDisk) /\ Cardinality(OnDisk) \in Nat /\ OnDisk \subseteq Nat
  BY <1>2, FiniteParts, IdsAre
<1>5. ASSUME NEW i \in 0..(Cardinality(OnDisk) - 1), i \notin OnDisk
      PROVE  FALSE
  <2>1. i \in Nat /\ i < Cardinality(OnDisk)
    BY <1>4
  <2>2. ASSUME NEW k \in OnDisk
        PROVE  k \in 0..(i - 1)
    <3>1. k \in Nat /\ i \notin 0..(k - 1) /\ k # i
      BY <1>2, <1>3, <1>4, <1>5
    <3> QED
      BY <2>1, <3>1
  <2>3. IsFiniteSet(0..(i - 1)) /\ Cardinality(0..(i - 1)) = i
    <3>1. 0 \in Int /\ i - 1 \in Int
      BY <2>1
    <3>2. /\ IsFiniteSet(0..(i - 1))
          /\ Cardinality(0..(i - 1)) = IF 0 > i - 1 THEN 0 ELSE (i - 1) - 0 + 1
      BY <3>1, FS_Interval
    <3> QED
      BY <2>1, <3>2
  <2>4. Cardinality(OnDisk) <= Cardinality(0..(i - 1))
    BY <2>2, <2>3, FS_Subset
  <2> QED
    BY <1>4, <2>1, <2>3, <2>4
<1>6. pc' = "serving" /\ in_store' = in_store
  BY <1>1, <1>2, <1>5
<1> QED
  BY <1>3, <1>6 DEF Gapless, Filing, Finishing, Finished

GaplessInv == failures = 0 => Gapless

LEMMA InitGapless == Init => GaplessInv
<1> SUFFICES ASSUME Init PROVE Gapless
  BY DEF GaplessInv
<1>1. PICK n \in 0..Cardinality(Ids) : in_store = {i \in Ids : i < n}
  BY DEF Init
<1>2. Cardinality(Ids) \in Nat /\ n \in Nat
  BY FiniteParts
<1>3. ASSUME NEW i \in in_store, NEW j \in 0..(i - 1)
      PROVE  j \in in_store
  <2>1. i \in 0..Num(Limit) /\ Num(Limit) \in Nat /\ i < n
    BY <1>1, IdsAre, Rooms, NumAt
  <2>2. j \in 0..Num(Limit) /\ j < n
    BY <1>2, <2>1
  <2> QED
    BY <1>1, <2>2, IdsAre
<1> QED
  BY <1>3 DEF Init, Gapless, Filing, Finishing, Finished

LEMMA NextGapless ==
  Typed /\ Readable' /\ CleanInv /\ GaplessInv /\ [Next]_vars => GaplessInv'
<1> SUFFICES ASSUME Typed, Readable', CleanInv, GaplessInv, [Next]_vars, failures' = 0
             PROVE  Gapless'
  BY DEF GaplessInv
<1>1. failures = 0 /\ Clean /\ Gapless
  BY FailuresGrow DEF CleanInv, GaplessInv
<1>2. CASE AddFile \/ Read \/ ReadError
  <2>1. UNCHANGED <<in_store, chunk_num>>
    BY <1>2 DEF AddFile, Read, ReadError, store, builder
  <2>2. pc' = "dead" \/ (Filing /\ Filing')
    BY <1>2 DEF AddFile, Read, ReadError, Goto, Filing
  <2> QED
    BY <1>1, <2>1, <2>2, SamePhaseGapless
<1>3. CASE UNCHANGED vars \/ Ended
  BY <1>1, <1>3 DEF Ended, vars, Gapless, NoHoleAbove, Filing, Finishing, Finished
<1> QED
  BY <1>1, <1>2, <1>3, ReserveGapless, CopyGapless, CopiedGapless, WriteMetaGapless,
     BuildGapless, DestroyGapless, ServeGapless DEF Next

(* Then the store has no hole when it is served: the chunks that reserve   *)
(* skips are all filled by the write of the metadata, and DistfsMetadata   *)
(* finds every number below the count of the files.                        *)
THEOREM ServableHolds == Spec /\ []Readable => []Servable
<1>1. Typed /\ CleanInv /\ GaplessInv => Servable
  BY DEF GaplessInv, Gapless, Servable
<1> QED
  BY <1>1, InitTyped, NextTyped, InitClean, NextClean, InitGapless, NextGapless, PTL DEF Spec

(* So a directory whose chunks LZ4 never makes larger, whatever its files, *)
(* is laid out without loss and can be served, as long as no call of the   *)
(* store fails.                                                            *)
THEOREM CompressibleBuild ==
  ASSUME Incompressible = {}
  PROVE  Spec => [](FilesKept /\ CompleteIfUndisturbed /\ Servable)
  BY CompressibleReadable, FilesKeptHolds, CompleteHolds, ServableHolds, PTL
=============================================================================
