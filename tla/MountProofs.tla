----------------------------- MODULE MountProofs -----------------------------
(***************************************************************************)
(* Theorems about the binary search of find_entity, for tables of any      *)
(* length, and about every search that a mounted file system makes; about  *)
(* the image that is mounted, from what MetaBuilderProofs says of its      *)
(* steps; and about the requests that are answered from it: a directory is *)
(* listed completely, a path is found if it was scanned, the attributes    *)
(* are those of the node, and a read gives the bytes of its own file.      *)
(***************************************************************************)
EXTENDS Mount, MetaBuilderProofs

(* The part of the table between a and b holds what is sought, if anything *)
(* does.                                                                   *)
EntryRecord == [name : Int, data_offset : Nat]

Within ==
  \A k \in DOMAIN ents : ents[k].name = sought => a <= k - 1 /\ k - 1 <= b

SearchInv ==
  /\ ents \in Seq(EntryRecord)
  /\ a \in Nat
  /\ b \in Int
  /\ found \in Nat \cup {Pending}
  /\ ProbesInside
  /\ Sorted(ents) /\ found = Pending => Within
  /\ SearchRight

(* A search begins with the whole table.                                   *)
LEMMA SearchKeeps ==
  ASSUME NEW table \in Seq(EntryRecord), NEW name, Search(table, name)
  PROVE  SearchInv'
<1>1. ents' \in Seq(EntryRecord) /\ a' \in Nat /\ b' \in Int
  BY DEF Search
<1>2. found' \in Nat \cup {Pending} /\ (found' = Pending <=> table # << >>)
  BY DEF Search, Pending
<1>3. CASE table = << >>
  <2>1. found' = 0 /\ ents' = << >>
    BY <1>3 DEF Search
  <2>2. ProbesInside' /\ SearchRight'
    BY <2>1 DEF ProbesInside, SearchRight, Pending
  <2> QED
    BY <1>1, <1>2, <1>3, <2>1, <2>2 DEF SearchInv, Pending
<1>4. CASE table # << >>
  <2>1. Len(table) \in Nat \ {0} /\ DOMAIN table = 1..Len(table)
    BY <1>4
  <2>2. ProbesInside' /\ Within'
    BY <2>1 DEF Search, ProbesInside, Within
  <2>3. SearchRight'
    BY <1>2, <1>4 DEF SearchRight
  <2> QED
    BY <1>1, <1>2, <2>2, <2>3 DEF SearchInv
<1> QED
  BY <1>3, <1>4

(* A turn of the loop leaves out no entry that could be the one.           *)
LEMMA ProbeKeeps ==
  ASSUME SearchInv, Probe
  PROVE  SearchInv'
<1> DEFINE m == (a + b) \div 2
           x == ents[m + 1].name
<1>1. /\ a \in Nat /\ b \in Nat /\ a < b /\ b < Len(ents)
      /\ DOMAIN ents = 1..Len(ents) /\ Len(ents) \in Nat
      /\ found = Pending
  BY DEF SearchInv, Probe, ProbesInside
<1>2. m \in Nat /\ a <= m /\ m < b
  BY <1>1
<1>3. m + 1 \in DOMAIN ents /\ ents[m + 1] \in EntryRecord
  BY <1>1, <1>2 DEF SearchInv
<1>4. x \in Int /\ ents[m + 1].data_offset \in Nat
  BY <1>3 DEF EntryRecord
<1>5. UNCHANGED <<ents, sought>>
  BY DEF Probe
<1>6. CASE x = sought
  <2>1. found' = ents[m + 1].data_offset /\ UNCHANGED <<a, b>>
    BY <1>4, <1>6 DEF Probe
  <2>2. SearchRight'
    BY <1>3, <1>4, <1>5, <1>6, <2>1 DEF SearchRight
  <2>3. found' \in Nat /\ found' # Pending
    BY <1>4, <2>1 DEF Pending
  <2> QED
    BY <1>5, <2>1, <2>2, <2>3 DEF SearchInv, ProbesInside
<1>7. CASE x # sought /\ x < sought /\ a' = m + 1 /\ b' = b
  <2>1. found' = Pending /\ a' = m + 1 /\ b' = b
    BY <1>7 DEF Probe
  <2>2. Sorted(ents) => Within'
    <3> SUFFICES ASSUME Sorted(ents), NEW k \in DOMAIN ents, ents[k].name = sought
                 PROVE  m + 1 <= k - 1 /\ k - 1 <= b
      BY <1>5, <2>1 DEF Within
    <3>1. a <= k - 1 /\ k - 1 <= b /\ k \in Nat
      BY <1>1 DEF SearchInv, Within
    <3>2. ents[k] \in EntryRecord
      BY <1>1 DEF SearchInv
    <3>3. ~(k < m + 1)
      BY <1>3, <1>4, <1>7, <3>2 DEF Sorted, EntryRecord
    <3>4. k # m + 1
      BY <1>7
    <3> QED
      BY <1>2, <3>1, <3>3, <3>4
  <2>3. ProbesInside'
    BY <1>1, <1>2, <1>5, <2>1 DEF ProbesInside
  <2>4. SearchRight'
    BY <2>1 DEF SearchRight
  <2>5. a' \in Nat /\ b' \in Int /\ found' \in Nat \cup {Pending}
    BY <1>1, <1>2, <2>1
  <2> QED
    BY <1>5, <2>2, <2>3, <2>4, <2>5 DEF SearchInv, Sorted
<1>8. CASE x # sought /\ x > sought /\ b' = m - 1 /\ a' = a
  <2>1. found' = Pending /\ a' = a /\ b' = m - 1
    BY <1>8 DEF Probe
  <2>2. Sorted(ents) => Within'
    <3> SUFFICES ASSUME Sorted(ents), NEW k \in DOMAIN ents, ents[k].name = sought
                 PROVE  a <= k - 1 /\ k - 1 <= m - 1
      BY <1>5, <2>1 DEF Within
    <3>1. a <= k - 1 /\ k - 1 <= b /\ k \in Nat
      BY <1>1 DEF SearchInv, Within
    <3>2. ents[k] \in EntryRecord
      BY <1>1 DEF SearchInv
    <3>3. ~(m + 1 < k)
      BY <1>3, <1>4, <1>8, <3>2 DEF Sorted, EntryRecord
    <3>4. k # m + 1
      BY <1>8
    <3> QED
      BY <1>2, <3>1, <3>3, <3>4
  <2>3. ProbesInside'
    BY <1>1, <1>2, <1>5, <2>1 DEF ProbesInside
  <2>4. SearchRight'
    BY <2>1 DEF SearchRight
  <2>5. a' \in Nat /\ b' \in Int /\ found' \in Nat \cup {Pending}
    BY <1>1, <1>2, <2>1
  <2> QED
    BY <1>5, <2>2, <2>3, <2>4, <2>5 DEF SearchInv, Sorted
<1> QED
  BY <1>6, <1>7, <1>8 DEF Probe

(* What is left when the loop ends is one entry, or none.                  *)
LEMMA ProbeLastKeeps ==
  ASSUME SearchInv, ProbeLast
  PROVE  SearchInv'
<1>1. /\ a \in Nat /\ b \in Int /\ b <= a /\ a + 1 \in DOMAIN ents
      /\ DOMAIN ents = 1..Len(ents) /\ Len(ents) \in Nat
      /\ found = Pending
  BY DEF SearchInv, ProbeLast, ProbesInside
<1>2. ents[a + 1] \in EntryRecord
  BY <1>1 DEF SearchInv
<1>3. found' \in Nat /\ found' # Pending
  BY <1>2 DEF ProbeLast, EntryRecord, Pending
<1>4. UNCHANGED <<ents, sought, a, b>>
  BY DEF ProbeLast
<1>5. SearchRight'
  <2> SUFFICES ASSUME Sorted(ents)
               PROVE  IF \E k \in DOMAIN ents : ents[k].name = sought
                      THEN \E k \in DOMAIN ents :
                             ents[k].name = sought /\ ents[k].data_offset = found'
                      ELSE found' = 0
    BY <1>4 DEF SearchRight, Sorted
  <2>1. Within
    BY <1>1 DEF SearchInv
  <2>2. ASSUME NEW k \in DOMAIN ents, ents[k].name = sought
        PROVE  k = a + 1
    BY <1>1, <2>1, <2>2 DEF Within
  <2>3. CASE ents[a + 1].name = sought
    BY <1>1, <2>3 DEF ProbeLast
  <2>4. CASE ents[a + 1].name # sought
    BY <2>2, <2>4 DEF ProbeLast
  <2> QED
    BY <2>3, <2>4
<1> QED
  BY <1>3, <1>4, <1>5 DEF SearchInv, ProbesInside

(* A search stays as it is.                                                *)
LEMMA IdleKeeps ==
  ASSUME SearchInv, UNCHANGED search
  PROVE  SearchInv'
BY DEF SearchInv, search, ProbesInside, Sorted, Within, SearchRight, Pending
----------------------------------------------------------------------------
(* What find_entity is called with is a table of entries.                  *)
LEMMA TableTyped ==
  ASSUME NEW at, NEW count, IsTable(at, count)
  PROVE  Table(at, count) \in Seq(EntryRecord)
<1>1. Names \cup DOMAIN Values \subseteq Int
  <2>1. DOMAIN Values = 1..Len(Values)
    BY ValuesAssumption
  <2>2. Len(Values) \in Nat
    BY ValuesAssumption
  <2>3. DOMAIN Values \subseteq Int
    BY <2>1, <2>2
  <2>4. Names \subseteq Int
    BY NamesAssumption
  <2> QED
    BY <2>3, <2>4
<1>2. count \in Nat
  BY DEF IsTable
<1>3. ASSUME NEW k \in 1..count
      PROVE  /\ meta[meta[at + k].name_offset + 1].is \in Int
             /\ meta[at + k].data_offset \in Nat
  BY <1>1 DEF IsTable
<1> QED
  BY <1>2, <1>3 DEF Table, EntryRecord

(* No step of the file system disturbs a search.                           *)
LEMMA NextKeeps ==
  ASSUME SearchInv, [Next]_vars
  PROVE  SearchInv'
<1>1. CASE UNCHANGED search
  BY <1>1, IdleKeeps
<1>2. CASE GetChild
  <2>1. CASE UNCHANGED search
    BY <2>1, IdleKeeps
  <2>2. CASE IsTable(offset + 1, Found.length)
             /\ Search(Table(offset + 1, Found.length), Head(rest))
    BY <2>2, TableTyped, SearchKeeps
  <2> QED
    BY <1>2, <2>1, <2>2 DEF GetChild
<1>3. ASSUME NEW name, NEW size, GetXattr(name, size)
      PROVE  SearchInv'
  <2>1. CASE UNCHANGED search
    BY <2>1, IdleKeeps
  <2>2. CASE IsTable(offset + 1, Found.xattrs_count)
             /\ Search(Table(offset + 1, Found.xattrs_count), name)
    BY <2>2, TableTyped, SearchKeeps
  <2> QED
    BY <1>3, <2>1, <2>2 DEF GetXattr
<1>4. CASE FindEntity
  BY <1>4, ProbeKeeps, ProbeLastKeeps DEF FindEntity
<1>5. CASE Done
  <2>1. ents' = << >> /\ a' = 0 /\ b' = 0 /\ found' = 0
    BY <1>5 DEF Done
  <2> QED
    BY <2>1 DEF SearchInv, ProbesInside, SearchRight, Pending, Sorted
<1>6. CASE \/ Build \/ Mount \/ Enter \/ Resolved \/ ReadLink \/ OpenDir \/ ReadDir
           \/ ListName \/ ListEnds \/ AnswerXattr \/ Chunk \/ ChunkFails \/ ReadEnds \/ Dead
  <2>1. UNCHANGED search
    BY <1>6 DEF Build, Mount, Enter, Resolved, ReadLink, OpenDir, ReadDir, ListName, ListEnds,
                AnswerXattr, Chunk, ChunkFails, ReadEnds, Dead, vars
  <2> QED
    BY <1>1, <2>1
<1>7. CASE \/ \E p \in Asked : Begin(p)
           \/ \E size \in Buffers : \/ ListXattr(size)
                                   \/ \E at \in 0..Max(Lengths) : Read(at, size)
  <2>1. UNCHANGED search
    BY <1>7 DEF Begin, ListXattr, Read
  <2> QED
    BY <1>1, <2>1
<1>8. CASE UNCHANGED vars
  BY <1>1, <1>8 DEF vars
<1> QED
  BY <1>2, <1>3, <1>4, <1>5, <1>6, <1>7, <1>8 DEF Next

LEMMA SearchInvariant == Spec => []SearchInv
<1>1. Init => SearchInv
  BY DEF Init, SearchInit, SearchInv, ProbesInside, SearchRight, Pending, Sorted
<1>2. SearchInv /\ [Next]_vars => SearchInv'
  BY NextKeeps
<1> QED
  BY <1>1, <1>2, PTL DEF Spec

(* find_entity finds the entry with the name among sorted entries, and     *)
(* nothing only if there is none, however many there are.                  *)
THEOREM SearchRightHolds == Spec => []SearchRight
<1>1. SearchInv => SearchRight
  BY DEF SearchInv
<1> QED
  BY <1>1, SearchInvariant, PTL

(* It never looks behind the table, or before it.                          *)
THEOREM ProbesStayInside == Spec => []ProbesInside
<1>1. SearchInv => ProbesInside
  BY DEF SearchInv
<1> QED
  BY <1>1, SearchInvariant, PTL

(* Every turn of the loop ends the search or leaves fewer entries: it      *)
(* comes to an end, though b may run below a.                              *)
SearchShrinks == Probe => found' # Pending \/ b' - a' < b - a

THEOREM SearchEnds == Spec => [][SearchShrinks]_vars
<1>1. SearchInv /\ [Next]_vars => [SearchShrinks]_vars
  <2> SUFFICES ASSUME SearchInv, Probe
               PROVE  found' # Pending \/ b' - a' < b - a
    BY DEF SearchShrinks
  <2> DEFINE m == (a + b) \div 2
  <2>1. /\ a \in Nat /\ b \in Nat /\ a < b /\ b < Len(ents)
        /\ DOMAIN ents = 1..Len(ents) /\ Len(ents) \in Nat
    BY DEF SearchInv, Probe, ProbesInside
  <2>2. m \in Nat /\ a <= m /\ m < b
    BY <2>1
  <2>3. ents[m + 1] \in EntryRecord
    BY <2>1, <2>2 DEF SearchInv
  <2>4. CASE ents[m + 1].name = sought
    BY <2>3, <2>4 DEF Probe, EntryRecord, Pending
  <2>5. CASE ents[m + 1].name # sought
    BY <2>1, <2>2, <2>5 DEF Probe
  <2> QED
    BY <2>4, <2>5
<1> QED
  BY <1>1, SearchInvariant, PTL DEF Spec
----------------------------------------------------------------------------
(* The handlers of a mounted file system change nothing of the image.      *)
LEMMA StepsAre ==
  ASSUME [Next]_vars
  PROVE  BuildNext \/ UNCHANGED built
<1>1. CASE Build
  BY <1>1 DEF Build
<1>2. CASE \/ Mount \/ GetChild \/ FindEntity \/ Enter \/ Resolved \/ ReadLink \/ OpenDir \/ ReadDir
           \/ ListName \/ ListEnds \/ AnswerXattr \/ Chunk \/ ChunkFails \/ ReadEnds
           \/ Done \/ Dead
  <2>1. UNCHANGED built
    BY <1>2 DEF Mount, GetChild, FindEntity, Enter, Resolved, ReadLink, OpenDir, ReadDir,
                ListName, ListEnds, AnswerXattr, Chunk, ChunkFails, ReadEnds, Done, Dead, vars
  <2> QED
    BY <2>1
<1>3. CASE \/ \E p \in Asked : Begin(p)
           \/ \E size \in Buffers :
                \/ ListXattr(size)
                \/ \E n \in DOMAIN Values : GetXattr(n, size)
                \/ \E at \in 0..Max(Lengths) : Read(at, size)
  <2>1. UNCHANGED built
    BY <1>3 DEF Begin, ListXattr, GetXattr, Read
  <2> QED
    BY <2>1
<1>4. CASE UNCHANGED vars
  BY <1>4 DEF vars
<1> QED
  BY <1>1, <1>2, <1>3, <1>4 DEF Next

LEMMA BuildInvariant == Spec => []BuildInv
<1>1. Init => BuildInv
  BY BuildInitKeeps DEF Init
<1>2. BuildInv /\ [Next]_vars => BuildInv'
  BY StepsAre, BuildKeeps, BuildIdles
<1> QED
  BY <1>1, <1>2, PTL DEF Spec

(* When scan_dfs has returned, every directory has the entries that        *)
(* readdir gave, in their order, and each leads to the node of its path,   *)
(* or to the header if it had vanished; create_chunks leaves it so.        *)
THEOREM TreeKeptHolds == Spec => []TreeKept
<1>1. BuildInv => TreeKept
  <2> SUFFICES ASSUME BuildInv, stage \in {"place", "built"}, RootKept
               PROVE  /\ data[2].t = "node" /\ data[2].stat = Root
                      /\ \A o \in DOMAIN data : data[o].t = "node" /\ data[o].kind = "dir" =>
                           LET c == data[o]
                               names == tree[c.stat].names
                           IN  /\ c.length = Len(names)
                               /\ \A k \in DOMAIN names :
                                    LET e == data[c.data_offset + k]
                                        here == Append(c.stat, names[k])
                                    IN  /\ data[e.name_offset + 1] = Name(names[k])
                                        /\ IF here \in DOMAIN tree
                                           THEN data[e.data_offset + 1].t = "node"
                                                /\ data[e.data_offset + 1].stat = here
                                           ELSE e.data_offset = 0
    BY DEF TreeKept
  <2>1. /\ DirAt(data, 2) /\ data[2].stat = Root /\ stack = << >>
        /\ Tree(data, tree, Awaited(stack, tree))
    BY DEF BuildInv
  <2>2. Awaited(stack, tree) = {}
    BY <2>1 DEF Awaited
  <2>3. data[2].length = Len(tree[Root].names)
    BY DEF RootKept
  <2>4. ASSUME NEW o \in DOMAIN data, data[o].t = "node", data[o].kind = "dir"
        PROVE  LET c == data[o]
                   names == tree[c.stat].names
               IN  /\ c.length = Len(names)
                   /\ \A k \in DOMAIN names :
                        LET e == data[c.data_offset + k]
                            here == Append(c.stat, names[k])
                        IN  /\ data[e.name_offset + 1] = Name(names[k])
                            /\ IF here \in DOMAIN tree
                               THEN data[e.data_offset + 1].t = "node"
                                    /\ data[e.data_offset + 1].stat = here
                               ELSE e.data_offset = 0
    <3> DEFINE c == data[o]
               names == tree[c.stat].names
    <3>1. DirAt(data, o)
      BY <2>4 DEF DirAt
    <3>2. Tabled(data, tree, o) /\ Linked(data, tree, {}, o)
      BY <2>1, <2>2, <3>1 DEF Tree
    <3>3. c.stat \in DOMAIN tree
      BY <2>1, <2>4 DEF Tree, Statted
    <3>4. GoodAnswer(tree[c.stat])
      BY <2>1, <3>3 DEF Tree, Grown
    <3>5. DOMAIN names = 1..Len(names)
      BY <3>4, NamesDiffer
    <3>6. c.length = Len(names)
      <4>1. CASE o = 2
        BY <2>1, <2>3, <4>1
      <4>2. CASE o # 2
        BY <3>2, <4>2 DEF Tabled
      <4> QED
        BY <4>1, <4>2
    <3>7. ASSUME NEW k \in DOMAIN names
          PROVE  LET e == data[c.data_offset + k]
                     p == Append(c.stat, names[k])
                 IN  /\ data[e.name_offset + 1] = Name(names[k])
                     /\ LeadsTo(data, tree, e.data_offset, p)
      <4>1. k \in 1..Len(names)
        BY <3>5
      <4>2. data[data[c.data_offset + k].name_offset + 1] = Name(names[k])
        BY <3>2, <4>1 DEF Tabled
      <4>3. LeadsTo(data, tree, data[c.data_offset + k].data_offset, Append(c.stat, names[k]))
        BY <3>2, <4>1 DEF Linked
      <4> QED
        BY <4>2, <4>3
    <3>8. ASSUME NEW to, NEW p, LeadsTo(data, tree, to, p)
          PROVE  IF p \in DOMAIN tree
                 THEN data[to + 1].t = "node" /\ data[to + 1].stat = p
                 ELSE to = 0
      BY <3>8 DEF LeadsTo
    <3> QED
      BY <3>6, <3>7, <3>8
  <2> QED
    BY <2>1, <2>4 DEF DirAt
<1> QED
  BY <1>1, BuildInvariant, PTL
----------------------------------------------------------------------------
(* What a request knows: the whole of the image has been read; offset is   *)
(* in it; and readdir has delivered the entries before the one that it     *)
(* goes on from.                                                           *)
Listing(to) ==
  /\ Found.t = "node" /\ Found.kind = "dir" /\ Found.length \in Nat
  /\ to \in 0..Found.length /\ got = Delivered(0, to)

Serving ==
  /\ pc \in {"start", "idle", "walk", "search", "at", "list", "names", "value", "chunks", "answer"}
  /\ pc = "start" => ents = << >> /\ found = 0 /\ offset = 0
  /\ pc # "start" => stage = "built" /\ meta = data
  /\ offset \in 0..(Len(data) - 1)
  /\ found < Len(data) /\ \A k \in DOMAIN ents : ents[k].data_offset < Len(data)
  /\ pc \in {"at", "list", "names", "value", "chunks"} => Found.t = "node"
  /\ pc \in {"start", "idle", "walk", "search", "at"} => got = << >> /\ args.op = "none"
  /\ pc = "names" => args.op = "listxattr"
  /\ pc = "value" => args.op = "getxattr"
  /\ pc = "chunks" => args.op = "read"
  /\ pc = "list" =>
       args = [NoArgs EXCEPT !.op = "readdir", !.at = args.at] /\ Listing(args.at)
  /\ pc = "answer" /\ args.op = "readdir" /\ answer = "OK" => Listing(Found.length)

(* And what it knows of its path, unless a directory on the way has        *)
(* attributes: n names of it are resolved.                                 *)
At(n) ==
  /\ n \in 0..Len(path) /\ rest = SubSeq(path, n + 1, Len(path))
  /\ Begun(path, n) \in DOMAIN tree
  /\ Found.t = "node" /\ Found.stat = Begun(path, n)

Seeking(n) ==
  LET here == Begun(path, n)
      names == tree[here].names
  IN  /\ At(n) /\ n < Len(path)
      /\ sought = path[n + 1]
      /\ ents \in Seq(EntryRecord) /\ Len(ents) = Len(names)
      /\ \A k \in 1..Len(names) :
           /\ ents[k].name = names[k]
           /\ LeadsTo(data, tree, ents[k].data_offset, Append(here, names[k]))

Walking ==
  RootKept /\ Plain =>
    /\ pc \in {"walk", "search", "at"} => path \in Seq(Names)
    /\ pc = "walk" => \E n \in 0..Len(path) : At(n)
    /\ pc = "search" => \E n \in 0..Len(path) : Seeking(n)
    /\ pc = "at" => path \in DOMAIN tree /\ Found.stat = path
    /\ pc = "answer" /\ args.op = "none" =>
         answer # "undefined" /\ (answer = "ENOENT" => path \notin DOMAIN tree)

(* What an image that is complete has of a directory.                      *)
LEMMA DirectoryIs ==
  ASSUME BuildInv, stage = "built", RootKept, NEW o, DirAt(data, o)
  PROVE  LET c == data[o]
             names == tree[c.stat].names
         IN  /\ o \in DOMAIN data /\ c.stat \in DOMAIN tree /\ c.stat \in Seq(Names)
             /\ GoodAnswer(tree[c.stat]) /\ c.length = Len(names)
             /\ Len(names) \in Nat /\ DOMAIN names = 1..Len(names)
             /\ c.data_offset \in Nat /\ c.data_offset = o + 3 * Len(tree[c.stat].xattrs)
             /\ \A k \in 1..Len(names) :
                  LET e == data[c.data_offset + k]
                  IN  /\ c.data_offset + k \in DOMAIN data /\ e \in EntryCell
                      /\ e.name_offset + 1 \in DOMAIN data
                      /\ data[e.name_offset + 1] = Name(names[k])
                      /\ LeadsTo(data, tree, e.data_offset, Append(c.stat, names[k]))
<1> DEFINE c == data[o]
           names == tree[c.stat].names
<1>1. /\ stack = << >> /\ Tree(data, tree, Awaited(stack, tree)) /\ data[2].stat = Root
  BY DEF BuildInv
<1>2. Awaited(stack, tree) = {}
  BY <1>1 DEF Awaited
<1>3. o \in DOMAIN data /\ c.t = "node" /\ data \in Seq(Cell)
  BY <1>1 DEF DirAt, Tree, Laid
<1>4. c.stat \in DOMAIN tree
  BY <1>1, <1>3 DEF Tree, Statted
<1>5. c.stat \in Seq(Names) /\ GoodAnswer(tree[c.stat])
  BY <1>1, <1>4 DEF Tree, Grown
<1>6. Len(names) \in Nat /\ DOMAIN names = 1..Len(names)
  BY <1>5, NamesDiffer
<1>7. Tabled(data, tree, o) /\ Linked(data, tree, {}, o)
  BY <1>1, <1>2 DEF Tree
<1>8. c.length = Len(names)
  <2>1. CASE o = 2
    BY <1>1, <2>1 DEF RootKept
  <2>2. CASE o # 2
    BY <1>7, <2>2 DEF Tabled
  <2> QED
    BY <2>1, <2>2
<1>9. /\ c.data_offset \in Nat /\ c.data_offset = o + 3 * Len(tree[c.stat].xattrs)
      /\ \A k \in 1..Len(names) :
           LET e == data[c.data_offset + k]
           IN  /\ c.data_offset + k \in DOMAIN data /\ e.t = "entry"
               /\ e.name_offset + 1 \in DOMAIN data
               /\ data[e.name_offset + 1] = Name(names[k])
  BY <1>7 DEF Tabled
<1>10. \A k \in 1..Len(names) :
         LeadsTo(data, tree, data[c.data_offset + k].data_offset, Append(c.stat, names[k]))
  BY <1>7 DEF Linked
<1> HIDE DEF names, c
<1>11. \A k \in 1..Len(names) : data[c.data_offset + k] \in EntryCell
  <2> SUFFICES ASSUME NEW k \in 1..Len(names)
               PROVE  data[c.data_offset + k] \in EntryCell
    OBVIOUS
  <2> DEFINE e == data[c.data_offset + k]
  <2>1. e.t = "entry" /\ e \in Cell
    BY <1>3, <1>9
  <2> HIDE DEF e
  <2>2. e \in EntryCell
    BY <2>1, CellsDiffer
  <2> QED
    BY <2>2 DEF e
<1> QED
  BY <1>3, <1>4, <1>5, <1>6, <1>8, <1>9, <1>10, <1>11 DEF names, c

(* Without attributes the entries are where get_child looks for them.      *)
LEMMA ChildEntries ==
  ASSUME BuildInv, stage = "built", RootKept, meta = data,
         NEW o, DirAt(data, o), tree[data[o].stat].xattrs = << >>
  PROVE  LET c == data[o]
             names == tree[c.stat].names
             table == Table(o, c.length)
         IN  /\ IsTable(o, c.length)
             /\ table \in Seq(EntryRecord) /\ Len(table) = Len(names)
             /\ \A k \in 1..Len(names) :
                  /\ table[k].name = names[k]
                  /\ LeadsTo(data, tree, table[k].data_offset, Append(c.stat, names[k]))
<1> DEFINE c == data[o]
           names == tree[c.stat].names
           n == Len(names)
           e(k) == data[o + k]
<1>1. /\ o \in DOMAIN data /\ c.stat \in Seq(Names)
      /\ GoodAnswer(tree[c.stat]) /\ c.length = n /\ n \in Nat
      /\ c.data_offset \in Nat /\ c.data_offset = o + 3 * Len(tree[c.stat].xattrs)
      /\ \A k \in 1..n :
           LET x == data[c.data_offset + k]
           IN  /\ c.data_offset + k \in DOMAIN data /\ x \in EntryCell
               /\ x.name_offset + 1 \in DOMAIN data
               /\ data[x.name_offset + 1] = Name(names[k])
               /\ LeadsTo(data, tree, x.data_offset, Append(c.stat, names[k]))
  BY DirectoryIs
<1>2. /\ DOMAIN data = 1..Len(data) /\ Len(data) \in Nat /\ data[1].t = "header"
  BY DEF BuildInv, Tree, Laid
<1>3. c.data_offset = o /\ o \in Nat
  <2>1. Len(tree[c.stat].xattrs) = 0 /\ o \in Nat
    BY <1>1, <1>2
  <2> QED
    BY <1>1, <2>1
<1>4. \A k \in 1..n : names[k] \in Names
  BY <1>1, NamesDiffer
<1> HIDE DEF names, c, n
<1>5. ASSUME NEW k \in 1..n
      PROVE  /\ o + k \in 1..Len(data)
             /\ e(k) \in [t : {"entry"}, name_offset : Nat, data_offset : Nat]
             /\ data[e(k).name_offset + 1] = Name(names[k])
             /\ LeadsTo(data, tree, e(k).data_offset, Append(c.stat, names[k]))
  <2>1. /\ o + k \in DOMAIN data /\ e(k) \in EntryCell
        /\ data[e(k).name_offset + 1] = Name(names[k])
        /\ LeadsTo(data, tree, e(k).data_offset, Append(c.stat, names[k]))
    BY <1>1, <1>3
  <2>2. e(k).data_offset \in Nat
    BY <2>1 DEF LeadsTo
  <2> HIDE DEF e
  <2>3. e(k) \in [t : {"entry"}, name_offset : Nat, data_offset : Nat]
    BY <2>1, <2>2 DEF EntryCell
  <2> QED
    BY <1>2, <2>1, <2>3
<1>6. o + n <= Len(data)
  <2>1. CASE n = 0
    BY <1>1, <1>2, <1>3, <2>1
  <2>2. CASE n # 0
    <3>1. n \in 1..n
      BY <1>1, <2>2
    <3>2. o + n \in 1..Len(data)
      BY <1>5, <3>1
    <3> QED
      BY <1>2, <3>2
  <2> QED
    BY <2>1, <2>2
<1>7. \A m \in Names : Name(m) \in [t : {"name"}, is : Names \cup DOMAIN Values] /\ Name(m).is = m
  BY DEF Name
<1>8. IsTable(o, n)
  <2>1. \A k \in 1..n : /\ data[o + k] \in [t : {"entry"}, name_offset : Nat, data_offset : Nat]
                        /\ data[data[o + k].name_offset + 1] \in
                             [t : {"name"}, is : Names \cup DOMAIN Values]
    BY <1>4, <1>5, <1>7
  <2> QED
    BY <1>1, <1>6, <2>1 DEF IsTable
<1>9. Table(o, n) = [k \in 1..n |-> [name |-> data[e(k).name_offset + 1].is,
                                     data_offset |-> e(k).data_offset]]
  BY DEF Table
<1>10. \A k \in 1..n : /\ data[e(k).name_offset + 1].is = names[k]
                       /\ names[k] \in Int /\ e(k).data_offset \in Nat
  <2>1. \A k \in 1..n : e(k).data_offset \in Nat
    <3> HIDE DEF e
    <3> QED
      BY <1>5
  <2>2. \A k \in 1..n : names[k] \in Int
    <3>1. \A m \in Names : m \in Int
      BY NamesAssumption
    <3> QED
      BY ONLY <1>4, <3>1
  <2> QED
    BY <1>4, <1>5, <1>7, <2>1, <2>2
<1> HIDE DEF e
<1>11. /\ Table(o, n) \in Seq(EntryRecord) /\ Len(Table(o, n)) = n
       /\ \A k \in 1..n : Table(o, n)[k].name = names[k]
                          /\ Table(o, n)[k].data_offset = e(k).data_offset
  <2> DEFINE r(k) == [name |-> data[e(k).name_offset + 1].is, data_offset |-> e(k).data_offset]
  <2>1. \A k \in 1..n : r(k) \in EntryRecord
    BY <1>10 DEF EntryRecord
  <2>2. \A k \in 1..n : r(k).name = names[k] /\ r(k).data_offset = e(k).data_offset
    BY <1>10
  <2>3. Table(o, n) = [k \in 1..n |-> r(k)]
    BY <1>9
  <2> HIDE DEF r
  <2>4. [k \in 1..n |-> r(k)] \in Seq(EntryRecord) /\ Len([k \in 1..n |-> r(k)]) = n
    BY <1>1, <2>1
  <2> QED
    BY <2>2, <2>3, <2>4
<1>12. c.length = n
  BY <1>1
<1> QED
  BY <1>5, <1>8, <1>11, <1>12 DEF names, c, n

LEMMA KnownIs ==
  ASSUME ImageInv, Serving
  PROVE  /\ BuildInv /\ Inside(data) /\ Rooted(tree)
         /\ data \in Seq(Cell) /\ Len(data) \in Nat /\ Len(data) >= 1
         /\ DOMAIN data = 1..Len(data) /\ data[1].t = "header"
         /\ offset \in Nat /\ offset + 1 \in DOMAIN data
         /\ pc # "start" => Found = data[offset + 1]
         /\ pc # "start" => data[1] = Header(Len(data)) /\ DirAt(data, 2) /\ data[2].stat = Root
<1>1. BuildInv /\ Inside(data) /\ Rooted(tree) /\ Measured
  BY DEF ImageInv
<1>2. data \in Seq(Cell) /\ 1 \in DOMAIN data /\ data[1].t = "header"
  BY <1>1 DEF BuildInv, Tree, Laid
<1>3. Len(data) \in Nat /\ Len(data) >= 1 /\ DOMAIN data = 1..Len(data)
  BY <1>2
<1>4. offset \in Nat /\ offset + 1 \in DOMAIN data
  BY <1>3 DEF Serving
<1>5. pc # "start" => stage = "built" /\ meta = data
  BY DEF Serving
<1> QED
  BY <1>1, <1>2, <1>3, <1>4, <1>5 DEF Found, Measured, BuildInv

(* Entries that are searched are entries of the image.                     *)
LEMMA TableInside ==
  ASSUME Inside(data), meta = data, data \in Seq(Cell), NEW at \in Nat, NEW count, IsTable(at, count)
  PROVE  \A k \in DOMAIN Table(at, count) : Table(at, count)[k].data_offset < Len(data)
<1>1. count \in Nat /\ at + count <= Len(data) /\ DOMAIN data = 1..Len(data) /\ Len(data) \in Nat
  BY DEF IsTable
<1>2. ASSUME NEW k \in 1..count
      PROVE  data[at + k].data_offset < Len(data)
  <2>1. at + k \in DOMAIN data
    BY <1>1
  <2>2. data[at + k].t = "entry"
    BY DEF IsTable
  <2> QED
    BY <2>1, <2>2 DEF Inside
<1>3. \A k \in 1..count : Table(at, count)[k].data_offset = data[at + k].data_offset
  BY DEF Table
<1>4. DOMAIN Table(at, count) = 1..count
  BY DEF Table
<1> QED
  BY <1>2, <1>3, <1>4

LEMMA SameSeq ==
  ASSUME NEW D, NEW s \in Seq(D), NEW t \in Seq(D), Len(s) = Len(t),
         \A k \in 1..Len(s) : s[k] = t[k]
  PROVE  s = t
<1>1. s = [k \in 1..Len(s) |-> s[k]] /\ t = [k \in 1..Len(t) |-> t[k]]
  OBVIOUS
<1> QED
  BY <1>1

(* The next entries go behind those that were delivered.                   *)
LEMMA DeliveredOn ==
  ASSUME Found.data_offset \in Int, NEW n \in Nat, NEW to \in Nat, n <= to
  PROVE  Delivered(0, n) \o Delivered(n, to) = Delivered(0, to)
<1> DEFINE d(j) == LET e == meta[Found.data_offset + j]
                       x == meta[e.data_offset + 1]
                   IN  [name |-> meta[e.name_offset + 1].is,
                        stat |-> IF x.t = "node" THEN x.stat ELSE NoStat]
           f == Found.data_offset
<1>1. ASSUME NEW x \in Nat, NEW y \in Nat
      PROVE  Delivered(x, y) = [k \in 1..(y - x) |-> d(x + k)]
  <2>1. \A k \in 1..(y - x) : f + x + k = f + (x + k)
    <3>1. f \in Int
      OBVIOUS
    <3> HIDE DEF f
    <3> QED
      BY <3>1
  <2> QED
    BY <2>1 DEF Delivered
<1> HIDE DEF d
<1>2. Delivered(0, n) = [k \in 1..(n - 0) |-> d(0 + k)]
      /\ Delivered(n, to) = [k \in 1..(to - n) |-> d(n + k)]
      /\ Delivered(0, to) = [k \in 1..(to - 0) |-> d(0 + k)]
  <2>1. 0 \in Nat /\ n \in Nat /\ to \in Nat
    OBVIOUS
  <2>2. Delivered(0, n) = [k \in 1..(n - 0) |-> d(0 + k)]
    BY ONLY <1>1, <2>1
  <2>3. Delivered(n, to) = [k \in 1..(to - n) |-> d(n + k)]
    BY ONLY <1>1, <2>1
  <2>4. Delivered(0, to) = [k \in 1..(to - 0) |-> d(0 + k)]
    BY ONLY <1>1, <2>1
  <2> QED
    BY ONLY <2>2, <2>3, <2>4
<1> DEFINE s == [k \in 1..(n - 0) |-> d(0 + k)]
           t == [k \in 1..(to - n) |-> d(n + k)]
           u == [k \in 1..(to - 0) |-> d(0 + k)]
<1>3. /\ Len(s) = n /\ Len(t) = to - n /\ Len(u) = to
      /\ \A k \in 1..n : s[k] = d(k)
      /\ \A k \in 1..(to - n) : t[k] = d(n + k)
      /\ \A k \in 1..to : u[k] = d(k)
  <2>1. n - 0 = n /\ to - 0 = to /\ to - n \in Nat
    OBVIOUS
  <2>2. \A k \in 1..to : 0 + k = k
    OBVIOUS
  <2>3. \A k \in 1..n : 0 + k = k
    OBVIOUS
  <2> QED
    BY <2>1, <2>2, <2>3
<1> DEFINE D == {d(j) : j \in Nat}
<1>4. s \in Seq(D) /\ t \in Seq(D) /\ u \in Seq(D)
  <2>1. \A j \in Nat : d(j) \in D
    OBVIOUS
  <2> HIDE DEF D
  <2> QED
    BY <2>1
<1> HIDE DEF s, t, u, D
<1> DEFINE v == s \o t
<1>5. /\ v \in Seq(D) /\ Len(v) = n + (to - n)
      /\ \A k \in 1..n : v[k] = s[k]
      /\ \A k \in 1..(to - n) : v[n + k] = t[k]
  <2>1. /\ v \in Seq(D) /\ Len(v) = Len(s) + Len(t)
        /\ \A k \in 1..Len(s) : v[k] = s[k]
        /\ \A k \in 1..Len(t) : v[Len(s) + k] = t[k]
    BY <1>4, Concatenated
  <2> HIDE DEF v
  <2> QED
    BY <1>3, <2>1
<1> HIDE DEF v
<1>6. \A k \in 1..to : v[k] = u[k]
  <2> SUFFICES ASSUME NEW k \in 1..to
               PROVE  v[k] = u[k]
    OBVIOUS
  <2>1. CASE k <= n
    <3>1. k \in 1..n
      BY ONLY k \in 1..to, n \in Nat, k <= n, to \in Nat, <2>1
    <3> QED
      BY <1>3, <1>5, <3>1
  <2>2. CASE k > n
    <3>1. k - n \in 1..(to - n) /\ n + (k - n) = k
      BY ONLY k \in 1..to, n \in Nat, to \in Nat, <2>2
    <3>2. v[n + (k - n)] = t[k - n] /\ t[k - n] = d(n + (k - n))
      BY <1>3, <1>5, <3>1
    <3> QED
      BY <1>3, <3>1, <3>2
  <2> QED
    BY <2>1, <2>2
<1>7. Len(v) = to
  BY ONLY <1>5, n \in Nat, to \in Nat
<1>8. v = u
  BY <1>3, <1>4, <1>5, <1>6, <1>7, SameSeq
<1> QED
  BY <1>2, <1>8 DEF s, t, u, v
----------------------------------------------------------------------------
(* Steps of requests keep Serving.                                         *)
LEMMA BuildServes ==
  ASSUME ImageInv, ImageInv', Serving, Build
  PROVE  Serving' /\ pc = "start" /\ pc' = "start"
<1>1. stage # "built"
  BY DEF Build, BuildNext, ScanRoot, Scan, Vanish, Leave, AtEntry, PlaceFile, DenyFile, PlaceDir,
         PlaceLink, PlaceHeader, WriteMeta, Turn
<1>2. pc = "start" /\ UNCHANGED <<ents, found, offset, pc, got, args, answer>>
  BY <1>1 DEF Serving, Build, search, mounted, request, reading
<1>3. data' \in Seq(Cell) /\ 1 \in DOMAIN data'
  BY DEF ImageInv, BuildInv, Tree, Laid
<1>4. Len(data') \in Nat /\ Len(data') >= 1
  BY <1>3
<1> QED
  BY <1>2, <1>4 DEF Serving

LEMMA MountServes ==
  ASSUME ImageInv, Serving, Mount
  PROVE  Serving'
<1>1. /\ stage = "built" /\ pc = "start" /\ pc' = "idle" /\ meta' = [k \in 1..Byte(0).length |-> Byte(k - 1)]
      /\ UNCHANGED <<data, stage, ents, found, offset, got, args, answer>>
  BY DEF Mount, built, search, request, reading
<1>2. /\ data \in Seq(Cell) /\ Len(data) \in Nat /\ Len(data) >= 1
      /\ data[1] = Header(Len(data))
  BY <1>1, KnownIs DEF ImageInv, Measured
<1>3. PICK S : blob \in Seq(S)
  BY DEF ImageInv, BuildInv, Bytes
<1>4. /\ Chunks \in Seq(Cell \cup S) /\ Len(Chunks) = Len(data) + Len(blob) /\ Len(blob) \in Nat
      /\ \A k \in 1..Len(data) : Chunks[k] = data[k]
  BY <1>2, <1>3 DEF Chunks
<1>5. \A k \in 1..Len(data) : Byte(k - 1) = data[k]
  <2> SUFFICES ASSUME NEW k \in 1..Len(data)
               PROVE  Byte(k - 1) = data[k]
    OBVIOUS
  <2>1. k - 1 < Len(Chunks) /\ (k - 1) + 1 = k
    BY <1>2, <1>4
  <2> QED
    BY <1>4, <2>1 DEF Byte
<1>6. Byte(0) = Header(Len(data))
  <2>1. 1 \in 1..Len(data) /\ 1 - 1 = 0
    BY <1>2
  <2> QED
    BY <1>2, <1>5, <2>1
<1>7. Byte(0).length = Len(data)
  BY <1>6 DEF Header
<1>8. meta' = data
  <2>1. meta' = [k \in 1..Len(data) |-> data[k]]
    BY <1>1, <1>5, <1>7
  <2> QED
    BY <1>2, <2>1
<1> QED
  BY <1>1, <1>8 DEF Serving

LEMMA BeginServes ==
  ASSUME ImageInv, Serving, NEW p, Begin(p)
  PROVE  Serving'
<1>1. /\ pc = "idle" /\ pc' = "walk" /\ offset' = 1
      /\ UNCHANGED <<data, stage, ents, found, meta, got, args, answer>>
  BY DEF Begin, built, search, reading
<1>2. 2 \in DOMAIN data /\ DOMAIN data = 1..Len(data) /\ Len(data) \in Nat
  BY <1>1, KnownIs DEF DirAt
<1>3. offset' \in 0..(Len(data) - 1)
  BY <1>1, <1>2
<1> QED
  BY <1>1, <1>3 DEF Serving

LEMMA GetChildServes ==
  ASSUME ImageInv, Serving, GetChild
  PROVE  Serving'
<1>1. /\ pc = "walk" /\ UNCHANGED <<data, stage, meta, offset, args, got>>
      /\ \/ pc' = "answer" /\ UNCHANGED <<ents, found>>
         \/ /\ pc' = "search" /\ IsTable(offset + 1, Found.length)
            /\ Search(Table(offset + 1, Found.length), Head(rest))
  BY DEF GetChild, built, request, reading, search, Reply
<1>2. /\ stage = "built" /\ meta = data /\ Inside(data) /\ data \in Seq(Cell) /\ offset + 1 \in Nat
      /\ got = << >> /\ args.op = "none" /\ Len(data) \in Nat /\ Len(data) >= 1
  BY <1>1, KnownIs DEF Serving
<1>3. CASE pc' = "answer" /\ UNCHANGED <<ents, found>>
  BY <1>1, <1>2, <1>3 DEF Serving
<1>4. CASE /\ pc' = "search" /\ IsTable(offset + 1, Found.length)
           /\ Search(Table(offset + 1, Found.length), Head(rest))
  <2>1. ents' = Table(offset + 1, Found.length) /\ found' \in {0, Pending}
    BY <1>4 DEF Search
  <2>2. \A k \in DOMAIN ents' : ents'[k].data_offset < Len(data)
    BY <1>2, <1>4, <2>1, TableInside
  <2>3. found' < Len(data)
    BY <1>2, <2>1 DEF Pending
  <2> QED
    BY <1>1, <1>2, <1>4, <2>2, <2>3 DEF Serving
<1> QED
  BY <1>1, <1>3, <1>4

LEMMA FindEntityServes ==
  ASSUME ImageInv, SearchInv, Serving, FindEntity
  PROVE  Serving'
<1>1. /\ pc \in {"search", "value"} /\ UNCHANGED <<data, stage, meta, pc, offset, args, got, answer>>
      /\ ents' = ents /\ (Probe \/ ProbeLast)
  BY DEF FindEntity, built, mounted, request, reading, Probe, ProbeLast
<1>2. Len(data) \in Nat /\ Len(data) >= 1 /\ found < Len(data)
      /\ \A k \in DOMAIN ents : ents[k].data_offset < Len(data)
  BY <1>1, KnownIs DEF Serving
<1>3. found' < Len(data)
  <2>1. found = Pending /\ DOMAIN ents = 1..Len(ents) /\ Len(ents) \in Nat /\ a \in Nat /\ b \in Int
        /\ a + 1 \in DOMAIN ents /\ b < Len(ents)
    BY <1>1 DEF SearchInv, ProbesInside, Probe, ProbeLast
  <2>2. CASE Probe
    <3> DEFINE m == (a + b) \div 2
    <3>1. m + 1 \in DOMAIN ents
      <4>1. a < b
        BY <2>2 DEF Probe
      <4> QED
        BY <2>1, <4>1
    <3>2. found' \in {ents[m + 1].data_offset, Pending}
      BY <2>2 DEF Probe
    <3> HIDE DEF m
    <3> QED
      BY <1>2, <3>1, <3>2 DEF Pending
  <2>3. CASE ProbeLast
    <3>1. found' \in {ents[a + 1].data_offset, 0}
      BY <2>3 DEF ProbeLast
    <3> QED
      BY <1>2, <2>1, <3>1
  <2> QED
    BY <1>1, <2>2, <2>3
<1> QED
  BY <1>1, <1>2, <1>3 DEF Serving, Found

LEMMA WalkServes ==
  ASSUME ImageInv, SearchInv, Serving, Enter \/ Resolved
  PROVE  Serving'
<1>1. CASE Enter
  <2>1. /\ pc = "search" /\ pc' \in {"walk", "answer"} /\ found # Pending
        /\ offset' \in {offset, found}
        /\ UNCHANGED <<data, stage, ents, found, meta, got, args>>
    BY <1>1 DEF Enter, built, search, reading, Reply
  <2>2. found \in Nat /\ found < Len(data) /\ offset \in 0..(Len(data) - 1) /\ Len(data) \in Nat
    BY <2>1, KnownIs DEF SearchInv, Serving
  <2>3. offset' \in 0..(Len(data) - 1)
    BY <2>1, <2>2
  <2> QED
    BY <2>1, <2>3 DEF Serving
<1>2. CASE Resolved
  <2>1. /\ pc = "walk" /\ pc' \in {"at", "answer"} /\ (pc' = "at" => Found.t = "node")
        /\ UNCHANGED <<data, stage, ents, found, meta, offset, got, args>>
    BY <1>2 DEF Resolved, built, search, request, reading, Reply
  <2> QED
    BY <2>1 DEF Serving, Found
<1> QED
  BY <1>1, <1>2

(* Handlers at a node that has been found, but readdir.                    *)
LEMMA HandlerServes ==
  ASSUME ImageInv, Serving, args \in Arguments,
         \/ ReadLink \/ ListName \/ ListEnds \/ AnswerXattr \/ Chunk \/ ChunkFails \/ ReadEnds \/ Done
         \/ \E size \in Buffers :
              \/ ListXattr(size)
              \/ \E n \in DOMAIN Values : GetXattr(n, size)
              \/ \E at \in 0..Max(Lengths) : Read(at, size)
  PROVE  Serving'
<1>1. CASE ReadLink
  <2>1. /\ pc = "at" /\ pc' = "answer"
        /\ UNCHANGED <<data, stage, ents, found, meta, offset, args>>
    BY <1>1 DEF ReadLink, built, search, request, Reply
  <2> QED
    BY <2>1 DEF Serving
<1>2. CASE AnswerXattr
  <2>1. /\ pc = "value" /\ pc' = "answer"
        /\ UNCHANGED <<data, stage, ents, found, meta, offset, args>>
    BY <1>2 DEF AnswerXattr, built, search, request, Reply
  <2> QED
    BY <2>1 DEF Serving
<1>3. CASE Chunk
  <2>1. pc = "chunks" /\ UNCHANGED <<data, stage, ents, found, meta, offset, args, pc, answer>>
    BY <1>3 DEF Chunk, built, search, request
  <2> QED
    BY <2>1 DEF Serving, Found
<1>4. CASE ChunkFails \/ ReadEnds
  <2>1. /\ pc = "chunks" /\ pc' = "answer"
        /\ UNCHANGED <<data, stage, ents, found, meta, offset, args>>
    BY <1>4 DEF ChunkFails, ReadEnds, built, search, request, Reply
  <2> QED
    BY <2>1 DEF Serving
<1>5. CASE Done
  <2>1. /\ pc = "answer" /\ pc' = "idle" /\ offset' = 0 /\ args' = NoArgs /\ got' = << >>
        /\ ents' = << >> /\ found' = 0 /\ UNCHANGED <<data, stage, meta>>
    BY <1>5 DEF Done, built
  <2>2. Len(data) \in Nat /\ Len(data) >= 1
    BY KnownIs
  <2> QED
    BY <2>1, <2>2 DEF Serving, NoArgs
<1>6. ASSUME NEW size \in Buffers, ListXattr(size)
      PROVE  Serving'
  <2>1. /\ pc = "at" /\ pc' \in {"names", "answer"} /\ args'.op = "listxattr"
        /\ UNCHANGED <<data, stage, ents, found, meta, offset>>
    BY <1>6 DEF ListXattr, built, search, Reply, NoArgs
  <2> QED
    BY <2>1 DEF Serving, Found
<1>7. ASSUME NEW n \in DOMAIN Values, NEW size \in Buffers, GetXattr(n, size)
      PROVE  Serving'
  <2>1. /\ pc = "at" /\ args'.op = "getxattr" /\ UNCHANGED <<data, stage, meta, offset>>
        /\ \/ pc' = "answer" /\ UNCHANGED <<ents, found>>
           \/ /\ pc' = "value" /\ IsTable(offset + 1, Found.xattrs_count)
              /\ Search(Table(offset + 1, Found.xattrs_count), n)
    BY <1>7 DEF GetXattr, built, search, reading, Reply, NoArgs
  <2>2. /\ stage = "built" /\ meta = data /\ Inside(data) /\ data \in Seq(Cell) /\ offset + 1 \in Nat
        /\ Len(data) \in Nat /\ Len(data) >= 1 /\ Found.t = "node"
    BY <2>1, KnownIs DEF Serving
  <2>3. CASE pc' = "answer" /\ UNCHANGED <<ents, found>>
    BY <2>1, <2>2, <2>3 DEF Serving
  <2>4. CASE /\ pc' = "value" /\ IsTable(offset + 1, Found.xattrs_count)
             /\ Search(Table(offset + 1, Found.xattrs_count), n)
    <3>1. ents' = Table(offset + 1, Found.xattrs_count) /\ found' \in {0, Pending}
      BY <2>4 DEF Search
    <3>2. \A k \in DOMAIN ents' : ents'[k].data_offset < Len(data)
      BY <2>2, <2>4, <3>1, TableInside
    <3>3. found' < Len(data)
      BY <2>2, <3>1 DEF Pending
    <3>4. Found'.t = "node"
      BY <2>1, <2>2 DEF Found
    <3> QED
      BY <2>1, <2>2, <2>4, <3>2, <3>3, <3>4 DEF Serving
  <2> QED
    BY <2>1, <2>3, <2>4
<1>8. ASSUME NEW size \in Buffers, NEW at \in 0..Max(Lengths), Read(at, size)
      PROVE  Serving'
  <2>1. /\ pc = "at" /\ pc' \in {"chunks", "answer"} /\ args'.op = "read"
        /\ UNCHANGED <<data, stage, ents, found, meta, offset>>
    BY <1>8 DEF Read, built, search, Reply, NoArgs
  <2> QED
    BY <2>1 DEF Serving, Found
<1>9. CASE ListName
  <2>1. /\ pc = "names" /\ pc' \in {"names", "answer"} /\ args' = [args EXCEPT !.at = @ + 1]
        /\ UNCHANGED <<data, stage, ents, found, meta, offset>>
    BY <1>9 DEF ListName, built, search, Reply
  <2>2. args'.op = args.op
    BY <2>1 DEF Arguments
  <2> QED
    BY <2>1, <2>2 DEF Serving, Found
<1>10. CASE ListEnds
  <2>1. /\ pc = "names" /\ pc' = "answer" /\ UNCHANGED <<data, stage, ents, found, meta, offset, args>>
    BY <1>10 DEF ListEnds, built, search, request, Reply
  <2> QED
    BY <2>1 DEF Serving
<1> QED
  BY <1>1, <1>2, <1>3, <1>4, <1>5, <1>6, <1>7, <1>8, <1>9, <1>10

LEMMA OpenDirServes ==
  ASSUME ImageInv, Serving, OpenDir
  PROVE  Serving'
<1>1. /\ pc = "at" /\ args' = [NoArgs EXCEPT !.op = "readdir"]
      /\ UNCHANGED <<data, stage, ents, found, meta, offset, got>>
      /\ \/ pc' = "answer" /\ answer' # "OK"
         \/ pc' = "list" /\ Found.kind = "dir" /\ IsTable(Found.data_offset, Found.length)
  BY DEF OpenDir, built, search, reading, Reply
<1>2. /\ Found.t = "node" /\ got = << >>
      /\ args' = [NoArgs EXCEPT !.op = "readdir", !.at = args'.at] /\ args'.op = "readdir" /\ args'.at = 0
  BY <1>1 DEF Serving, NoArgs
<1>3. CASE pc' = "answer" /\ answer' # "OK"
  BY <1>1, <1>3 DEF Serving
<1>4. CASE pc' = "list" /\ Found.kind = "dir" /\ IsTable(Found.data_offset, Found.length)
  <2>1. Found.length \in Nat
    BY <1>4 DEF IsTable
  <2>2. Delivered(0, 0) = << >>
    BY DEF Delivered
  <2>3. Found' = Found /\ Delivered(0, 0)' = Delivered(0, 0) /\ got' = << >>
    BY <1>1, <1>2 DEF Found, Delivered
  <2>4. Listing(0)'
    BY <1>2, <1>4, <2>1, <2>2, <2>3 DEF Listing
  <2>5. Listing(args.at)'
    BY <1>2, <2>4 DEF Listing, Found, Delivered
  <2> QED
    BY <1>1, <1>2, <1>4, <2>3, <2>5 DEF Serving
<1> QED
  BY <1>1, <1>3, <1>4

LEMMA ReadDirServes ==
  ASSUME ImageInv, Serving, ReadDir
  PROVE  Serving'
<1>1. pc = "list" /\ UNCHANGED <<data, stage, ents, found, meta, offset>>
  BY DEF ReadDir, built, search
<1>2. PICK to \in args.at..Found.length :
        /\ got' = got \o Delivered(args.at, to)
        /\ args' = [args EXCEPT !.at = to]
        /\ IF to = Found.length THEN Reply("OK") ELSE UNCHANGED <<pc, answer>>
  BY DEF ReadDir
<1>3. /\ args = [NoArgs EXCEPT !.op = "readdir", !.at = args.at] /\ Listing(args.at)
      /\ stage = "built" /\ meta = data
  BY <1>1 DEF Serving
<1>4. args' = [NoArgs EXCEPT !.op = "readdir", !.at = to] /\ args'.at = to
  <2> DEFINE y == args.at
  <2>1. args' = [[NoArgs EXCEPT !.op = "readdir", !.at = y] EXCEPT !.at = to]
    BY <1>2, <1>3
  <2> HIDE DEF y
  <2> QED
    BY <2>1 DEF NoArgs
<1>5. /\ Found.t = "node" /\ Found.kind = "dir" /\ Found.length \in Nat
      /\ args.at \in 0..Found.length /\ got = Delivered(0, args.at)
  BY <1>3 DEF Listing
<1>6. Found.data_offset \in Int
  <2> DEFINE c == data[offset + 1]
  <2>1. Found = c /\ c \in Cell
    BY <1>1, KnownIs
  <2> HIDE DEF c
  <2>2. c \in NodeCell
    BY <1>5, <2>1, CellsDiffer
  <2> QED
    BY <2>1, <2>2 DEF NodeCell
<1>7. got' = Delivered(0, to) /\ to \in 0..Found.length
  <2> DEFINE n == args.at
             l == Found.length
  <2>1. n \in 0..l /\ to \in n..l /\ l \in Nat
    BY <1>2, <1>5
  <2> HIDE DEF n, l
  <2>2. n \in Nat /\ to \in Nat /\ n <= to /\ to \in 0..l
    BY ONLY <2>1
  <2>3. Delivered(0, n) \o Delivered(n, to) = Delivered(0, to)
    BY <1>6, <2>2, DeliveredOn
  <2> QED
    BY <1>2, <1>5, <2>2, <2>3 DEF n, l
<1>8. Found' = Found /\ Delivered(0, to)' = Delivered(0, to)
  BY <1>1 DEF Found, Delivered
<1>9. Listing(to)'
  BY <1>5, <1>7, <1>8 DEF Listing
<1>10. CASE to = Found.length
  <2>1. pc' = "answer"
    BY <1>2, <1>10 DEF Reply
  <2>2. Listing(Found.length)'
    BY <1>8, <1>9, <1>10 DEF Listing, Found, Delivered
  <2> QED
    BY <1>1, <2>1, <2>2 DEF Serving
<1>11. CASE to # Found.length
  <2>1. pc' = "list"
    BY <1>1, <1>2, <1>11
  <2>2. Listing(args.at)'
    BY <1>4, <1>9 DEF Listing, Found, Delivered
  <2>3. args' = [NoArgs EXCEPT !.op = "readdir", !.at = args'.at]
    BY <1>4
  <2>4. Found'.t = "node"
    BY <1>5, <1>8
  <2> QED
    BY <1>1, <2>1, <2>2, <2>3, <2>4 DEF Serving
<1> QED
  BY <1>10, <1>11

(* What is asked.                                                          *)
LEMMA ArgumentsKept ==
  ASSUME args \in Arguments, [Next]_vars
  PROVE  args' \in Arguments
<1>1. CASE UNCHANGED args
  BY <1>1
<1>2. CASE ReadDir
  <2>1. PICK to \in args.at..Found.length : args' = [args EXCEPT !.at = to]
    BY <1>2 DEF ReadDir
  <2>2. to \in Nat
    BY DEF Arguments
  <2> QED
    BY <2>1, <2>2 DEF Arguments
<1>3. CASE ListName
  BY <1>3 DEF ListName, Arguments
<1>4. ASSUME NEW size \in Buffers, ListXattr(size)
      PROVE  args' \in Arguments
  BY <1>4 DEF ListXattr, NoArgs, Arguments
<1>5. ASSUME NEW size \in Buffers, NEW n \in DOMAIN Values, GetXattr(n, size)
      PROVE  args' \in Arguments
  BY <1>5 DEF GetXattr, NoArgs, Arguments
<1>6. ASSUME NEW size \in Buffers, NEW at \in 0..Max(Lengths), Read(at, size)
      PROVE  args' \in Arguments
  <2>1. args' = [NoArgs EXCEPT !.op = "read", !.buffer = size, !.at = at]
    BY <1>6 DEF Read
  <2>2. at \in Nat
    OBVIOUS
  <2> QED
    BY ONLY <2>1, <2>2, size \in Buffers DEF NoArgs, Arguments
<1>7. CASE OpenDir \/ Done
  BY <1>7 DEF OpenDir, Done, NoArgs, Arguments
<1>8. CASE \/ Build \/ Mount \/ GetChild \/ FindEntity \/ Enter \/ Resolved \/ ReadLink \/ ListEnds
           \/ AnswerXattr \/ Chunk \/ ChunkFails \/ ReadEnds \/ Dead \/ (\E p \in Asked : Begin(p))
           \/ UNCHANGED vars
  <2>1. UNCHANGED args
    BY <1>8 DEF Build, Mount, GetChild, FindEntity, Enter, Resolved, ReadLink, ListEnds,
       AnswerXattr, Chunk, ChunkFails, ReadEnds, Dead, Begin, vars, mounted, request
  <2> QED
    BY <1>1, <2>1
<1> QED
  BY <1>2, <1>3, <1>4, <1>5, <1>6, <1>7, <1>8 DEF Next

ServeInv == ImageInv /\ SearchInv /\ Serving /\ args \in Arguments

LEMMA ServeKeeps ==
  ASSUME ServeInv, [Next]_vars
  PROVE  ServeInv'
<1>1. SearchInv' /\ args' \in Arguments
  BY NextKeeps, ArgumentsKept DEF ServeInv
<1>2. ImageInv'
  BY StepsAre, ImageKeeps, ImageIdles DEF ServeInv
<1>3. CASE Build
  BY <1>1, <1>2, <1>3, BuildServes DEF ServeInv
<1>4. CASE \E p \in Asked : Begin(p)
  BY <1>1, <1>2, <1>4, BeginServes DEF ServeInv
<1>5. CASE Mount \/ GetChild \/ FindEntity \/ Enter \/ Resolved \/ OpenDir \/ ReadDir
  BY <1>1, <1>2, <1>5, MountServes, GetChildServes, FindEntityServes, WalkServes, OpenDirServes,
     ReadDirServes DEF ServeInv
<1>6. CASE \/ ReadLink \/ ListName \/ ListEnds \/ AnswerXattr \/ Chunk \/ ChunkFails \/ ReadEnds
           \/ Done
           \/ \E size \in Buffers :
                \/ ListXattr(size)
                \/ \E n \in DOMAIN Values : GetXattr(n, size)
                \/ \E at \in 0..Max(Lengths) : Read(at, size)
  BY <1>1, <1>2, <1>6, HandlerServes DEF ServeInv
<1>7. CASE Dead \/ UNCHANGED vars
  <2>1. /\ UNCHANGED <<pc, ents, found, offset, stage, data, meta, got, args, answer>>
    BY <1>7 DEF Dead, vars, built, search, mounted, request, reading
  <2>2. Found' = Found
    BY <2>1 DEF Found
  <2>3. Listing(args.at)' = Listing(args.at)
    BY <2>1, <2>2 DEF Listing, Delivered
  <2>4. Listing(Found.length)' = Listing(Found.length)
    BY <2>1, <2>2 DEF Listing, Delivered
  <2>5. Serving'
    BY <2>1, <2>2, <2>3, <2>4 DEF ServeInv, Serving
  <2> QED
    BY <1>1, <1>2, <2>5 DEF ServeInv
<1> QED
  BY <1>3, <1>4, <1>5, <1>6, <1>7 DEF Next

LEMMA ServeInvariant == Spec => []ServeInv
<1>1. Init => ServeInv
  <2> SUFFICES ASSUME Init
               PROVE  ServeInv
    OBVIOUS
  <2>1. ImageInv
    BY ImageInitKeeps DEF Init
  <2>2. Len(data) = 1
    BY DEF Init, BuildInit
  <2>3. Serving
    BY <2>2 DEF Init, SearchInit, NoArgs, Serving
  <2>4. SearchInv
    BY DEF Init, SearchInit, SearchInv, ProbesInside, SearchRight, Pending
  <2>5. args \in Arguments
    BY DEF Init, NoArgs, Arguments
  <2> QED
    BY <2>1, <2>3, <2>4, <2>5 DEF ServeInv
<1> QED
  BY <1>1, ServeKeeps, PTL DEF Spec

(* readdir, in however many calls, delivers the entries of the directory   *)
(* that was scanned, all of them and in their order, each with its own     *)
(* attributes unless it had vanished.                                      *)
THEOREM ListingCompleteHolds == Spec => []ListingComplete
<1>1. ServeInv => ListingComplete
  <2> SUFFICES ASSUME ServeInv, Answered("readdir"), answer = "OK"
               PROVE  LET names == tree[Found.stat].names
                      IN  got = [k \in DOMAIN names |->
                                   [name |-> names[k],
                                    stat |-> LET p == Append(Found.stat, names[k])
                                             IN  IF p \in DOMAIN tree THEN p ELSE NoStat]]
    BY DEF ListingComplete
  <2> DEFINE o == offset + 1
             c == data[o]
             names == tree[c.stat].names
             n == Len(names)
             entry(k) == LET e == meta[c.data_offset + 0 + k]
                             x == meta[e.data_offset + 1]
                         IN  [name |-> meta[e.name_offset + 1].is,
                              stat |-> IF x.t = "node" THEN x.stat ELSE NoStat]
             right(k) == [name |-> names[k],
                          stat |-> LET p == Append(c.stat, names[k])
                                   IN  IF p \in DOMAIN tree THEN p ELSE NoStat]
  <2>1. /\ stage = "built" /\ meta = data /\ RootKept /\ Listing(Found.length)
        /\ BuildInv /\ Found = c /\ o \in DOMAIN data /\ data[1].t = "header"
    BY KnownIs DEF ServeInv, Serving, Answered
  <2>2. DirAt(data, o) /\ got = Delivered(0, c.length)
    BY <2>1 DEF Listing, DirAt
  <2>3. /\ n \in Nat /\ DOMAIN names = 1..n /\ c.length = n /\ c.data_offset \in Nat
        /\ \A k \in 1..n :
             LET e == data[c.data_offset + k]
             IN  /\ data[e.name_offset + 1] = Name(names[k])
                 /\ LeadsTo(data, tree, e.data_offset, Append(c.stat, names[k]))
    BY <2>1, <2>2, DirectoryIs
  <2>4. Delivered(0, c.length) = [k \in 1..n |-> entry(k)]
    <3>1. c.length - 0 = n
      BY <2>3
    <3> QED
      BY <2>1, <3>1 DEF Delivered
  <2> HIDE DEF names, c, n, o
  <2>5. ASSUME NEW k \in 1..n
        PROVE  entry(k) = right(k)
    <3> DEFINE e == data[c.data_offset + k]
               p == Append(c.stat, names[k])
    <3>1. c.data_offset + 0 + k = c.data_offset + k
      BY <2>3
    <3>2. data[e.name_offset + 1] = Name(names[k]) /\ LeadsTo(data, tree, e.data_offset, p)
      BY <2>3
    <3> HIDE DEF e, p
    <3>3. data[e.name_offset + 1].is = names[k]
      BY <3>2 DEF Name
    <3>4. /\ p \in DOMAIN tree =>
               data[e.data_offset + 1].t = "node" /\ data[e.data_offset + 1].stat = p
          /\ p \notin DOMAIN tree => data[e.data_offset + 1].t # "node"
      BY <2>1, <3>2 DEF LeadsTo
    <3>5. meta[c.data_offset + 0 + k] = e
      BY <2>1, <3>1 DEF e
    <3> QED
      BY <2>1, <3>3, <3>4, <3>5 DEF p
  <2> HIDE DEF entry, right
  <2>6. got = [k \in DOMAIN names |-> right(k)]
    BY <2>2, <2>3, <2>4, <2>5
  <2> QED
    BY <2>1, <2>6 DEF right, names
<1> QED
  BY <1>1, ServeInvariant, PTL
----------------------------------------------------------------------------
(* What is left of a path.                                                 *)
LEMMA Remainder ==
  ASSUME NEW p \in Seq(Names), NEW n \in 0..Len(p)
  PROVE  LET r == SubSeq(p, n + 1, Len(p))
         IN  /\ r = << >> <=> n = Len(p)
             /\ n < Len(p) => /\ n + 1 \in 0..Len(p) /\ Head(r) = p[n + 1]
                              /\ Tail(r) = SubSeq(p, (n + 1) + 1, Len(p))
<1> DEFINE l == Len(p)
           r == SubSeq(p, n + 1, l)
<1>1. l \in Nat /\ n \in Nat /\ n <= l
  OBVIOUS
<1>2. /\ r \in Seq(Names) /\ Len(r) = l - n
      /\ \A k \in 1..(l - n) : r[k] = p[n + k]
  <2>1. \A k \in 1..(l - n) : (n + 1) + k - 1 = n + k /\ n + k \in 1..l
    BY <1>1
  <2>2. r = [k \in 1..(l - n) |-> p[n + k]]
    <3>1. IF n + 1 <= l THEN l - (n + 1) + 1 = l - n ELSE l - n = 0
      BY <1>1
    <3> QED
      BY <1>1, <2>1, <3>1
  <2>3. \A k \in 1..(l - n) : p[n + k] \in Names
    BY <2>1
  <2>4. l - n \in Nat
    BY <1>1
  <2> HIDE DEF r
  <2> QED
    BY <2>2, <2>3, <2>4
<1> DEFINE t == SubSeq(p, (n + 1) + 1, l)
<1> HIDE DEF r
<1>3. r = << >> <=> n = l
  <2>1. r = << >> <=> Len(r) = 0
    BY <1>2
  <2> QED
    BY <1>1, <1>2, <2>1
<1>4. ASSUME n < l
      PROVE  n + 1 \in 0..l /\ Head(r) = p[n + 1] /\ Tail(r) = t
  <2>1. n + 1 \in 0..l /\ l - n >= 1 /\ 1 \in 1..(l - n) /\ l - n \in Nat
    BY <1>1, <1>4
  <2>2. Head(r) = p[n + 1]
    BY <1>2, <2>1
  <2>3. Tail(r) \in Seq(Names) /\ Len(Tail(r)) = l - n - 1
        /\ \A k \in 1..(l - n - 1) : Tail(r)[k] = r[k + 1]
    BY <1>2, <2>1
  <2>4. \A k \in 1..(l - n - 1) : /\ k + 1 \in 1..(l - n) /\ n + (k + 1) = n + 1 + k
                                  /\ (n + 1) + 1 + k - 1 = n + 1 + k /\ n + 1 + k \in 1..l
    BY <1>1
  <2>5. \A k \in 1..(l - n - 1) : Tail(r)[k] = p[n + 1 + k]
    BY <1>2, <2>3, <2>4
  <2>6. t = [k \in 1..(l - n - 1) |-> p[n + 1 + k]]
    <3>1. IF (n + 1) + 1 <= l THEN l - ((n + 1) + 1) + 1 = l - n - 1 ELSE l - n - 1 = 0
      BY <1>1, <1>4
    <3> QED
      BY <1>1, <2>4, <3>1
  <2> HIDE DEF t
  <2>7. t \in Seq(Names) /\ Len(t) = l - n - 1 /\ \A k \in 1..(l - n - 1) : t[k] = p[n + 1 + k]
    <3>1. \A k \in 1..(l - n - 1) : p[n + 1 + k] \in Names
      BY <2>4
    <3>2. l - n - 1 \in Nat
      BY <2>1
    <3> QED
      BY <2>6, <3>1, <3>2
  <2>8. Tail(r) = t
    <3> DEFINE s == Tail(r)
    <3>1. s \in Seq(Names) /\ Len(s) = Len(t) /\ \A k \in 1..Len(s) : s[k] = t[k]
      BY <2>3, <2>5, <2>7
    <3> HIDE DEF s
    <3>2. s = t
      BY <2>7, <3>1, SameSeq
    <3> QED
      BY <3>2 DEF s
  <2> QED
    BY <2>1, <2>2, <2>8
<1> QED
  BY <1>3, <1>4 DEF r

(* What was found on the way to a path that was scanned.                   *)
LEMMA OnTheWay ==
  ASSUME ServeInv, NEW p \in DOMAIN tree, NEW n \in 0..(Len(p) - 1)
  PROVE  LET here == Begun(p, n)
         IN  /\ Begun(p, n + 1) = Append(here, p[n + 1]) /\ Begun(p, n + 1) \in DOMAIN tree
             /\ \E k \in 1..Len(tree[here].names) : tree[here].names[k] = p[n + 1]
             /\ tree[here].kind = "dir"
<1>1. Rooted(tree) /\ Grown(tree)
  BY KnownIs DEF ServeInv, BuildInv, Tree
<1>2. p \in Seq(Names) /\ Len(p) \in Nat
  BY <1>1 DEF Grown
<1>3. Begun(p, n + 1) = Append(Begun(p, n), p[n + 1]) /\ Begun(p, Len(p)) = p
  BY <1>2, Beginnings
<1>4. /\ Begun(p, n) \in DOMAIN tree
      /\ \E k \in 1..Len(tree[Begun(p, n)].names) : tree[Begun(p, n)].names[k] = p[n + 1]
  BY <1>1 DEF Rooted
<1>5. Begun(p, n + 1) \in DOMAIN tree
  <2>1. CASE n + 1 = Len(p)
    BY <1>3, <2>1
  <2>2. CASE n + 1 # Len(p)
    <3>1. n + 1 \in 0..(Len(p) - 1)
      BY <1>2, <2>2
    <3> QED
      BY <1>1, <3>1 DEF Rooted
  <2> QED
    BY <2>1, <2>2
<1>6. tree[Begun(p, n)].kind = "dir"
  <2> DEFINE s == tree[Begun(p, n)]
  <2>1. GoodAnswer(s) /\ \E k \in 1..Len(s.names) : s.names[k] = p[n + 1]
    BY <1>1, <1>4 DEF Grown
  <2> HIDE DEF s
  <2>2. s.names # << >>
    BY <2>1
  <2>3. s.kind = "dir"
    BY <2>1, <2>2 DEF GoodAnswer
  <2> QED
    BY <2>3 DEF s
<1> QED
  BY <1>3, <1>4, <1>5, <1>6

(* What was scanned does not change any more, nor does the path.           *)
Undisturbed == RootKept /\ Plain

LEMMA ClearKept ==
  ASSUME UNCHANGED <<built, path>>
  PROVE  Undisturbed' = Undisturbed
BY DEF Undisturbed, RootKept, Plain, Above, built

LEMMA BeginWalks ==
  ASSUME ServeInv, NEW p \in Asked, Begin(p)
  PROVE  Walking'
<1>1. /\ pc = "idle" /\ pc' = "walk" /\ path' = p /\ rest' = p /\ offset' = 1
      /\ UNCHANGED <<tree, meta>>
  BY DEF Begin, built
<1>2. /\ meta = data /\ DirAt(data, 2) /\ data[2].stat = Root /\ Grown(tree) /\ Statted(data, tree)
  BY <1>1, KnownIs DEF ServeInv, Serving, BuildInv, Tree
<1>3. p \in Seq(Names)
  <2>1. Root \in Seq(Names)
    BY DEF Root
  <2>2. ASSUME NEW q \in DOMAIN tree, NEW m \in Names
        PROVE  Append(q, m) \in Seq(Names)
    BY <1>2, Appended DEF Grown
  <2> QED
    BY <2>1, <2>2 DEF Asked
<1>4. Root \in DOMAIN tree
  BY <1>2 DEF DirAt, Statted
<1>5. Begun(p, 0) = Root /\ Begun(p, Len(p)) = p /\ Len(p) \in Nat
  BY <1>3, Beginnings
<1>6. SubSeq(p, 0 + 1, Len(p)) = p
  BY <1>5 DEF Begun
<1>7. Found' = data[2]
  BY <1>1, <1>2 DEF Found
<1>8. At(0)'
  <2>1. 0 \in 0..Len(path') /\ rest' = SubSeq(path', 0 + 1, Len(path'))
    BY <1>1, <1>5, <1>6
  <2>2. Begun(path', 0) = Root /\ Root \in DOMAIN tree'
    BY <1>1, <1>4, <1>5
  <2>3. Found'.t = "node" /\ Found'.stat = Root
    BY <1>2, <1>7 DEF DirAt
  <2> QED
    BY ONLY <2>1, <2>2, <2>3 DEF At, Begun
<1>9. 0 \in 0..Len(path')
  BY <1>1, <1>5
<1> QED
  BY <1>1, <1>3, <1>8, <1>9 DEF Walking

LEMMA GetChildWalks ==
  ASSUME ServeInv, Walking, GetChild
  PROVE  Walking'
<1>1. /\ pc = "walk" /\ rest # << >> /\ pc' \in {"search", "answer"}
      /\ UNCHANGED <<built, meta, path, rest, offset, args>>
  BY DEF GetChild, request, Reply
<1>2. Undisturbed' = Undisturbed
  BY <1>1, ClearKept
<1> SUFFICES ASSUME Undisturbed
             PROVE  Walking'
  BY <1>2 DEF Walking, Undisturbed
<1>3. PICK n \in 0..Len(path) : At(n)
  BY <1>1 DEF Walking, Undisturbed
<1> DEFINE o == offset + 1
           here == Begun(path, n)
           c == data[o]
           names == tree[here].names
<1>4. /\ path \in Seq(Names) /\ rest = SubSeq(path, n + 1, Len(path)) /\ here \in DOMAIN tree
      /\ Found.t = "node" /\ Found.stat = here
  BY <1>1, <1>3 DEF At, Walking, Undisturbed
<1>5. n < Len(path) /\ Head(rest) = path[n + 1] /\ Len(path) \in Nat
  <2>1. path \in Seq(Names) /\ n \in 0..Len(path) /\ Len(path) \in Nat
    BY <1>4
  <2>2. /\ rest = << >> <=> n = Len(path)
        /\ n < Len(path) => Head(rest) = path[n + 1]
    BY ONLY <1>4, <2>1, Remainder
  <2>3. rest # << >>
    BY <1>1
  <2>4. n < Len(path)
    BY ONLY <2>1, <2>2, <2>3
  <2> QED
    BY ONLY <2>1, <2>2, <2>4
<1>6. /\ stage = "built" /\ meta = data /\ BuildInv /\ o \in DOMAIN data /\ Found = c
      /\ RootKept /\ Plain /\ Grown(tree) /\ Statted(data, tree)
  BY <1>1, KnownIs DEF ServeInv, Serving, Undisturbed, BuildInv, Tree
<1>7. c.t = "node" /\ c.stat = here /\ c.kind = tree[here].kind
  BY <1>4, <1>6 DEF Statted
<1>8. CASE Found.kind = "dir"
  <2>1. DirAt(data, o)
    BY <1>6, <1>7, <1>8 DEF DirAt
  <2>2. tree[here].xattrs = << >>
    <3>1. here # path
      <4>1. Len(here) = n
        BY <1>4, Beginnings
      <4> QED
        BY <1>5, <4>1
    <3>2. here \in Above
      <4>1. n \in 0..(Len(path) - 1)
        BY <1>5
      <4> QED
        BY <4>1 DEF Above, Begun
    <3> QED
      BY <1>4, <1>6, <3>1, <3>2 DEF Plain
  <2> DEFINE table == Table(o, c.length)
  <2>3. /\ IsTable(o, c.length) /\ table \in Seq(EntryRecord) /\ Len(table) = Len(names)
        /\ \A k \in 1..Len(names) :
             /\ table[k].name = names[k]
             /\ LeadsTo(data, tree, table[k].data_offset, Append(here, names[k]))
    <3> HIDE DEF here, o
    <3>1. tree[data[o].stat].xattrs = << >>
      BY <1>7, <2>2
    <3> QED
      BY <1>6, <1>7, <2>1, <3>1, ChildEntries
  <2>4. Search(table, Head(rest)) /\ pc' = "search"
    BY <1>1, <1>4, <1>6, <1>8, <2>3 DEF GetChild
  <2>5. ents' = table /\ sought' = path[n + 1]
    BY <1>5, <2>4 DEF Search
  <2> HIDE DEF table
  <2>6. At(n)'
    BY <1>1, <1>3 DEF At, Found, Begun, built
  <2>7. Seeking(n)'
    BY <1>1, <1>5, <2>3, <2>5, <2>6 DEF Seeking, built, Begun, LeadsTo
  <2> QED
    BY <1>1, <1>4, <2>4, <2>7 DEF Walking
<1>9. CASE Found.kind # "dir"
  <2>1. pc' = "answer" /\ answer' = "ENOENT"
    BY <1>1, <1>4, <1>9 DEF GetChild, Reply
  <2>2. path \notin DOMAIN tree
    <3>1. tree[here].kind # "dir"
      BY <1>6, <1>7, <1>9
    <3>2. n \in 0..(Len(path) - 1)
      BY <1>5
    <3> QED
      BY <3>1, <3>2, OnTheWay
  <2> QED
    BY <1>1, <2>1, <2>2 DEF Walking, built
<1> QED
  BY <1>8, <1>9

LEMMA EnterWalks ==
  ASSUME ServeInv, Walking, Enter
  PROVE  Walking'
<1>1. /\ pc = "search" /\ found # Pending /\ UNCHANGED <<built, meta, path, args>>
      /\ IF found = 0
         THEN pc' = "answer" /\ answer' = "ENOENT"
         ELSE offset' = found /\ rest' = Tail(rest) /\ pc' = "walk"
  BY DEF Enter, Reply
<1>2. Undisturbed' = Undisturbed
  BY <1>1, ClearKept
<1> SUFFICES ASSUME Undisturbed
             PROVE  Walking'
  BY <1>2 DEF Walking, Undisturbed
<1>3. PICK n \in 0..Len(path) : Seeking(n)
  BY <1>1 DEF Walking, Undisturbed
<1> DEFINE here == Begun(path, n)
           next == path[n + 1]
           p == Append(here, next)
           names == tree[here].names
<1>4. /\ path \in Seq(Names) /\ rest = SubSeq(path, n + 1, Len(path)) /\ here \in DOMAIN tree
      /\ n < Len(path) /\ sought = next
      /\ ents \in Seq(EntryRecord) /\ Len(ents) = Len(names)
      /\ \A k \in 1..Len(names) :
           /\ ents[k].name = names[k]
           /\ LeadsTo(data, tree, ents[k].data_offset, Append(here, names[k]))
  BY <1>1, <1>3 DEF Seeking, At, Walking, Undisturbed
<1>5. /\ n \in 0..(Len(path) - 1) /\ Len(path) \in Nat /\ n + 1 \in 0..Len(path)
      /\ Tail(rest) = SubSeq(path, (n + 1) + 1, Len(path)) /\ Begun(path, n + 1) = p
  <2>1. n \in 0..(Len(path) - 1) /\ Len(path) \in Nat
    BY <1>4
  <2>2. path \in Seq(Names) /\ n \in 0..Len(path)
    BY <1>4
  <2>3. n + 1 \in 0..Len(path) /\ Tail(rest) = SubSeq(path, (n + 1) + 1, Len(path))
    BY ONLY <1>4, <2>2, Remainder
  <2>4. Begun(path, n + 1) = p
    BY ONLY <2>1, <2>2, Beginnings DEF here, next, p
  <2> QED
    BY ONLY <2>1, <2>3, <2>4
<1>6. /\ meta = data /\ data[1].t = "header" /\ SearchRight /\ Grown(tree)
  BY <1>1, KnownIs DEF ServeInv, Serving, SearchInv, BuildInv, Tree
<1>7. Sorted(ents) /\ DOMAIN ents = 1..Len(names)
  <2>1. GoodAnswer(tree[here])
    BY <1>4, <1>6 DEF Grown
  <2>2. InOrder(names) /\ DOMAIN names = 1..Len(names)
    BY <2>1, NamesDiffer DEF GoodAnswer
  <2>3. DOMAIN ents = 1..Len(names)
    BY <1>4
  <2> HIDE DEF names
  <2> QED
    BY <1>4, <2>2, <2>3 DEF InOrder, Sorted
<1> HIDE DEF here, next, names
<1>8. ASSUME \E k \in 1..Len(names) : names[k] = next
      PROVE  LeadsTo(data, tree, found, p)
  <2>1. \E k \in DOMAIN ents : ents[k].name = sought
    BY <1>4, <1>7, <1>8
  <2>2. PICK k \in DOMAIN ents : ents[k].name = sought /\ ents[k].data_offset = found
    BY <1>1, <1>6, <1>7, <2>1 DEF SearchRight
  <2>3. names[k] = next /\ LeadsTo(data, tree, found, Append(here, names[k]))
    BY <1>4, <1>7, <2>2
  <2> QED
    BY <2>3
<1>9. CASE found = 0
  <2>1. ASSUME path \in DOMAIN tree
        PROVE  FALSE
    <3>1. /\ p \in DOMAIN tree /\ \E k \in 1..Len(names) : names[k] = next
      BY <1>5, <2>1, OnTheWay DEF here, names, next
    <3> HIDE DEF p
    <3>2. LeadsTo(data, tree, found, p)
      BY <1>8, <3>1
    <3>3. data[0 + 1].t = "node"
      BY <1>9, <3>1, <3>2 DEF LeadsTo
    <3> QED
      BY <1>6, <3>3
  <2> QED
    BY <1>1, <1>9, <2>1 DEF Walking, built
<1>10. CASE found # 0
  <2>1. \E k \in 1..Len(names) : names[k] = next
    <3>1. \E k \in DOMAIN ents : ents[k].name = sought
      BY <1>1, <1>6, <1>7, <1>10 DEF SearchRight
    <3> QED
      BY <1>4, <1>7, <3>1
  <2> HIDE DEF p
  <2>2. p \in DOMAIN tree /\ data[found + 1].t = "node" /\ data[found + 1].stat = p
    BY <1>8, <1>10, <2>1 DEF LeadsTo
  <2>3. offset' = found /\ rest' = Tail(rest) /\ pc' = "walk"
    BY <1>1, <1>10
  <2>4. Found' = data[found + 1]
    BY <1>1, <1>6, <2>3 DEF Found
  <2>5. At(n + 1)'
    BY <1>1, <1>5, <2>2, <2>3, <2>4 DEF At, Begun, built
  <2> QED
    BY <1>1, <1>4, <1>5, <2>3, <2>5 DEF Walking
<1> QED
  BY <1>9, <1>10

LEMMA ResolvedWalks ==
  ASSUME ServeInv, Walking, Resolved
  PROVE  Walking'
<1>1. /\ pc = "walk" /\ rest = << >> /\ UNCHANGED <<built, meta, path, offset>>
      /\ pc' \in {"at", "answer"} /\ (Found.t = "node" => pc' = "at")
  BY DEF Resolved, Reply, request
<1>2. Undisturbed' = Undisturbed
  BY <1>1, ClearKept
<1> SUFFICES ASSUME Undisturbed
             PROVE  Walking'
  BY <1>2 DEF Walking, Undisturbed
<1>3. PICK n \in 0..Len(path) : At(n)
  BY <1>1 DEF Walking, Undisturbed
<1>4. /\ path \in Seq(Names) /\ rest = SubSeq(path, n + 1, Len(path)) /\ Begun(path, n) \in DOMAIN tree
      /\ Found.t = "node" /\ Found.stat = Begun(path, n)
  BY <1>1, <1>3 DEF At, Walking, Undisturbed
<1>5. n = Len(path)
  <2>1. path \in Seq(Names) /\ n \in 0..Len(path)
    BY <1>4
  <2>2. rest = << >> <=> n = Len(path)
    BY ONLY <1>4, <2>1, Remainder
  <2> QED
    BY ONLY <1>1, <2>2
<1>6. Begun(path, n) = path
  BY <1>4, <1>5, Beginnings
<1>7. Found' = Found /\ pc' = "at" /\ tree' = tree
  BY <1>1, <1>4 DEF Found, built
<1> QED
  BY <1>1, <1>4, <1>6, <1>7 DEF Walking

LEMMA WalkingKeeps ==
  ASSUME ServeInv, Walking, [Next]_vars
  PROVE  Walking'
<1>1. CASE Build \/ Mount
  <2>1. pc' \in {"start", "idle"}
    BY <1>1, BuildServes, ServeKeeps DEF ServeInv, Mount
  <2> QED
    BY <2>1 DEF Walking
<1>2. CASE \E p \in Asked : Begin(p)
  BY <1>2, BeginWalks
<1>3. CASE GetChild \/ Enter \/ Resolved
  BY <1>3, GetChildWalks, EnterWalks, ResolvedWalks
<1>4. CASE FindEntity
  <2>1. /\ pc' = pc /\ pc \in {"search", "value"}
        /\ UNCHANGED <<built, ents, sought, meta, path, rest, offset>>
    BY <1>4 DEF FindEntity, Probe, ProbeLast, mounted, request
  <2>2. Undisturbed' = Undisturbed
    BY <2>1, ClearKept
  <2>3. CASE pc = "search" /\ Undisturbed
    <3>1. PICK n \in 0..Len(path) : Seeking(n)
      BY <2>3 DEF Walking, Undisturbed
    <3>2. Seeking(n)'
      BY <2>1, <3>1 DEF Seeking, At, Found, Begun, LeadsTo, built
    <3> QED
      BY <2>1, <2>3, <3>2 DEF Walking, Undisturbed
  <2> QED
    BY <2>1, <2>2, <2>3 DEF Walking, Undisturbed
<1>5. CASE ReadLink
  <2>1. /\ pc = "at" /\ pc' = "answer" /\ answer' \in {"OK", "EINVAL"}
        /\ UNCHANGED <<built, path>>
    BY <1>5 DEF ReadLink, Reply, request
  <2> QED
    BY <2>1 DEF Walking
<1>6. CASE ReadDir
  <2>1. pc = "list" /\ pc' \in {"list", "answer"} /\ \E to : args' = [args EXCEPT !.at = to]
    BY <1>6 DEF ReadDir, Reply
  <2>2. args = [NoArgs EXCEPT !.op = "readdir", !.at = args.at]
    BY <2>1 DEF ServeInv, Serving
  <2>3. args'.op = "readdir"
    <3> DEFINE y == args.at
    <3>1. \E to : args' = [[NoArgs EXCEPT !.op = "readdir", !.at = y] EXCEPT !.at = to]
      BY <2>1, <2>2
    <3> HIDE DEF y
    <3> QED
      BY <3>1 DEF NoArgs
  <2> QED
    BY <2>1, <2>3 DEF Walking
<1>7. CASE \/ OpenDir
           \/ \E size \in Buffers :
                \/ ListXattr(size)
                \/ \E n \in DOMAIN Values : GetXattr(n, size)
                \/ \E at \in 0..Max(Lengths) : Read(at, size)
  <2>1. pc' \in {"list", "names", "answer", "value", "chunks"} /\ args'.op # "none"
    BY <1>7 DEF OpenDir, ListXattr, GetXattr, Read, Reply, NoArgs
  <2> QED
    BY <2>1 DEF Walking
<1>8. CASE AnswerXattr \/ Chunk \/ ChunkFails \/ ReadEnds
  <2>1. pc \in {"value", "chunks"} /\ pc' \in {"chunks", "answer"} /\ args' = args
    BY <1>8 DEF AnswerXattr, Chunk, ChunkFails, ReadEnds, request, Reply
  <2> QED
    BY <2>1 DEF ServeInv, Serving, Walking
<1>11. CASE ListName \/ ListEnds
  <2>1. pc = "names" /\ pc' \in {"names", "answer"} /\ args' \in {args, [args EXCEPT !.at = @ + 1]}
    BY <1>11 DEF ListName, ListEnds, request, Reply
  <2>2. args'.op = args.op /\ args.op = "listxattr"
    BY <2>1 DEF ServeInv, Serving, Arguments
  <2> QED
    BY <2>1, <2>2 DEF Walking
<1>9. CASE Done
  <2>1. pc' = "idle"
    BY <1>9 DEF Done
  <2> QED
    BY <2>1 DEF Walking
<1>10. CASE Dead \/ UNCHANGED vars
  <2>1. UNCHANGED <<built, ents, sought, meta, path, rest, offset, pc, args, answer>>
    BY <1>10 DEF Dead, vars, search, mounted, request
  <2>2. Undisturbed' = Undisturbed
    BY <2>1, ClearKept
  <2> SUFFICES ASSUME Undisturbed
               PROVE  Walking'
    BY <2>2 DEF Walking, Undisturbed
  <2>3. \A n : (At(n) => At(n)') /\ (Seeking(n) => Seeking(n)')
    BY <2>1 DEF Seeking, At, Found, Begun, LeadsTo, built
  <2>4. Found' = Found /\ tree' = tree
    BY <2>1 DEF Found, built
  <2> QED
    BY <2>1, <2>3, <2>4 DEF Walking, Undisturbed
<1> QED
  BY <1>1, <1>2, <1>3, <1>4, <1>5, <1>6, <1>7, <1>8, <1>9, <1>10, <1>11 DEF Next

(* A path is found if it was scanned, with its own node, and nothing else  *)
(* is, as long as no directory on the way has extended attributes.         *)
THEOREM LookupRightHolds == Spec => []LookupRight
<1>1. Init => Walking
  BY DEF Init, Walking
<1>2. ServeInv /\ Walking /\ [Next]_vars => Walking'
  BY WalkingKeeps
<1>3. Walking => LookupRight
  BY DEF Walking, LookupRight
<1> QED
  BY <1>1, <1>2, <1>3, ServeInvariant, PTL DEF Spec
----------------------------------------------------------------------------
(* What the locals of a handler are.                                       *)
Handling ==
  /\ rest \in Seq(Names)
  /\ pc = "search" => rest # << >>
  /\ left \in 0..args.buffer
  /\ pc \in {"start", "idle", "walk", "search", "at"} => left = 0
  /\ of \in 0..(ChunkSize - 1)
  /\ id \in Nat
  /\ answer \in {"none", "OK", "ENOENT", "ENOTDIR", "EINVAL", "EACCES", "ERANGE", "ENODATA",
                 "undefined"}

LEMMA AskedTyped ==
  ASSUME ImageInv, NEW p \in Asked
  PROVE  p \in Seq(Names)
<1>1. Root \in Seq(Names)
  BY DEF Root
<1>2. Grown(tree)
  BY DEF ImageInv, BuildInv, Tree
<1>3. ASSUME NEW q \in DOMAIN tree, NEW m \in Names
      PROVE  Append(q, m) \in Seq(Names)
  BY <1>2, Appended DEF Grown
<1> QED
  BY <1>1, <1>3 DEF Asked

LEMMA ArgumentsTyped ==
  ASSUME args \in Arguments
  PROVE  args.buffer \in Nat /\ args.at \in Nat
<1>1. args.buffer \in {0} \cup Buffers /\ args.at \in Nat
  BY DEF Arguments
<1>2. \A size \in {0} \cup Buffers : size \in Nat
  BY BuffersAssumption
<1> QED
  BY ONLY <1>1, <1>2

(* A read, and a turn of its loop.                                         *)
LEMMA ReadHandles ==
  ASSUME ServeInv, Handling, NEW size \in Buffers, NEW at \in 0..Max(Lengths), Read(at, size)
  PROVE  Handling'
<1> DEFINE from == (Found.data_offset + at) % Wrap
           length == (Found.length - at) % Wrap
<1>1. /\ pc = "at" /\ left = 0 /\ UNCHANGED rest /\ args'.buffer = size
      /\ \/ /\ pc' = "chunks" /\ left' = Smaller(length, size)
            /\ id' = (from \div ChunkSize) % IdWrap
            /\ of' = from % ChunkSize /\ UNCHANGED answer
         \/ pc' = "answer" /\ answer' = "EACCES" /\ UNCHANGED <<left, id, of>>
  BY DEF Read, Reply, NoArgs, Handling, request
<1>2. /\ size \in Nat /\ Wrap \in Nat \ {0} /\ ChunkSize \in Nat \ {0} /\ at \in Int
      /\ IdWrap \in Nat \ {0}
  BY BuffersAssumption, CellsAssumption, IdWrapAssumption
<1>3. Found.length \in Int /\ Found.data_offset \in Int
  <2>1. /\ stage = "built" /\ meta = data /\ data \in Seq(Cell) /\ offset + 1 \in DOMAIN data
        /\ Found.t = "node"
    BY <1>1, KnownIs DEF ServeInv, Serving
  <2>2. Found \in NodeCell
    BY <2>1, CellsDiffer DEF Found
  <2> QED
    BY <2>2 DEF NodeCell
<1>4. length \in Nat /\ from \in Nat
  <2>1. Found.length - at \in Int /\ Found.data_offset + at \in Int
    BY <1>2, <1>3
  <2> QED
    BY ONLY <1>2, <2>1 DEF length, from
<1> HIDE DEF length, from
<1>5. Smaller(length, size) \in 0..size
  BY ONLY <1>2, <1>4 DEF Smaller
<1>6. (from \div ChunkSize) % IdWrap \in Nat /\ from % ChunkSize \in 0..(ChunkSize - 1)
  <2>1. from \div ChunkSize \in Nat /\ from % ChunkSize \in 0..(ChunkSize - 1)
    BY ONLY <1>2, <1>4
  <2> DEFINE q == from \div ChunkSize
  <2>2. q \in Nat
    BY <2>1
  <2> HIDE DEF q
  <2>3. q % IdWrap \in Nat
    BY ONLY <1>2, <2>2
  <2> QED
    BY <2>1, <2>3 DEF q
<1>7. 0 \in 0..size
  BY <1>2
<1> QED
  BY <1>1, <1>5, <1>6, <1>7 DEF Handling

LEMMA ChunkHandles ==
  ASSUME ServeInv, Handling, Chunk
  PROVE  Handling'
<1> DEFINE len == Smaller(left, ChunkSize - of)
<1>1. /\ pc = "chunks" /\ left' = left - len /\ of' = 0 /\ id' = (id + 1) % IdWrap
      /\ UNCHANGED <<pc, rest, args, answer>>
  BY DEF Chunk, request
<1>2. ChunkSize \in Nat \ {0} /\ left \in 0..args.buffer /\ of \in 0..(ChunkSize - 1) /\ id \in Nat
      /\ args.buffer \in Nat /\ IdWrap \in Nat \ {0}
  <2>1. args.buffer \in Nat
    BY ArgumentsTyped DEF ServeInv
  <2> QED
    BY <2>1, CellsAssumption, IdWrapAssumption DEF Handling
<1>3. len \in 0..left
  BY ONLY <1>2 DEF len, Smaller
<1> HIDE DEF len
<1>4. left' \in 0..args'.buffer /\ of' \in 0..(ChunkSize - 1) /\ id' \in Nat
  BY ONLY <1>1, <1>2, <1>3
<1> QED
  BY <1>1, <1>4 DEF Handling

LEMMA HandlingKeeps ==
  ASSUME ServeInv, Handling, [Next]_vars
  PROVE  Handling'
<1>1. args.buffer \in Nat /\ ChunkSize \in Nat \ {0} /\ left \in Int /\ \A size \in Buffers : size \in Nat
  <2>1. args.buffer \in Nat
    BY ArgumentsTyped DEF ServeInv
  <2>2. left \in 0..args.buffer
    BY DEF Handling
  <2> QED
    BY <2>1, <2>2, CellsAssumption, BuffersAssumption
<1>2. CASE Build \/ Mount \/ FindEntity \/ ReadLink \/ ListEnds \/ AnswerXattr \/ ChunkFails \/ ReadEnds
           \/ Dead \/ UNCHANGED vars
  <2>1. UNCHANGED <<rest, left, args, of, id>>
    BY <1>2 DEF Build, Mount, FindEntity, ReadLink, ListEnds, AnswerXattr, ChunkFails, ReadEnds, Dead,
       vars, mounted, request, reading
  <2>2. /\ answer' \in {answer, "OK", "EINVAL", "ENODATA", "ERANGE", "EACCES", "undefined"}
        /\ pc' \in {"start", "idle", "walk", "search", "at"} =>
             pc \in {"start", "idle", "walk", "search", "at"}
        /\ pc' = "search" => pc = "search"
    <3>1. CASE Build \/ Dead \/ UNCHANGED vars
      BY <3>1 DEF Build, Dead, vars, mounted
    <3>2. CASE Mount \/ FindEntity
      BY <3>2 DEF Mount, FindEntity, mounted
    <3>3. CASE ReadLink \/ ListEnds \/ AnswerXattr \/ ChunkFails \/ ReadEnds
      BY <3>3 DEF ReadLink, ListEnds, AnswerXattr, ChunkFails, ReadEnds, Reply
    <3> QED
      BY <1>2, <3>1, <3>2, <3>3
  <2> QED
    BY <2>1, <2>2 DEF Handling
<1>3. ASSUME NEW p \in Asked, Begin(p)
      PROVE  Handling'
  <2>1. p \in Seq(Names)
    BY AskedTyped DEF ServeInv
  <2> QED
    BY <1>3, <2>1 DEF Begin, Handling, reading
<1>4. CASE GetChild \/ Resolved
  <2>1. /\ pc = "walk" /\ pc' \in {"search", "at", "answer"} /\ (pc' = "search" => rest # << >>)
        /\ answer' \in {answer, "undefined", "ENOENT"} /\ UNCHANGED <<rest, left, args, of, id>>
    BY <1>4 DEF GetChild, Resolved, Reply, request, reading
  <2> QED
    BY <2>1 DEF Handling
<1>5. CASE Enter
  <2>1. /\ pc = "search" /\ pc' \in {"walk", "answer"} /\ answer' \in {answer, "ENOENT"}
        /\ rest' \in {rest, Tail(rest)} /\ UNCHANGED <<left, args, of, id>>
    BY <1>5 DEF Enter, Reply, reading
  <2>2. Tail(rest) \in Seq(Names)
    BY <2>1 DEF Handling
  <2> QED
    BY <2>1, <2>2 DEF Handling
<1>6. CASE OpenDir
  <2>1. /\ pc = "at" /\ pc' \in {"list", "answer"} /\ answer' \in {answer, "undefined", "ENOTDIR"}
        /\ args'.buffer = 0 /\ UNCHANGED <<rest, left, of, id>>
    BY <1>6 DEF OpenDir, Reply, NoArgs, reading
  <2> QED
    BY <2>1 DEF Handling
<1>7. CASE ReadDir
  <2>1. /\ pc = "list" /\ pc' \in {"list", "answer"} /\ answer' \in {answer, "OK"}
        /\ \E to : args' = [args EXCEPT !.at = to]
        /\ UNCHANGED <<rest, left, of, id>>
    BY <1>7 DEF ReadDir, Reply
  <2>2. args'.buffer = args.buffer
    BY <2>1 DEF ServeInv, Arguments
  <2> QED
    BY <2>1, <2>2 DEF Handling
<1>8. ASSUME NEW size \in Buffers, ListXattr(size)
      PROVE  Handling'
  <2>1. /\ pc = "at" /\ pc' \in {"names", "answer"} /\ answer' \in {answer, "undefined"}
        /\ args'.buffer = size /\ left' \in {left, size} /\ UNCHANGED <<rest, of, id>>
    BY <1>8 DEF ListXattr, Reply, NoArgs
  <2>2. left = 0
    BY <2>1 DEF Handling
  <2>3. left' \in 0..args'.buffer
    BY <1>1, <2>1, <2>2
  <2> QED
    BY <2>1, <2>3 DEF Handling
<1>9. CASE ListName
  <2>1. /\ pc = "names" /\ pc' \in {"names", "answer"} /\ answer' \in {answer, "ERANGE"}
        /\ args' = [args EXCEPT !.at = @ + 1] /\ UNCHANGED <<rest, of, id>>
        /\ left' = left \/ (NameBytes <= left /\ left' = left - NameBytes)
    BY <1>9 DEF ListName, Reply
  <2>2. args'.buffer = args.buffer
    BY <2>1 DEF ServeInv, Arguments
  <2>3. left \in 0..args.buffer /\ NameBytes \in Nat
    BY BuffersAssumption DEF Handling
  <2>4. left' \in 0..args'.buffer
    BY ONLY <1>1, <2>1, <2>2, <2>3
  <2> QED
    BY <2>1, <2>4 DEF Handling
<1>10. ASSUME NEW size \in Buffers, NEW n \in DOMAIN Values, GetXattr(n, size)
       PROVE  Handling'
  <2>1. /\ pc = "at" /\ pc' \in {"value", "answer"} /\ answer' \in {answer, "undefined"}
        /\ args'.buffer = size /\ UNCHANGED <<rest, left, of, id>>
    BY <1>10 DEF GetXattr, Reply, NoArgs, reading
  <2>2. left = 0
    BY <2>1 DEF Handling
  <2>3. left' \in 0..args'.buffer
    BY <1>1, <2>1, <2>2
  <2> QED
    BY <2>1, <2>3 DEF Handling
<1>11. CASE Done
  <2>1. /\ pc' = "idle" /\ rest' = << >> /\ args'.buffer = 0 /\ left' = 0 /\ id' = 0 /\ of' = 0
        /\ answer' = "none"
    BY <1>11 DEF Done, NoArgs
  <2>2. rest' \in Seq(Names)
    BY <2>1
  <2>3. left' \in 0..args'.buffer /\ of' \in 0..(ChunkSize - 1) /\ id' \in Nat
    BY <1>1, <2>1
  <2> QED
    BY <2>1, <2>2, <2>3 DEF Handling
<1> QED
  BY <1>2, <1>3, <1>4, <1>5, <1>6, <1>7, <1>8, <1>9, <1>10, <1>11, ReadHandles, ChunkHandles DEF Next

LEMMA HandlingInit == Init => Handling
<1> SUFFICES ASSUME Init
             PROVE  Handling
  OBVIOUS
<1>1. rest = << >> /\ args.buffer = 0 /\ left = 0 /\ id = 0 /\ of = 0 /\ pc = "start"
      /\ answer = "none"
  BY DEF Init, NoArgs
<1>2. rest \in Seq(Names)
  BY <1>1
<1>3. left \in 0..args.buffer /\ of \in 0..(ChunkSize - 1) /\ id \in Nat
  BY <1>1, CellsAssumption
<1> QED
  BY <1>1, <1>2, <1>3 DEF Handling

(* Every variable of a mounted file system keeps its type: what a handler  *)
(* has left fits the buffer of its caller, an offset lies in the metadata, *)
(* and a position inside its chunk.                                        *)
THEOREM TypeCorrect == Spec => []TypeOK
<1>1. Init => Handling
  BY HandlingInit
<1>2. ServeInv /\ Handling /\ [Next]_vars => Handling'
  BY HandlingKeeps
<1>3. Init => meta = << >>
  BY DEF Init
<1>4. ServeInv /\ Handling /\ (pc = "start" => meta = << >>) => TypeOK
  <2> SUFFICES ASSUME ServeInv, Handling, pc = "start" => meta = << >>
               PROVE  TypeOK
    OBVIOUS
  <2>1. \A k \in DOMAIN meta : meta[k].t \in {"header", "node", "entry", "name", "value", "target"}
    <3>1. CASE pc = "start"
      BY <3>1
    <3>2. CASE pc # "start"
      <4>1. meta = data /\ data \in Seq(Cell)
        BY <3>2 DEF ServeInv, Serving, ImageInv, BuildInv, Tree, Laid
      <4>2. \A k \in DOMAIN data : data[k] \in Cell
        BY <4>1
      <4> QED
        BY <4>1, <4>2, CellsDiffer
    <3> QED
      BY <3>1, <3>2
  <2> QED
    BY <2>1 DEF TypeOK, ServeInv, Serving, Handling, ImageInv, BuildInv
<1>5. ServeInv /\ (pc = "start" => meta = << >>) /\ [Next]_vars => (pc = "start" => meta = << >>)'
  <2> SUFFICES ASSUME ServeInv, pc = "start" => meta = << >>, [Next]_vars, pc' = "start"
               PROVE  meta' = << >>
    OBVIOUS
  <2>1. UNCHANGED <<pc, meta>>
    <3>1. CASE Build \/ Dead \/ UNCHANGED vars
      BY <3>1 DEF Build, Dead, vars, mounted
    <3>2. CASE \/ Mount \/ GetChild \/ FindEntity \/ Enter \/ Resolved \/ Done \/ ReadEnds \/ ChunkFails
               \/ \E p \in Asked : Begin(p)
      BY <3>2 DEF Mount, GetChild, FindEntity, Enter, Resolved, Done, ReadEnds, ChunkFails, Begin,
         mounted, Reply
    <3>3. CASE ReadLink \/ OpenDir \/ ReadDir \/ ListName \/ ListEnds \/ AnswerXattr \/ Chunk
      BY <3>3 DEF ReadLink, OpenDir, ReadDir, ListName, ListEnds, AnswerXattr, Chunk, Reply
    <3>4. CASE \E size \in Buffers :
                 \/ ListXattr(size)
                 \/ \E n \in DOMAIN Values : GetXattr(n, size)
                 \/ \E at \in 0..Max(Lengths) : Read(at, size)
      BY <3>4 DEF ListXattr, GetXattr, Read, Reply
    <3> QED
      BY <3>1, <3>2, <3>3, <3>4 DEF Next
  <2> QED
    BY <2>1
<1> QED
  BY <1>1, <1>2, <1>3, <1>4, <1>5, ServeInvariant, PTL DEF Spec
----------------------------------------------------------------------------
(* Of a request for attributes: what is known as long as the root has not  *)
(* been overwritten.                                                       *)
NodeXattrs == tree[Found.stat].xattrs

ListedNames ==
  LET x == NodeXattrs
      m == Len(got[1])
  IN  /\ m \in 0..args.at /\ args.at <= Len(x)
      /\ got = <<[k \in 1..m |-> x[k].name], NameBytes * args.at>>
      /\ NameBytes * m + left = args.buffer
      /\ left # 0 => m = args.at

SoughtXattr ==
  LET x == NodeXattrs
      n == Len(x)
  IN  /\ sought = args.name
      /\ ents = [k \in 1..n |-> [name |-> x[k].name, data_offset |-> offset + n + 2 * k]]

Attributing ==
  /\ RootKept => /\ pc = "names" => ListedNames
                 /\ pc = "value" => SoughtXattr
  /\ XattrsRight

(* And of a read.                                                          *)
ReadSoFar ==
  LET c == Found
      n == Smaller(c.length - args.at, args.buffer)
  IN  /\ Len(got) \in Nat /\ left + Len(got) = n
      /\ got = [k \in 1..Len(got) |-> Content(c.stat, args.at + k)]
      /\ left > 0 => id * ChunkSize + of = c.data_offset + args.at + Len(got)

Reading ==
  /\ pc = "chunks" => Found.kind = "file"
  /\ pc = "chunks" /\ args.at <= Found.length /\ Addressable => ReadSoFar
  /\ ReadsOwnBytes
----------------------------------------------------------------------------
(* A node that a request has found, with its attributes.                   *)
LEMMA FoundAttributes ==
  ASSUME ServeInv, LayoutInv, RootKept, pc # "start", Found.t = "node"
  PROVE  LET x == NodeXattrs
             n == Len(x)
         IN  /\ n \in Nat /\ DOMAIN x = 1..n /\ \A k \in 1..n : x[k] \in Xattr
             /\ Sorted(x) /\ Found.xattrs_count = n /\ IsTable(offset + 1, n)
             /\ offset \in Nat /\ Found = meta[offset + 1]
             /\ \A k \in 1..n :
                  /\ meta[meta[offset + 1 + k].name_offset + 1].is = x[k].name
                  /\ Table(offset + 1, n)[k] = [name |-> x[k].name, data_offset |-> offset + n + 2 * k]
                  /\ meta[offset + n + 2 * k + 1] = Value(Copied(x[k].value))
<1> DEFINE o == offset + 1
           x == NodeXattrs
           n == Len(x)
<1>1. /\ meta = data /\ stage = "built" /\ offset \in Nat /\ o \in DOMAIN data
      /\ Found = data[o] /\ data[2].stat = Root
  BY KnownIs DEF ServeInv, Serving
<1>2. Tree(data, tree, Awaited(stack, tree)) /\ NodeAt(data, o)
  BY <1>1 DEF ServeInv, ImageInv, BuildInv, NodeAt
<1>3. /\ x = tree[data[o].stat].xattrs /\ GoodAnswer(tree[data[o].stat]) /\ n \in Nat
      /\ DOMAIN data = 1..Len(data) /\ Len(data) \in Nat
      /\ Span(tree[data[o].stat]) \in Nat /\ Span(tree[data[o].stat]) >= 1 + 3 * n
  <2>1. x = tree[data[o].stat].xattrs
    BY <1>1 DEF NodeXattrs
  <2> QED
    BY <1>2, <2>1, NodeIs
<1>4. x \in XattrSeq
  BY <1>3 DEF GoodAnswer
<1>5. DOMAIN x = 1..n /\ \A k \in 1..n : x[k] \in Xattr
  BY <1>4 DEF XattrSeq
<1>6. /\ o + Span(tree[data[o].stat]) - 1 <= Len(data) /\ Sorted(x) /\ Attached(data, o, x)
      /\ o # 2 => data[o].xattrs_count = n
  BY <1>2, <1>3 DEF LayoutInv, Owning, Owned, ByName, Sorted
<1>7. Found.xattrs_count = n
  <2>1. CASE o = 2
    BY <1>1, <1>3, <2>1 DEF RootKept
  <2>2. CASE o # 2
    BY <1>1, <1>6, <2>2
  <2> QED
    BY <2>1, <2>2
<1> HIDE DEF x
<1>m. offset \in Nat /\ n \in Nat /\ o = offset + 1
  BY <1>1, <1>3
<1> HIDE DEF n, o
<1>8. ASSUME NEW k \in 1..n
      PROVE  /\ meta[o + k] = Entry(offset + n + 2 * k - 1, offset + n + 2 * k)
             /\ meta[offset + n + 2 * k] = Name(x[k].name)
             /\ meta[offset + n + 2 * k + 1] = Value(Copied(x[k].value))
             /\ offset + n + 2 * k - 1 \in Nat /\ offset + n + 2 * k \in Nat
             /\ offset + n + 2 * k - 1 + 1 = offset + n + 2 * k
  <2>1. /\ meta[o + k] = Entry(o + n + 2 * k - 2, o + n + 2 * k - 1)
        /\ meta[o + n + 2 * k - 1] = Name(x[k].name)
        /\ meta[o + n + 2 * k] = Value(Copied(x[k].value))
    BY <1>1, <1>6 DEF Attached, n
  <2>2. /\ o + n + 2 * k - 2 = offset + n + 2 * k - 1 /\ o + n + 2 * k - 1 = offset + n + 2 * k
        /\ o + n + 2 * k = offset + n + 2 * k + 1
        /\ offset + n + 2 * k - 1 \in Nat /\ offset + n + 2 * k \in Nat
        /\ offset + n + 2 * k - 1 + 1 = offset + n + 2 * k
    BY ONLY <1>m, k \in 1..n
  <2> QED
    BY <2>1, <2>2
<1>9. ASSUME NEW k \in 1..n
      PROVE  /\ meta[o + k] \in [t : {"entry"}, name_offset : Nat, data_offset : Nat]
             /\ meta[meta[o + k].name_offset + 1] \in [t : {"name"}, is : Names \cup DOMAIN Values]
             /\ meta[meta[o + k].name_offset + 1].is = x[k].name
             /\ meta[o + k].data_offset = offset + n + 2 * k
  <2>0. /\ meta[o + k] = Entry(offset + n + 2 * k - 1, offset + n + 2 * k)
        /\ meta[offset + n + 2 * k] = Name(x[k].name)
        /\ offset + n + 2 * k - 1 \in Nat /\ offset + n + 2 * k \in Nat
        /\ offset + n + 2 * k - 1 + 1 = offset + n + 2 * k
    BY <1>8
  <2>1. meta[o + k].name_offset = offset + n + 2 * k - 1 /\ meta[o + k].data_offset = offset + n + 2 * k
    BY <2>0 DEF Entry
  <2>2. meta[meta[o + k].name_offset + 1] = Name(x[k].name)
    BY <2>0, <2>1
  <2>3. x[k].name \in DOMAIN Values
    BY <1>5 DEF Xattr
  <2>4. Name(x[k].name) \in [t : {"name"}, is : Names \cup DOMAIN Values] /\ Name(x[k].name).is = x[k].name
    BY <2>3 DEF Name
  <2>5. meta[o + k] \in [t : {"entry"}, name_offset : Nat, data_offset : Nat]
    BY <2>0 DEF Entry
  <2> QED
    BY <2>1, <2>2, <2>4, <2>5
<1>10. o + n <= Len(meta)
  <2> DEFINE p == Span(tree[data[o].stat])
  <2>1. o + p - 1 <= Len(data) /\ p \in Nat /\ p >= 1 + 3 * n /\ Len(data) \in Nat /\ meta = data
    BY <1>1, <1>3, <1>6
  <2> HIDE DEF p
  <2> QED
    BY ONLY <1>m, <2>1
<1>11. IsTable(o, n)
  BY <1>3, <1>9, <1>10 DEF IsTable
<1>12. \A k \in 1..n :
         Table(o, n)[k] = [name |-> x[k].name, data_offset |-> offset + n + 2 * k]
  BY <1>9 DEF Table
<1>13. \A k \in 1..n : meta[offset + n + 2 * k + 1] = Value(Copied(x[k].value))
  BY <1>8
<1> QED
  BY <1>1, <1>3, <1>5, <1>6, <1>7, <1>9, <1>11, <1>12, <1>13 DEF x, n, o

(* Steps of the request that are not about attributes.                     *)
LEMMA OthersAttribute ==
  ASSUME pc' \notin {"names", "value"}, pc' = "answer" => args'.op \notin {"listxattr", "getxattr"}
  PROVE  Attributing'
  BY DEF Attributing, XattrsRight, Answered

LEMMA OtherSteps ==
  ASSUME ServeInv, [Next]_vars,
         ~(ListName \/ ListEnds \/ AnswerXattr \/ FindEntity \/ Dead \/ UNCHANGED vars),
         \A size \in Buffers : ~ListXattr(size) /\ \A n \in DOMAIN Values : ~GetXattr(n, size)
  PROVE  pc' \notin {"names", "value"} /\ (pc' = "answer" => args'.op \notin {"listxattr", "getxattr"})
<1>1. CASE Build
  BY <1>1, BuildServes, ServeKeeps DEF ServeInv
<1>2. CASE Mount \/ Done \/ \E p \in Asked : Begin(p)
  BY <1>2 DEF Mount, Done, Begin
<1>3. CASE GetChild \/ Enter \/ Resolved \/ ReadLink
  <2>1. pc \in {"walk", "search", "at"} /\ UNCHANGED args /\ pc' \in {"search", "answer", "walk", "at"}
    BY <1>3 DEF GetChild, Enter, Resolved, ReadLink, Reply, request
  <2>2. args.op = "none"
    BY <2>1 DEF ServeInv, Serving
  <2> QED
    BY <2>1, <2>2
<1>4. CASE OpenDir
  BY <1>4 DEF OpenDir, NoArgs, Reply
<1>5. CASE ReadDir
  <2>1. pc = "list" /\ pc' \in {"list", "answer"} /\ \E to : args' = [args EXCEPT !.at = to]
    BY <1>5 DEF ReadDir, Reply
  <2>2. args.op = "readdir" /\ args \in Arguments
    BY <2>1 DEF ServeInv, Serving, NoArgs
  <2>3. args'.op = args.op
    BY <2>1, <2>2 DEF Arguments
  <2> QED
    BY <2>1, <2>2, <2>3
<1>6. CASE Chunk \/ ChunkFails \/ ReadEnds
  <2>1. pc = "chunks" /\ UNCHANGED args /\ pc' \in {"chunks", "answer"}
    BY <1>6 DEF Chunk, ChunkFails, ReadEnds, Reply, request
  <2>2. args.op = "read"
    BY <2>1 DEF ServeInv, Serving
  <2> QED
    BY <2>1, <2>2
<1>7. ASSUME NEW size \in Buffers, NEW at \in 0..Max(Lengths), Read(at, size)
      PROVE  pc' \in {"chunks", "answer"} /\ args'.op = "read"
  BY <1>7 DEF Read, NoArgs, Reply
<1> QED
  BY <1>1, <1>2, <1>3, <1>4, <1>5, <1>6, <1>7 DEF Next

(* A list begins ...                                                       *)
LEMMA ListXattrAttributes ==
  ASSUME ServeInv, LayoutInv, Attributing, NEW size \in Buffers, ListXattr(size), [Next]_vars
  PROVE  Attributing'
<1>1. /\ pc = "at" /\ UNCHANGED <<data, tree, stage, meta, offset>>
      /\ args' = [NoArgs EXCEPT !.op = "listxattr", !.buffer = size]
      /\ \/ /\ got' = << << >>, 0 >> /\ left' = size /\ pc' = "names"
         \/ /\ pc' = "answer" /\ answer' = "undefined"
  BY DEF ListXattr, built, Reply
<1>2. args'.op = "listxattr" /\ args'.at = 0 /\ args'.buffer = size
  BY <1>1 DEF NoArgs
<1>3. CASE pc' = "answer" /\ answer' = "undefined"
  BY <1>2, <1>3 DEF Attributing, XattrsRight, Answered
<1>4. CASE got' = << << >>, 0 >> /\ left' = size /\ pc' = "names"
  <2>1. ASSUME RootKept'
        PROVE  ListedNames'
    <3>1. RootKept /\ pc # "start" /\ Found.t = "node"
      BY <1>1, <2>1 DEF RootKept, ServeInv, Serving
    <3>2. Len(NodeXattrs) \in Nat
      BY <3>1, FoundAttributes
    <3>3. NodeXattrs' = NodeXattrs
      BY <1>1 DEF NodeXattrs, Found
    <3> DEFINE x == NodeXattrs'
    <3>4. got'[1] = << >> /\ got'[2] = 0 /\ Len(got'[1]) = 0
      BY <1>4
    <3>5. [k \in 1..0 |-> x[k].name] = << >>
      <4> DEFINE f == [k \in 1..0 |-> x[k].name]
      <4>1. f \in Seq({}) /\ Len(f) = 0
        OBVIOUS
      <4> QED
        BY <4>1
    <3>6. NameBytes * 0 = 0 /\ size \in Nat
      BY BuffersAssumption
    <3>7. got' = <<[k \in 1..0 |-> x[k].name], NameBytes * 0>>
      BY <1>4, <3>5, <3>6
    <3>8. NameBytes * 0 + left' = args'.buffer
      BY <1>2, <1>4, <3>6
    <3>9. 0 \in 0..args'.at /\ args'.at <= Len(x)
      BY <1>2, <3>2, <3>3
    <3> HIDE DEF x
    <3> QED
      BY <1>2, <3>4, <3>7, <3>8, <3>9 DEF ListedNames, x
  <2> QED
    BY <1>4, <2>1 DEF Attributing, XattrsRight, Answered
<1> QED
  BY <1>1, <1>3, <1>4

(* ... goes on ...                                                         *)
LEMMA ListNameAttributes ==
  ASSUME ServeInv, Handling, LayoutInv, Attributing, ListName
  PROVE  Attributing'
<1> DEFINE at == args.at
           x == NodeXattrs
           n == Len(x)
           m == Len(got[1])
           c == NameBytes
           name == meta[meta[offset + 1 + at + 1].name_offset + 1].is
<1>1. /\ pc = "names" /\ at < Found.xattrs_count /\ args' = [args EXCEPT !.at = @ + 1]
      /\ UNCHANGED <<data, tree, stage, meta, offset>>
      /\ \/ left = 0 /\ got' = <<got[1], got[2] + c>> /\ UNCHANGED <<left, pc>>
         \/ /\ left # 0 /\ c > left /\ got' = <<got[1], got[2] + c>>
            /\ pc' = "answer" /\ answer' = "ERANGE"
         \/ /\ left # 0 /\ c <= left /\ got' = <<Append(got[1], name), got[2] + c>>
            /\ left' = left - c /\ UNCHANGED pc
  BY DEF ListName, built, Reply
<1>2. /\ args'.op = args.op /\ args.op = "listxattr" /\ args'.buffer = args.buffer /\ args'.at = at + 1
      /\ at \in Nat /\ args.buffer \in Nat
  BY <1>1, ArgumentsTyped DEF ServeInv, Serving, Arguments
<1> SUFFICES ASSUME RootKept
             PROVE  (pc' = "names" => ListedNames') /\ XattrsRight' /\ pc' # "value"
  <2>1. RootKept' <=> RootKept
    BY <1>1 DEF RootKept
  <2>2. ~RootKept => XattrsRight'
    BY <2>1 DEF XattrsRight, Answered
  <2>3. pc' # "value"
    BY <1>1
  <2> QED
    BY <2>1, <2>2, <2>3 DEF Attributing
<1>3. /\ n \in Nat /\ Found.xattrs_count = n
      /\ \A k \in 1..n : meta[meta[offset + 1 + k].name_offset + 1].is = x[k].name
      /\ offset \in Nat
  <2>1. pc # "start" /\ Found.t = "node"
    BY <1>1 DEF ServeInv, Serving
  <2> QED
    BY <2>1, FoundAttributes
<1>4. /\ m \in 0..at /\ at <= n
      /\ got = <<[k \in 1..m |-> x[k].name], c * at>>
      /\ c * m + left = args.buffer
      /\ left # 0 => m = at
  BY <1>1 DEF Attributing, ListedNames
<1>5. NodeXattrs' = x
  BY <1>1 DEF NodeXattrs, Found
<1>6. got[1] = [k \in 1..m |-> x[k].name] /\ got[2] = c * at /\ m \in Nat
  <2>1. m \in Nat
    BY <1>2, <1>4
  <2> HIDE DEF m, x
  <2> QED
    BY <1>4, <2>1
<1>7. c \in Nat \ {0} /\ left \in Int /\ at < n
  <2>1. left \in Int
    BY <1>2 DEF Handling
  <2>2. at < n
    BY <1>1, <1>3
  <2> QED
    BY <2>1, <2>2, BuffersAssumption
<1>8. name = x[at + 1].name
  <2>1. at + 1 \in 1..n /\ offset + 1 + (at + 1) = offset + 1 + at + 1
    BY <1>1, <1>2, <1>3
  <2>2. name = meta[meta[offset + 1 + (at + 1)].name_offset + 1].is
    BY <2>1
  <2> HIDE DEF name, x, n
  <2> QED
    BY <1>3, <2>1, <2>2
<1> HIDE DEF x, n, at, name
<1>9. c * at + c = c * (at + 1) /\ at + 1 <= n
  BY ONLY <1>2, <1>3, <1>7
<1>10. CASE left = 0 /\ got' = <<got[1], got[2] + c>> /\ UNCHANGED <<left, pc>>
  <2>1. got' = <<[k \in 1..m |-> x[k].name], c * (at + 1)>> /\ got'[1] = got[1]
    BY <1>6, <1>9, <1>10
  <2>2. Len(got'[1]) = m
    BY <2>1
  <2>3. m \in 0..(at + 1) /\ c * m + left' = args'.buffer
    BY <1>2, <1>4, <1>10
  <2> HIDE DEF m
  <2>4. ListedNames'
    BY <1>2, <1>5, <1>9, <1>10, <2>1, <2>2, <2>3 DEF ListedNames, n
  <2> QED
    BY <1>1, <1>10, <2>4 DEF XattrsRight, Answered
<1>11. CASE left # 0 /\ c > left /\ pc' = "answer" /\ answer' = "ERANGE"
  <2>1. c * n > args.buffer
    <3> HIDE DEF m
    <3>1. m = at /\ c * at + left = args.buffer
      BY <1>4, <1>11
    <3>2. c * (at + 1) <= c * n
      BY ONLY <1>2, <1>3, <1>7, <1>9
    <3>3. c * at \in Int /\ c * n \in Int /\ c * (at + 1) \in Int
      BY ONLY <1>2, <1>3, <1>7
    <3> QED
      BY ONLY <1>2, <1>7, <1>9, <1>11, <3>1, <3>2, <3>3
  <2>2. tree'[Found'.stat].xattrs = x
    BY <1>5 DEF NodeXattrs
  <2> QED
    BY <1>2, <1>11, <2>1, <2>2 DEF XattrsRight, Answered, n
<1>12. CASE /\ left # 0 /\ c <= left /\ got' = <<Append(got[1], name), got[2] + c>>
            /\ left' = left - c /\ UNCHANGED pc
  <2>1. m = at
    BY <1>4, <1>12
  <2>2. Append(got[1], name) = [k \in 1..(m + 1) |-> x[k].name]
    <3> DEFINE f(k) == x[k].name
               s == [k \in 1..m |-> f(k)]
    <3>1. got[1] = s /\ name = f(m + 1)
      BY <1>6, <1>8, <2>1
    <3>2. m \in Nat
      BY <1>6
    <3> HIDE DEF f, m
    <3>3. Append(s, f(m + 1)) = [k \in 1..(m + 1) |-> f(k)]
      <4> DEFINE S == {f(k) : k \in 1..(m + 1)}
      <4>1. \A k \in 1..(m + 1) : f(k) \in S
        OBVIOUS
      <4> HIDE DEF S
      <4>2. s \in Seq(S) /\ Len(s) = m /\ \A k \in 1..m : s[k] = f(k)
        <5>1. s \in [1..m -> S]
          BY ONLY <3>2, <4>1
        <5> QED
          BY ONLY <3>2, <5>1
      <4> HIDE DEF s
      <4>3. m + 1 \in 1..(m + 1)
        BY ONLY <3>2
      <4>4. f(m + 1) \in S
        BY <4>1, <4>3
      <4> DEFINE t == Append(s, f(m + 1))
      <4>5. t \in Seq(S) /\ Len(t) = m + 1 /\ t[m + 1] = f(m + 1) /\ \A k \in 1..m : t[k] = s[k]
        BY ONLY <3>2, <4>2, <4>4
      <4> HIDE DEF t
      <4>6. \A k \in 1..(m + 1) : t[k] = f(k)
        <5>1. \A k \in 1..(m + 1) : k \in 1..m \/ k = m + 1
          BY ONLY <3>2
        <5> QED
          BY ONLY <4>2, <4>5, <5>1
      <4>7. t = [k \in 1..(m + 1) |-> t[k]]
        BY ONLY <3>2, <4>5
      <4>8. t = [k \in 1..(m + 1) |-> f(k)]
        BY ONLY <4>6, <4>7
      <4> QED
        BY <4>8 DEF t
    <3> QED
      BY <3>1, <3>3 DEF f
  <2> HIDE DEF m
  <2>3. got' = <<[k \in 1..(m + 1) |-> x[k].name], c * (at + 1)>>
    BY <1>6, <1>9, <1>12, <2>2
  <2>4. Len(got'[1]) = m + 1
    <3>1. m + 1 \in Nat /\ got'[1] = [k \in 1..(m + 1) |-> x[k].name]
      BY <1>6, <2>3
    <3> QED
      BY ONLY <3>1
  <2>5. c * (m + 1) + left' = args'.buffer
    <3>1. c * (m + 1) = c * m + c /\ c * m \in Int
      BY ONLY <1>6, <1>7
    <3> QED
      BY ONLY <1>2, <1>4, <1>7, <1>12, <3>1
  <2>6. m + 1 \in 0..(at + 1)
    BY ONLY <1>2, <2>1
  <2>7. ListedNames'
    BY <1>2, <1>5, <1>9, <2>1, <2>3, <2>4, <2>5, <2>6 DEF ListedNames, n
  <2> QED
    BY <1>1, <1>12, <2>7 DEF XattrsRight, Answered
<1> QED
  BY <1>1, <1>10, <1>11, <1>12

LEMMA Multiple ==
  ASSUME NEW c \in Nat \ {0}, NEW x \in Nat
  PROVE  (c * x) % c = 0
  OBVIOUS

(* ... and ends.                                                           *)
LEMMA ListEndsAttributes ==
  ASSUME ServeInv, Handling, LayoutInv, Attributing, ListEnds
  PROVE  Attributing'
<1> DEFINE x == NodeXattrs
           n == Len(x)
           m == Len(got[1])
           c == NameBytes
<1>1. /\ pc = "names" /\ args.at = Found.xattrs_count /\ pc' = "answer" /\ answer' = "OK"
      /\ UNCHANGED <<data, tree, stage, meta, offset, args, got>>
  BY DEF ListEnds, built, Reply, request, reading
<1>2. args.op = "listxattr" /\ args.buffer \in Nat /\ left \in Nat
  <2>1. args.buffer \in Nat /\ args.op = "listxattr"
    BY <1>1, ArgumentsTyped DEF ServeInv, Serving
  <2> QED
    BY <2>1 DEF Handling
<1> SUFFICES ASSUME RootKept
             PROVE  XattrsRight'
  <2>1. RootKept' <=> RootKept
    BY <1>1 DEF RootKept
  <2>2. ~RootKept => XattrsRight'
    BY <2>1 DEF XattrsRight, Answered
  <2> QED
    BY <1>1, <2>1, <2>2 DEF Attributing
<1>3. n \in Nat /\ Found.xattrs_count = n /\ DOMAIN x = 1..n
  <2>1. pc # "start" /\ Found.t = "node"
    BY <1>1 DEF ServeInv, Serving
  <2> QED
    BY <2>1, FoundAttributes
<1>4. /\ m \in 0..n /\ args.at = n
      /\ got = <<[k \in 1..m |-> x[k].name], c * n>>
      /\ c * m + left = args.buffer
      /\ left # 0 => m = n
  BY <1>1, <1>3 DEF Attributing, ListedNames
<1>5. tree'[Found'.stat].xattrs = x
  BY <1>1 DEF NodeXattrs, Found
<1>6. got'[1] = [k \in 1..m |-> x[k].name] /\ got'[2] = c * n /\ m \in Nat
  <2>1. m \in Nat /\ got' = got
    BY <1>1, <1>3, <1>4
  <2> HIDE DEF m, x
  <2> QED
    BY <1>4, <2>1
<1> HIDE DEF m, x, n
<1>7. c \in Nat \ {0}
  BY BuffersAssumption
<1>8. c * n <= args.buffer => m = n
  <2> SUFFICES ASSUME c * n <= args.buffer, m # n
               PROVE  FALSE
    OBVIOUS
  <2>1. left = 0 /\ m + 1 <= n
    BY ONLY <1>3, <1>4, m # n
  <2>2. c * (m + 1) <= c * n /\ c * (m + 1) = c * m + c /\ c * m \in Int /\ c * n \in Int
    BY ONLY <1>3, <1>6, <1>7, <2>1
  <2> QED
    BY ONLY <1>4, <1>7, <2>1, <2>2, c * n <= args.buffer, <1>2
<1>9. c * n > args.buffer => args.buffer % c = 0
  <2> SUFFICES ASSUME c * n > args.buffer
               PROVE  args.buffer % c = 0
    OBVIOUS
  <2>1. left = 0
    <3>1. left # 0 => c * n + left = args.buffer
      BY <1>4
    <3>2. c * n \in Int
      BY ONLY <1>3, <1>7
    <3> QED
      BY ONLY <1>2, <3>1, <3>2, c * n > args.buffer
  <2>2. args.buffer = c * m
    <3>1. c * m \in Int
      BY ONLY <1>6, <1>7
    <3> QED
      BY ONLY <1>4, <2>1, <3>1
  <2>3. (c * m) % c = 0
    <3>1. c \in Nat \ {0} /\ m \in Nat
      BY <1>6, <1>7
    <3> HIDE DEF c
    <3> QED
      BY ONLY <3>1, Multiple
  <2> QED
    BY <2>2, <2>3
<1>10. [k \in DOMAIN x |-> x[k].name] = [k \in 1..n |-> x[k].name]
  BY <1>3
<1> QED
  BY <1>1, <1>2, <1>5, <1>6, <1>8, <1>9, <1>10 DEF XattrsRight, Answered, n

(* A search for a value begins ...                                         *)
LEMMA GetXattrAttributes ==
  ASSUME ServeInv, LayoutInv, Attributing, NEW name, NEW size \in Buffers, GetXattr(name, size)
  PROVE  Attributing'
<1> DEFINE x == NodeXattrs
           n == Len(x)
<1>1. /\ pc = "at" /\ UNCHANGED <<data, tree, stage, meta, offset>>
      /\ args' = [NoArgs EXCEPT !.op = "getxattr", !.name = name, !.buffer = size]
      /\ \/ /\ ents' = Table(offset + 1, Found.xattrs_count) /\ sought' = name /\ pc' = "value"
         \/ /\ ~IsTable(offset + 1, Found.xattrs_count) /\ pc' = "answer"
  BY DEF GetXattr, built, Reply, Search
<1> SUFFICES ASSUME RootKept
             PROVE  pc' = "value" /\ SoughtXattr'
  <2>1. RootKept' <=> RootKept
    BY <1>1 DEF RootKept
  <2>2. ~RootKept => XattrsRight'
    BY <2>1 DEF XattrsRight, Answered
  <2>3. pc' # "names"
    BY <1>1
  <2>4. pc' = "value" => XattrsRight'
    BY DEF XattrsRight, Answered
  <2> QED
    BY <2>1, <2>2, <2>3, <2>4 DEF Attributing
<1>2. /\ n \in Nat /\ Found.xattrs_count = n /\ IsTable(offset + 1, n)
      /\ \A k \in 1..n : Table(offset + 1, n)[k] = [name |-> x[k].name, data_offset |-> offset + n + 2 * k]
  <2>1. pc # "start" /\ Found.t = "node"
    BY <1>1 DEF ServeInv, Serving
  <2> QED
    BY <2>1, FoundAttributes
<1>3. pc' = "value" /\ ents' = Table(offset + 1, n) /\ sought' = name
  BY <1>1, <1>2
<1>4. args'.name = name
  BY <1>1 DEF NoArgs
<1>5. NodeXattrs' = x
  BY <1>1 DEF NodeXattrs, Found
<1> HIDE DEF x
<1>6. ents' = [k \in 1..n |-> [name |-> x[k].name, data_offset |-> offset + n + 2 * k]]
  <2> DEFINE t == Table(offset + 1, n)
  <2>1. t = [k \in 1..n |-> t[k]]
    BY DEF Table
  <2> HIDE DEF t
  <2>2. t = [k \in 1..n |-> [name |-> x[k].name, data_offset |-> offset + n + 2 * k]]
    BY <1>2, <2>1 DEF t
  <2> QED
    BY <1>3, <2>2 DEF t
<1> QED
  BY <1>1, <1>3, <1>4, <1>5, <1>6 DEF SoughtXattr

(* ... and ends.                                                           *)
LEMMA AnswerXattrAttributes ==
  ASSUME ServeInv, LayoutInv, Attributing, AnswerXattr
  PROVE  Attributing'
<1> DEFINE x == NodeXattrs
           n == Len(x)
           value == meta[found + 1].chars
<1>1. /\ pc = "value" /\ found # Pending /\ pc' = "answer"
      /\ UNCHANGED <<data, tree, stage, meta, offset, args>>
      /\ \/ found = 0 /\ answer' = "ENODATA"
         \/ meta[found + 1].t # "value" /\ found # 0
         \/ /\ meta[found + 1].t = "value" /\ found # 0
            /\ got' = IF args.buffer = 0 THEN <<Len(value)>> ELSE value
            /\ answer' = IF args.buffer > 0 /\ Len(value) > args.buffer THEN "ERANGE" ELSE "OK"
  BY DEF AnswerXattr, built, Reply, request
<1>2. args.op = "getxattr" /\ args.buffer \in Nat
  BY <1>1, ArgumentsTyped DEF ServeInv, Serving
<1> SUFFICES ASSUME RootKept
             PROVE  XattrsRight'
  <2>1. RootKept' <=> RootKept
    BY <1>1 DEF RootKept
  <2>2. ~RootKept => XattrsRight'
    BY <2>1 DEF XattrsRight, Answered
  <2> QED
    BY <1>1, <2>1, <2>2 DEF Attributing
<1>3. /\ n \in Nat /\ DOMAIN x = 1..n /\ (\A k \in 1..n : x[k] \in Xattr) /\ Sorted(x) /\ offset \in Nat
      /\ \A k \in 1..n : meta[offset + n + 2 * k + 1] = Value(Copied(x[k].value))
  <2>1. pc # "start" /\ Found.t = "node"
    BY <1>1 DEF ServeInv, Serving
  <2> QED
    BY <2>1, FoundAttributes
<1>4. /\ sought = args.name
      /\ ents = [k \in 1..n |-> [name |-> x[k].name, data_offset |-> offset + n + 2 * k]]
  BY <1>1 DEF Attributing, SoughtXattr
<1>5. tree'[Found'.stat].xattrs = x
  BY <1>1 DEF NodeXattrs, Found
<1> HIDE DEF x, n
<1>6. /\ DOMAIN ents = 1..n
      /\ \A k \in 1..n : ents[k].name = x[k].name /\ ents[k].data_offset = offset + n + 2 * k
  BY <1>4
<1>7. \A k \in 1..n : x[k].name \in Nat
  <2>1. \A v \in DOMAIN Values : v \in Nat
    BY ValuesAssumption
  <2> QED
    BY <1>3, <2>1 DEF Xattr
<1>8. Sorted(ents)
  BY <1>3, <1>6 DEF Sorted
<1>9. IF \E k \in 1..n : x[k].name = args.name
      THEN \E k \in 1..n : x[k].name = args.name /\ offset + n + 2 * k = found
      ELSE found = 0
  <2>1. IF \E k \in DOMAIN ents : ents[k].name = sought
        THEN \E k \in DOMAIN ents : ents[k].name = sought /\ ents[k].data_offset = found
        ELSE found = 0
    BY <1>1, <1>8 DEF ServeInv, SearchInv, SearchRight
  <2> QED
    BY ONLY <1>4, <1>6, <2>1
<1>10. CASE \A k \in 1..n : x[k].name # args.name
  <2>1. answer' = "ENODATA"
    BY <1>1, <1>9, <1>10
  <2> QED
    BY <1>1, <1>2, <1>3, <1>5, <1>10, <2>1 DEF XattrsRight, Answered
<1>11. CASE \E k \in 1..n : x[k].name = args.name
  <2>1. PICK k \in 1..n : x[k].name = args.name /\ offset + n + 2 * k = found
    BY <1>9, <1>11
  <2>2. found # 0
    BY ONLY <1>3, <2>1
  <2>3. value = Copied(x[k].value) /\ meta[found + 1].t = "value"
    <3>1. found + 1 = offset + n + 2 * k + 1
      BY <2>1
    <3>2. meta[found + 1] = Value(Copied(x[k].value))
      BY <1>3, <3>1
    <3> QED
      BY <3>2 DEF Value
  <2>4. Len(value) = Len(x[k].value)
    <3> DEFINE v == x[k].value
    <3>1. v \in Seq(Nat)
      BY <1>3 DEF Xattr
    <3> HIDE DEF v
    <3>2. Copied(v) \in Seq(Nat) /\ DOMAIN Copied(v) = DOMAIN v
      BY <3>1, CopiedTyped DEF Copied
    <3>3. Len(Copied(v)) = Len(v)
      BY ONLY <3>1, <3>2
    <3> QED
      BY <2>3, <3>3 DEF v
  <2>5. ASSUME NEW j \in 1..n, x[j].name = args.name
        PROVE  j = k
    <3>1. (j < k => x[j].name < x[k].name) /\ (k < j => x[k].name < x[j].name)
      BY <1>3 DEF Sorted
    <3>2. x[j].name = x[k].name /\ x[k].name \in Nat /\ n \in Nat /\ j \in 1..n /\ k \in 1..n
      BY <1>3, <1>7, <2>1, <2>5
    <3> QED
      BY ONLY <3>1, <3>2
  <2>6. /\ got' = IF args.buffer = 0 THEN <<Len(value)>> ELSE value
        /\ answer' = IF args.buffer > 0 /\ Len(value) > args.buffer THEN "ERANGE" ELSE "OK"
    BY <1>1, <2>2, <2>3
  <2> HIDE DEF value
  <2>7. answer' # "ENODATA"
    BY <2>6
  <2>8. LET w == x[k].value
        IN  /\ answer' = "ERANGE" <=> args.buffer > 0 /\ Len(w) > args.buffer
            /\ answer' = "OK" /\ args.buffer = 0 => got' = <<Len(w)>>
            /\ answer' = "OK" /\ args.buffer > 0 => got' = Copied(w)
    BY <1>2, <2>3, <2>4, <2>6
  <2>9. \A j \in DOMAIN x : x[j].name = args.name =>
          LET w == x[j].value
          IN  /\ answer' = "ERANGE" <=> args.buffer > 0 /\ Len(w) > args.buffer
              /\ answer' = "OK" /\ args.buffer = 0 => got' = <<Len(w)>>
              /\ answer' = "OK" /\ args.buffer > 0 => got' = Copied(w)
    BY <1>3, <2>5, <2>8
  <2>10. ~(\A j \in DOMAIN x : x[j].name # args.name)
    BY <1>3, <2>1
  <2> QED
    BY <1>1, <1>2, <1>5, <2>7, <2>9, <2>10 DEF XattrsRight, Answered
<1> QED
  BY <1>10, <1>11

LEMMA AttributingKeeps ==
  ASSUME ServeInv, Handling, LayoutInv, Attributing, [Next]_vars
  PROVE  Attributing'
<1>1. CASE ListName \/ ListEnds \/ AnswerXattr
  BY <1>1, ListNameAttributes, ListEndsAttributes, AnswerXattrAttributes
<1>2. CASE FindEntity
  <2>1. /\ pc \in {"search", "value"} /\ UNCHANGED <<data, tree, stage, meta, offset, pc, args, ents, sought>>
    BY <1>2 DEF FindEntity, Probe, ProbeLast, built, mounted, request
  <2>2. (RootKept' <=> RootKept) /\ NodeXattrs' = NodeXattrs
    BY <2>1 DEF RootKept, NodeXattrs, Found
  <2>3. pc' = "value" /\ RootKept' => SoughtXattr'
    BY <2>1, <2>2 DEF Attributing, SoughtXattr
  <2> QED
    BY <2>1, <2>3 DEF Attributing, XattrsRight, Answered
<1>3. CASE Dead \/ UNCHANGED vars
  <2>1. /\ UNCHANGED <<data, tree, stage, meta, offset, pc, args, ents, sought, got, left, answer>>
    BY <1>3 DEF Dead, vars, built, search, mounted, request, reading
  <2>2. (RootKept' <=> RootKept) /\ NodeXattrs' = NodeXattrs /\ Found' = Found
    BY <2>1 DEF RootKept, NodeXattrs, Found
  <2>3. /\ SoughtXattr' <=> SoughtXattr
        /\ ListedNames' <=> ListedNames
    BY <2>1, <2>2 DEF SoughtXattr, ListedNames
  <2>4. XattrsRight'
    BY <2>1, <2>2 DEF Attributing, XattrsRight, Answered
  <2> QED
    BY <2>1, <2>2, <2>3, <2>4 DEF Attributing
<1>4. ASSUME NEW size \in Buffers, ListXattr(size)
      PROVE  Attributing'
  BY <1>4, ListXattrAttributes
<1>5. ASSUME NEW size \in Buffers, NEW name \in DOMAIN Values, GetXattr(name, size)
      PROVE  Attributing'
  BY <1>5, GetXattrAttributes
<1> QED
  BY <1>1, <1>2, <1>3, <1>4, <1>5, OtherSteps, OthersAttribute

(* listxattr and getxattr answer what was scanned of the attributes, for   *)
(* any attributes and any buffer: the names in their order, or ERANGE only *)
(* when the buffer is too small, and the value up to its first NUL, or     *)
(* ENODATA only when there is none of that name.                           *)
THEOREM XattrsRightHolds == Spec => []XattrsRight
<1> DEFINE Inv == Handling /\ LayoutInv /\ Attributing
<1>1. Init => Inv
  <2>1. Init => Handling
    BY HandlingInit
  <2>2. Init => LayoutInv
    BY LayoutInit DEF Init
  <2>3. Init => Attributing
    BY DEF Init, Attributing, XattrsRight, Answered
  <2> QED
    BY <2>1, <2>2, <2>3
<1>2. ServeInv /\ Inv /\ [Next]_vars => Inv'
  <2>1. ServeInv => ImageInv
    BY DEF ServeInv
  <2> QED
    BY <2>1, StepsAre, HandlingKeeps, LayoutKeeps, AttributingKeeps
<1>3. Inv => XattrsRight
  BY DEF Attributing
<1> QED
  BY <1>1, <1>2, <1>3, ServeInvariant, PTL DEF Spec
----------------------------------------------------------------------------
(* A file that a request has found is in the chunks.                       *)
LEMMA FoundFile ==
  ASSUME ServeInv, LayoutInv, pc # "start", Found.t = "node", Found.kind = "file"
  PROVE  /\ Found.length \in Nat /\ Found.data_offset \in Int
         /\ Found.length = 0 \/ Stored(Found, data, blob)
         /\ data \in Seq(Cell) /\ Len(data) >= 1 /\ Len(data) \in Nat
<1>1. /\ stage = "built" /\ data \in Seq(Cell) /\ offset + 1 \in DOMAIN data
      /\ Found = data[offset + 1] /\ Len(data) >= 1 /\ Len(data) \in Nat
  BY KnownIs DEF ServeInv, Serving
<1>2. Found \in NodeCell
  BY <1>1, CellsDiffer
<1>3. FileAt(data, offset + 1)
  BY <1>1 DEF FileAt, NodeAt
<1>4. Found.length = 0 \/ Stored(Found, data, blob)
  BY <1>1, <1>3 DEF LayoutInv, Placing
<1>5. Found.length \in Nat
  BY <1>4 DEF Stored
<1> QED
  BY <1>1, <1>2, <1>4, <1>5 DEF NodeCell

(* What the chunks have of it.                                             *)
LEMMA ChunksAre ==
  ASSUME ServeInv, LayoutInv, pc # "start", Found.t = "node", Found.kind = "file", Found.length # 0
  PROVE  /\ Len(Chunks) \in Nat /\ Found.data_offset \in Nat
         /\ Found.length < Len(Chunks) /\ Found.data_offset + Found.length <= Len(Chunks)
         /\ \A j \in 1..Found.length : Byte(Found.data_offset + j - 1) = Content(Found.stat, j)
<1> DEFINE d == Len(data)
           l == Found.length
           to == Found.data_offset - d
<1>1. l \in Nat /\ Found.data_offset \in Int /\ data \in Seq(Cell) /\ d >= 1 /\ d \in Nat
      /\ Stored(Found, data, blob)
  BY FoundFile
<1>2. /\ to \in Nat /\ to + l <= Len(blob) /\ \A k \in 1..l : blob[to + k] = Content(Found.stat, k)
  BY <1>1 DEF Stored
<1>3. PICK S : blob \in Seq(S)
  BY DEF ServeInv, ImageInv, BuildInv, Bytes
<1>4. /\ Len(blob) \in Nat /\ Len(Chunks) = d + Len(blob)
      /\ \A k \in 1..Len(blob) : Chunks[d + k] = blob[k]
  BY <1>1, <1>3, PutBehind DEF Chunks
<1>5. Found.data_offset = d + to
  BY <1>1
<1> HIDE DEF d, l, to
<1>6. Len(Chunks) \in Nat /\ Found.data_offset \in Nat /\ l < Len(Chunks)
      /\ Found.data_offset + l <= Len(Chunks)
  BY ONLY <1>1, <1>2, <1>4, <1>5
<1>7. ASSUME NEW j \in 1..l
      PROVE  Byte(Found.data_offset + j - 1) = Content(Found.stat, j)
  <2>1. /\ to + j \in 1..Len(blob) /\ Found.data_offset + j - 1 < Len(Chunks)
        /\ Found.data_offset + j - 1 + 1 = d + (to + j)
    BY ONLY <1>1, <1>2, <1>4, <1>5, j \in 1..l
  <2>2. Byte(Found.data_offset + j - 1) = Chunks[d + (to + j)]
    BY <2>1 DEF Byte
  <2> QED
    BY <1>2, <1>4, <2>1, <2>2
<1> QED
  BY <1>6, <1>7 DEF l

LEMMA Divided ==
  ASSUME NEW c \in Nat \ {0}, NEW p \in Nat
  PROVE  (p \div c) * c + (p % c) = p
  OBVIOUS

LEMMA DividedBelow ==
  ASSUME NEW c \in Nat \ {0}, NEW w \in Nat, NEW p \in Nat, p < c * w
  PROVE  p \div c < w
<1> DEFINE q == p \div c
           r == q - w
<1>1. q \in Nat /\ q * c + (p % c) = p /\ p % c \in Nat
  BY Divided
<1> HIDE DEF q
<1>2. CASE r >= 0
  <2>1. r \in Nat /\ q = w + r
    BY ONLY <1>1, <1>2, w \in Nat
  <2> HIDE DEF r
  <2>2. (w + r) * c = c * w + r * c /\ r * c \in Nat /\ c * w \in Nat
    BY ONLY <2>1, w \in Nat, c \in Nat
  <2> DEFINE above == r * c
             below == c * w
             rem == p % c
             product == q * c
  <2>3. product = below + above
    BY <2>1, <2>2
  <2>4. product + rem = p /\ rem \in Nat /\ above \in Nat /\ below \in Nat /\ p < below
    BY <1>1, <2>2
  <2> HIDE DEF above, below, rem, product
  <2> QED
    BY ONLY <2>3, <2>4, p \in Nat
<1>3. CASE ~(r >= 0)
  <2>1. q < w
    BY ONLY <1>1, <1>3, w \in Nat
  <2> QED
    BY <2>1 DEF q
<1> QED
  BY <1>2, <1>3

LEMMA LessThan ==
  ASSUME NEW w \in Nat \ {0}, NEW p \in Nat, p < w
  PROVE  p % w = p
  OBVIOUS

LEMMA NextChunk ==
  ASSUME NEW c \in Nat, NEW p \in Nat
  PROVE  (p + 1) * c + 0 = p * c + c
  OBVIOUS

(* A read begins ...                                                       *)
LEMMA ReadReads ==
  ASSUME ServeInv, LayoutInv, NEW size \in Buffers, NEW at \in 0..Max(Lengths), Read(at, size)
  PROVE  Reading'
<1> DEFINE c == Found
           from == (c.data_offset + at) % Wrap
           n == Smaller(c.length - at, size)
<1>1. /\ pc = "at" /\ UNCHANGED <<data, blob, meta, offset, got>>
      /\ args' = [NoArgs EXCEPT !.op = "read", !.buffer = size, !.at = at]
      /\ IF c.kind = "file"
         THEN /\ left' = Smaller((c.length - at) % Wrap, size)
              /\ id' = (from \div ChunkSize) % IdWrap /\ of' = from % ChunkSize /\ pc' = "chunks"
         ELSE pc' = "answer"
  BY DEF Read, Reply, built
<1>2. /\ Found' = c /\ args'.op = "read" /\ args'.buffer = size /\ args'.at = at
      /\ (Addressable' <=> Addressable) /\ at \in Nat /\ size \in Nat
      /\ Wrap \in Nat \ {0} /\ ChunkSize \in Nat \ {0} /\ IdWrap \in Nat \ {0}
  BY <1>1, BuffersAssumption, CellsAssumption, IdWrapAssumption DEF Found, Addressable, Chunks, NoArgs
<1>3. pc # "start" /\ c.t = "node" /\ got = << >>
  BY <1>1 DEF ServeInv, Serving
<1>4. CASE c.kind # "file"
  BY <1>1, <1>2, <1>4 DEF Reading, ReadsOwnBytes
<1>5. CASE c.kind = "file"
  <2>1. /\ left' = Smaller((c.length - at) % Wrap, size) /\ id' = (from \div ChunkSize) % IdWrap
        /\ of' = from % ChunkSize /\ pc' = "chunks"
    BY <1>1, <1>5
  <2>2. c.length \in Nat /\ c.data_offset \in Int
    BY <1>3, <1>5, FoundFile
  <2>3. c.length # 0 =>
          /\ Len(Chunks) \in Nat /\ c.data_offset \in Nat
          /\ c.length < Len(Chunks) /\ c.data_offset + c.length <= Len(Chunks)
    BY <1>3, <1>5, ChunksAre
  <2>4. ASSUME at <= c.length, Addressable
        PROVE  ReadSoFar'
    <3> HIDE DEF c
    <3>1. c.length - at \in Nat /\ c.length - at < Wrap
      BY ONLY <1>2, <2>2, <2>3, <2>4 DEF Addressable
    <3>2. (c.length - at) % Wrap = c.length - at
      BY ONLY <1>2, <3>1, LessThan
    <3>3. left' = n
      BY <2>1, <3>2
    <3>4. n \in Nat /\ n <= c.length - at
      BY ONLY <1>2, <3>1 DEF Smaller, n
    <3>5. left' > 0 => id' * ChunkSize + of' = c.data_offset + at + 0
      <4> SUFFICES ASSUME left' > 0
                   PROVE  id' * ChunkSize + of' = c.data_offset + at + 0
        OBVIOUS
      <4> DEFINE p == c.data_offset + at
      <4>1. at < c.length
        BY ONLY <1>2, <2>2, <3>3, <3>4, left' > 0
      <4>2. p \in Nat /\ p < Wrap /\ p + 0 = p /\ p < Len(Chunks) /\ Len(Chunks) \in Nat
        BY ONLY <1>2, <2>2, <2>3, <2>4, <4>1 DEF Addressable
      <4>3. from = p
        BY ONLY <1>2, <4>2, LessThan
      <4> HIDE DEF p, from
      <4>4. (p \div ChunkSize) * ChunkSize + (p % ChunkSize) = p
        BY ONLY <1>2, <4>2, Divided
      <4> DEFINE q == p \div ChunkSize
                 size_of_all == ChunkSize * IdWrap
      <4>a. size_of_all \in Nat
        BY <1>2
      <4>b. Len(Chunks) <= size_of_all
        BY <2>4 DEF Addressable
      <4> HIDE DEF size_of_all
      <4>c. p < size_of_all
        BY ONLY <4>2, <4>a, <4>b
      <4>d. q \in Nat /\ q < IdWrap
        BY <1>2, <4>2, <4>c, Divided, DividedBelow DEF size_of_all
      <4>e. q % IdWrap = q
        BY <1>2, <4>d, LessThan
      <4>5. id' * ChunkSize + of' = p
        BY <2>1, <4>3, <4>4, <4>e
      <4> QED
        BY <4>2, <4>5 DEF p
    <3> HIDE DEF n, from
    <3>6. got' = << >> /\ Len(got') = 0 /\ n + 0 = n
      BY <1>1, <1>3, <3>4
    <3>7. got' = [k \in 1..0 |-> Content(c.stat, at + k)]
      <4> DEFINE f == [k \in 1..0 |-> Content(c.stat, at + k)]
      <4>1. f \in Seq({}) /\ Len(f) = 0
        OBVIOUS
      <4> QED
        BY <3>6, <4>1
    <3> QED
      BY <1>2, <3>3, <3>5, <3>6, <3>7 DEF ReadSoFar, n
  <2> QED
    BY <1>2, <1>5, <2>1, <2>4 DEF Reading, ReadsOwnBytes
<1> QED
  BY <1>4, <1>5

(* ... goes on with the next chunk ...                                     *)
LEMMA ChunkReads ==
  ASSUME ServeInv, Handling, LayoutInv, Reading, Chunk
  PROVE  Reading'
<1> DEFINE c == Found
           m == Len(got)
           len == Smaller(left, ChunkSize - of)
           at == args.at
           n == Smaller(c.length - at, args.buffer)
           next == [k \in 1..len |-> Byte(id * ChunkSize + of + k - 1)]
<1>1. /\ pc = "chunks" /\ left > 0 /\ got' = got \o next /\ of' = 0 /\ left' = left - len
      /\ id' = (id + 1) % IdWrap /\ UNCHANGED <<data, blob, meta, pc, offset, args>>
  BY DEF Chunk, built, request
<1>2. /\ Found' = c /\ (Addressable' <=> Addressable)
  BY <1>1 DEF Found, Addressable, Chunks
<1>3. /\ pc # "start" /\ c.t = "node" /\ c.kind = "file"
  BY <1>1 DEF ServeInv, Serving, Reading
<1>4. c.length \in Nat
  BY <1>3, FoundFile
<1>5. /\ at \in Nat /\ args.buffer \in Nat /\ ChunkSize \in Nat \ {0} /\ left \in Nat /\ id \in Nat
      /\ of \in 0..(ChunkSize - 1)
  <2>1. args.buffer \in Nat /\ at \in Nat
    BY ArgumentsTyped DEF ServeInv
  <2> QED
    BY <2>1, CellsAssumption DEF Handling
<1>6. ASSUME at <= c.length, Addressable
      PROVE  ReadSoFar'
  <2>1. /\ m \in Nat /\ left + m = n /\ got = [k \in 1..m |-> Content(c.stat, at + k)]
        /\ id * ChunkSize + of = c.data_offset + at + m
    BY <1>1, <1>6 DEF Reading, ReadSoFar
  <2> HIDE DEF c, m, at
  <2>2. n \in Nat /\ n <= c.length - at
    BY ONLY <1>4, <1>5, <1>6 DEF Smaller, n
  <2>3. len \in Nat /\ len <= left /\ (left - len > 0 => len = ChunkSize - of)
    BY ONLY <1>5 DEF Smaller, len
  <2> HIDE DEF n, len
  <2>4. c.length # 0 /\ at + m + left <= c.length
    BY ONLY <1>1, <1>4, <1>5, <2>1, <2>2
  <2>5. /\ c.data_offset \in Nat /\ Len(Chunks) \in Nat /\ c.data_offset + c.length <= Len(Chunks)
        /\ \A j \in 1..c.length : Byte(c.data_offset + j - 1) = Content(c.stat, j)
    BY <1>3, <2>4, ChunksAre DEF c
  <2> DEFINE to == c.data_offset
             l == c.length
  <2>t. /\ m \in Nat /\ at \in Nat /\ to \in Nat /\ l \in Nat /\ len \in Nat /\ left \in Nat
        /\ of \in Nat /\ ChunkSize \in Nat /\ at + m + left <= l /\ len <= left
    BY <1>4, <1>5, <2>1, <2>3, <2>4, <2>5
  <2> HIDE DEF to, l
  <2>6. \A k \in 1..len : Byte(id * ChunkSize + of + k - 1) = Content(c.stat, at + (m + k))
    <3> SUFFICES ASSUME NEW k \in 1..len
                 PROVE  Byte(id * ChunkSize + of + k - 1) = Content(c.stat, at + (m + k))
      OBVIOUS
    <3> DEFINE p == id * ChunkSize + of
    <3>1. p = to + at + m
      BY <2>1 DEF to
    <3> HIDE DEF p
    <3>2. at + (m + k) \in 1..l /\ p + k - 1 = to + (at + (m + k)) - 1
      BY ONLY <2>t, <3>1, k \in 1..len
    <3>3. Byte(p + k - 1) = Content(c.stat, at + (m + k))
      BY <2>5, <3>2 DEF to, l
    <3> QED
      BY <3>3 DEF p
  <2>7. next = [k \in 1..len |-> Content(c.stat, at + (m + k))]
    BY <2>6
  <2> HIDE DEF next
  <2>8. /\ Len(got \o next) = m + len
        /\ got \o next = [k \in 1..(m + len) |-> Content(c.stat, at + k)]
    <3> DEFINE f(k) == Content(c.stat, at + k)
    <3>1. got = [k \in 1..m |-> f(k)] /\ next = [k \in 1..len |-> f(m + k)]
      BY <2>1, <2>7
    <3> HIDE DEF f
    <3>2. Len(got \o next) = m + len /\ got \o next = [k \in 1..(m + len) |-> f(k)]
      BY ONLY <2>1, <2>3, <3>1
    <3> QED
      BY <3>2 DEF f
  <2>9. Len(got') = m + len /\ got' = [k \in 1..Len(got') |-> Content(c.stat, at + k)]
    BY <1>1, <2>8
  <2>10. m + len \in Nat /\ left' + (m + len) = n
    BY ONLY <1>1, <1>5, <2>1, <2>3
  <2>11. left' > 0 => id' * ChunkSize + of' = c.data_offset + at + (m + len)
    <3> SUFFICES ASSUME left' > 0
                 PROVE  id' * ChunkSize + of' = c.data_offset + at + (m + len)
      OBVIOUS
    <3> DEFINE p == id * ChunkSize
    <3>1. (id + 1) * ChunkSize + 0 = p + ChunkSize
      BY <1>5, NextChunk
    <3>2. p + of = c.data_offset + at + m /\ p \in Int
      BY <1>5, <2>1
    <3>3. len = ChunkSize - of
      BY <1>1, <2>3
    <3>p. p \in Int
      BY <3>2
    <3> HIDE DEF p
    <3>4. p + of = to + at + m
      BY <3>2 DEF to
    <3>5. p + ChunkSize = to + at + (m + len)
      BY ONLY <2>t, <3>p, <3>3, <3>4
    <3>6. (id + 1) % IdWrap = id + 1
      <4> DEFINE size_of_all == ChunkSize * IdWrap
                 q == (id + 1) * ChunkSize
      <4>1. size_of_all \in Nat /\ id + 1 \in Nat /\ IdWrap \in Nat \ {0} /\ q \in Nat
        BY <1>5, IdWrapAssumption
      <4>2. Len(Chunks) <= size_of_all /\ Len(Chunks) \in Nat /\ to + l <= Len(Chunks)
        BY <1>6, <2>5 DEF Addressable, to, l
      <4>3. q = p + ChunkSize
        BY <3>1, <4>1
      <4>4. left - len > 0
        BY <1>1
      <4> HIDE DEF size_of_all, q
      <4>5. q < size_of_all
        BY ONLY <2>t, <3>5, <4>1, <4>2, <4>3, <4>4
      <4>6. q \div ChunkSize < IdWrap
        BY <1>5, <4>1, <4>5, DividedBelow DEF size_of_all
      <4>7. q \div ChunkSize = id + 1
        BY ONLY <1>5 DEF q
      <4> QED
        BY <4>1, <4>6, <4>7, LessThan
    <3> QED
      BY <1>1, <3>1, <3>5, <3>6 DEF to
  <2> QED
    BY <1>1, <1>2, <2>9, <2>10, <2>11 DEF ReadSoFar, c, at, n
<1> QED
  BY <1>1, <1>2, <1>3, <1>6 DEF Reading, ReadsOwnBytes

(* ... and ends.                                                           *)
LEMMA EndReads ==
  ASSUME ServeInv, Handling, LayoutInv, Reading, ReadEnds \/ ChunkFails
  PROVE  Reading'
<1> DEFINE c == Found
<1>1. /\ pc = "chunks" /\ pc' = "answer" /\ (answer' = "EACCES" \/ (left = 0 /\ answer' = "OK"))
      /\ UNCHANGED <<data, blob, meta, offset, args, got>>
  BY DEF ReadEnds, ChunkFails, Reply, built, request, reading
<1>2. /\ Found' = c /\ (Addressable' <=> Addressable)
  BY <1>1 DEF Found, Addressable, Chunks
<1>3. /\ pc # "start" /\ c.t = "node" /\ c.kind = "file"
  BY <1>1 DEF ServeInv, Serving, Reading
<1>4. c.length \in Nat /\ c.length # Uninit
  <2>1. c.length \in Nat
    BY <1>3, FoundFile
  <2> QED
    BY <2>1 DEF Uninit
<1>5. ASSUME left = 0, args.at <= c.length, Addressable
      PROVE  got = [k \in 1..Smaller(c.length - args.at, args.buffer) |-> Content(c.stat, args.at + k)]
  <2>1. /\ Len(got) \in Nat /\ left + Len(got) = Smaller(c.length - args.at, args.buffer)
        /\ got = [k \in 1..Len(got) |-> Content(c.stat, args.at + k)]
    BY <1>1, <1>5 DEF Reading, ReadSoFar
  <2>2. Len(got) = Smaller(c.length - args.at, args.buffer)
    BY <1>5, <2>1
  <2> QED
    BY <2>1, <2>2
<1> QED
  BY <1>1, <1>2, <1>3, <1>4, <1>5 DEF Reading, ReadsOwnBytes

LEMMA OthersRead ==
  ASSUME ServeInv, [Next]_vars, ~(Chunk \/ ReadEnds \/ ChunkFails \/ Dead \/ UNCHANGED vars),
         \A size \in Buffers : \A at \in 0..Max(Lengths) : ~Read(at, size)
  PROVE  Reading'
<1> SUFFICES pc' # "chunks" /\ (pc' = "answer" => args'.op # "read")
  BY DEF Reading, ReadsOwnBytes
<1>1. CASE Build
  BY <1>1, BuildServes, ServeKeeps DEF ServeInv
<1>2. CASE Mount \/ Done \/ \E p \in Asked : Begin(p)
  BY <1>2 DEF Mount, Done, Begin
<1>3. CASE GetChild \/ Enter \/ Resolved \/ ReadLink
  <2>1. pc \in {"walk", "search", "at"} /\ UNCHANGED args /\ pc' \in {"search", "answer", "walk", "at"}
    BY <1>3 DEF GetChild, Enter, Resolved, ReadLink, Reply, request
  <2>2. args.op = "none"
    BY <2>1 DEF ServeInv, Serving
  <2> QED
    BY <2>1, <2>2
<1>4. CASE OpenDir
  BY <1>4 DEF OpenDir, NoArgs, Reply
<1>5. CASE ReadDir \/ ListName
  <2>1. pc \in {"list", "names"} /\ pc' \in {"list", "names", "answer"}
        /\ \E to : args' = [args EXCEPT !.at = to]
    BY <1>5 DEF ReadDir, ListName, Reply
  <2>2. args.op \in {"readdir", "listxattr"} /\ args \in Arguments
    BY <2>1 DEF ServeInv, Serving, NoArgs
  <2>3. args'.op = args.op
    BY <2>1, <2>2 DEF Arguments
  <2> QED
    BY <2>1, <2>2, <2>3
<1>6. CASE ListEnds \/ AnswerXattr \/ FindEntity
  <2>1. pc \in {"names", "value", "search"} /\ UNCHANGED args /\ pc' \in {pc, "answer"}
        /\ (pc = "search" => pc' = pc)
    BY <1>6 DEF ListEnds, AnswerXattr, FindEntity, Reply, request, mounted
  <2>2. pc # "search" => args.op \in {"listxattr", "getxattr"}
    BY <2>1 DEF ServeInv, Serving
  <2> QED
    BY <2>1, <2>2
<1>7. ASSUME NEW size \in Buffers, ListXattr(size) \/ \E name \in DOMAIN Values : GetXattr(name, size)
      PROVE  pc' \in {"names", "value", "answer"} /\ args'.op \in {"listxattr", "getxattr"}
  BY <1>7 DEF ListXattr, GetXattr, NoArgs, Reply
<1> QED
  BY <1>1, <1>2, <1>3, <1>4, <1>5, <1>6, <1>7 DEF Next

LEMMA ReadingKeeps ==
  ASSUME ServeInv, Handling, LayoutInv, Reading, [Next]_vars
  PROVE  Reading'
<1>1. CASE Dead \/ UNCHANGED vars
  <2>1. /\ UNCHANGED <<data, blob, meta, offset, pc, args, got, left, id, of, answer>>
    BY <1>1 DEF Dead, vars, built, search, mounted, request, reading
  <2>2. Found' = Found /\ (Addressable' <=> Addressable)
    BY <2>1 DEF Found, Addressable, Chunks
  <2>3. ReadSoFar' <=> ReadSoFar
    BY <2>1, <2>2 DEF ReadSoFar
  <2> QED
    BY <2>1, <2>2, <2>3 DEF Reading, ReadsOwnBytes
<1>2. CASE Chunk \/ ReadEnds \/ ChunkFails
  BY <1>2, ChunkReads, EndReads
<1>3. ASSUME NEW size \in Buffers, NEW at \in 0..Max(Lengths), Read(at, size)
      PROVE  Reading'
  BY <1>3, ReadReads
<1> QED
  BY <1>1, <1>2, <1>3, OthersRead

(* Every file that is found has been placed; and a read that does not      *)
(* begin behind what was stored of it answers its own bytes from there, as *)
(* many as there are or the caller asked for, however they lie in the      *)
(* chunks, as long as offsets and ids of chunks reach all of the image.    *)
THEOREM ReadsOwnBytesHolds == Spec => []ReadsOwnBytes
<1> DEFINE Inv == Handling /\ LayoutInv /\ Reading
<1>1. Init => Inv
  <2>1. Init => Handling
    BY HandlingInit
  <2>2. Init => LayoutInv
    BY LayoutInit DEF Init
  <2>3. Init => Reading
    BY DEF Init, Reading, ReadsOwnBytes
  <2> QED
    BY <2>1, <2>2, <2>3
<1>2. ServeInv /\ Inv /\ [Next]_vars => Inv'
  <2>1. ServeInv => ImageInv
    BY DEF ServeInv
  <2> QED
    BY <2>1, StepsAre, HandlingKeeps, LayoutKeeps, ReadingKeeps
<1>3. Inv => ReadsOwnBytes
  BY DEF Reading
<1> QED
  BY <1>1, <1>2, <1>3, ServeInvariant, PTL DEF Spec
=============================================================================
