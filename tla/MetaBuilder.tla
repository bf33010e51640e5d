----------------------------- MODULE MetaBuilder -----------------------------
(***************************************************************************)
(* The metadata of an image, as the `build` command makes it:              *)
(* meta/metafs_builder.{h,cc}.  scan_dfs walks through the source          *)
(* directory and writes nodes, entries and names into one buffer, which    *)
(* create_chunks then walks through once more to add the files.            *)
(*                                                                         *)
(* The buffer is a sequence of cells, one for each Node, Entry, name and   *)
(* value, and offsets count cells; what is at offset 0 is the length.  How *)
(* many bytes each takes, and that they fit, is in MetaBuffer.  The        *)
(* source directory is whatever the system calls say: it may change        *)
(* between two of them, and `tree` is what they said.  A node is known by  *)
(* the path whose lstat it holds, a byte of a file by the path and its     *)
(* number.  Failures of the store end a build and are in ChunkBuilder.     *)
(***************************************************************************)
EXTENDS Integers, Sequences, SequencesExt

CONSTANTS
  Names,         \* names of entries, in their order
  Values,        \* Values[n]: the value of attribute n, where 0 is NUL
  Lengths,       \* of files
  ChunkSize,     \* CHUNK_SIZE_BYTES, in cells and bytes
  Wrap,          \* 2^64
  Limits         \* bounds on the source directory: its entries, attributes,
                 \* and how many of them are listed but cannot be read

ASSUME NamesAssumption == Names \subseteq Nat \ {0} /\ IsFiniteSet(Names)
ASSUME ValuesAssumption == Values \in Seq(Seq(Nat))
ASSUME LengthsAssumption == Lengths \subseteq Nat
ASSUME CellsAssumption == ChunkSize \in Nat \ {0} /\ Wrap \in Nat \ {0}
ASSUME LimitsAssumption == Limits \subseteq [nodes : Nat, xattrs : Nat, lost : Nat]

VARIABLES
  tree,       \* tree[path]: what the system calls said of path
  data,       \* data, up to current_pos
  stack,      \* the calls of scan_dfs on directories
  queue,      \* Q
  blob,       \* what the ChunkBuilder has got, behind the metadata
  stage,      \* where the thread is
  bounds      \* what is left of one of Limits

built == <<tree, data, stack, queue, blob, stage, bounds>>

Uninit == -1
Root == << >>
----------------------------------------------------------------------------
(* Cells.                                                                  *)
Header(length) == [t |-> "header", length |-> length]
Name(n) == [t |-> "name", is |-> n]
Target(path) == [t |-> "target", of |-> path]
Value(v) == [t |-> "value", chars |-> v]
Content(path, k) == [t |-> "byte", of |-> path, number |-> k]
Entry(name, to) == [t |-> "entry", name_offset |-> name, data_offset |-> to]
Node(path, kind, size, xattrs, length, to) ==
  [t |-> "node", stat |-> path, kind |-> kind, size |-> size,
   xattrs_count |-> xattrs, length |-> length, data_offset |-> to]

InOrder(names) == \A j, k \in DOMAIN names : j < k => names[j] < names[k]
Lists(names, max) == {l \in UNION {[1..n -> names] : n \in 0..max} : InOrder(l)}

(* What read_xattrs finds and sorts by name, lines 162-179: the names that *)
(* llistxattr gives, those of a link itself, and the values that getxattr  *)
(* gives, which follows a link; a value that cannot be read is empty.      *)
Unread(xattrs) == {k \in DOMAIN xattrs : xattrs[k].value # Values[xattrs[k].name]}

XattrLists(max, lost) ==
  {[k \in DOMAIN l |-> [name |-> l[k], value |-> IF k \in gone THEN << >> ELSE Values[l[k]]]] :
     l \in Lists(DOMAIN Values, max), gone \in {g \in SUBSET (1..max) : Cardinality(g) <= lost}}

(* What strncpy copies, line 48: up to the first NUL, which it repeats.    *)
Copied(v) ==
  [k \in DOMAIN v |-> IF \E j \in 1..k : v[j] = 0 THEN 0 ELSE v[k]]

(* add_xattrs, lines 38-51, at offset pos: entries, then names and values. *)
XattrCells(pos, xattrs) ==
  LET n == Len(xattrs)
      of(k) == xattrs[(k - n + 1) \div 2]
  IN  [k \in 1..(3 * n) |->
         IF k <= n THEN Entry(pos + n + 2 * k - 2, pos + n + 2 * k - 1)
         ELSE IF (k - n) % 2 = 1 THEN Name(of(k).name) ELSE Value(Copied(of(k).value))]

XattrsLen(xattrs) == 3 * Len(xattrs)

(* add_file, add_link and add_dir: the cells that each appends at pos.     *)
AddFile(pos, path, s) ==
  <<Node(path, "file", s.size, Len(s.xattrs), Uninit, Uninit)>>
  \o XattrCells(pos + 1, s.xattrs)

AddLink(pos, path, s) ==
  LET to == pos + 1 + XattrsLen(s.xattrs)
  IN  <<Node(path, "link", s.size, Len(s.xattrs), Uninit, to)>>
      \o XattrCells(pos + 1, s.xattrs) \o <<Target(path)>>

(* Mutant: data_offset is taken before add_xattrs.                         *)
AddDirEarly(pos, path, s) ==
  LET n == Len(s.names)
  IN  <<Node(path, "dir", s.size, Len(s.xattrs), n, pos + 1)>>
      \o XattrCells(pos + 1, s.xattrs)
      \o [k \in 1..n |-> Entry(pos + XattrsLen(s.xattrs) + n + k, Uninit)]
      \o [k \in 1..n |-> Name(s.names[k])]

AddDir(pos, path, s) ==
  LET to == pos + 1 + XattrsLen(s.xattrs)
      n == Len(s.names)
  IN  <<Node(path, "dir", s.size, Len(s.xattrs), n, to)>>
      \o XattrCells(pos + 1, s.xattrs)
      \o [k \in 1..n |-> Entry(to + n + k - 1, Uninit)]
      \o [k \in 1..n |-> Name(s.names[k])]

Added(pos, path, s) ==
  CASE s.kind = "file" -> AddFile(pos, path, s)
    [] s.kind = "link" -> AddLink(pos, path, s)
    [] s.kind = "dir"  -> AddDir(pos, path, s)
----------------------------------------------------------------------------
(* What lstat, llistxattr, getxattr, opendir and readdir can say.  A file  *)
(* that is not a file, a link or a directory is not listed; a directory    *)
(* that cannot be opened is empty.  A file may be shorter when it is read. *)
Answers ==
  [kind : {"file"}, size : {Max(Lengths)}, xattrs : XattrLists(bounds.xattrs, bounds.lost), names : {<< >>}]
  \cup [kind : {"link"}, size : {1}, xattrs : XattrLists(bounds.xattrs, bounds.lost), names : {<< >>}]
  \cup [kind : {"dir"}, size : {1}, xattrs : XattrLists(bounds.xattrs, bounds.lost),
        names : Lists(Names, bounds.nodes)]

Said(path, s) ==
  /\ tree' = [p \in DOMAIN tree \cup {path} |-> IF p = path THEN s ELSE tree[p]]
  /\ bounds' = [bounds EXCEPT !.nodes = @ - Len(s.names), !.xattrs = @ - Len(s.xattrs),
                               !.lost = @ - Cardinality(Unread(s.xattrs))]

Call(path, pos, s) ==
  [path |-> path, addr |-> pos, dirents |-> pos + 1 + XattrsLen(s.xattrs), i |-> 0]

Top == stack[Len(stack)]

(* set_dirent_node_offset for the entry that the call on top is at.        *)
SetEntry(cells, call, to) ==
  [cells EXCEPT ![call.dirents + call.i + 1] = [@ EXCEPT !.data_offset = to]]

NextEntry(calls) == [calls EXCEPT ![Len(calls)].i = @ + 1]

BuildInit ==
  /\ tree = << >>
  /\ data = <<Header(Uninit)>>
  /\ stack = << >>
  /\ queue = << >>
  /\ blob = << >>
  /\ stage = "root"
  /\ bounds \in Limits

(* scan_dfs(root_path), which is a directory.                              *)
ScanRoot ==
  /\ stage = "root"
  /\ \E s \in Answers :
       /\ s.kind = "dir"
       /\ Said(Root, s)
       /\ data' = data \o Added(Len(data), Root, s)
       /\ stack' = <<Call(Root, Len(data), s)>>
  /\ stage' = "scan"
  /\ UNCHANGED <<queue, blob>>

(* Line 150 and the call that it makes.                                    *)
Child == Append(Top.path, tree[Top.path].names[Top.i + 1])
AtEntry == stage = "scan" /\ stack # << >> /\ Top.i < Len(tree[Top.path].names)

Scan ==
  /\ AtEntry
  /\ \E s \in Answers :
       LET cells == data \o Added(Len(data), Child, s)
       IN  /\ Said(Child, s)
           /\ IF s.kind = "dir"
              THEN data' = cells /\ stack' = Append(stack, Call(Child, Len(data), s))
              ELSE data' = SetEntry(cells, Top, Len(data)) /\ stack' = NextEntry(stack)
  /\ UNCHANGED <<queue, blob, stage>>

(* The entry has gone since it was listed, lines 110-112.                  *)
Vanish ==
  /\ AtEntry
  /\ bounds.lost > 0
  /\ bounds' = [bounds EXCEPT !.lost = @ - 1]
  /\ data' = SetEntry(data, Top, 0)
  /\ stack' = NextEntry(stack)
  /\ UNCHANGED <<tree, queue, blob, stage>>

(* The loop of a directory ends, line 153: its caller sets the entry, or   *)
(* build goes on, lines 234-236.                                           *)
Leave ==
  /\ stage = "scan"
  /\ stack # << >>
  /\ Top.i = Len(tree[Top.path].names)
  /\ IF Len(stack) > 1
     THEN LET calls == Front(stack)
          IN  /\ data' = SetEntry(data, calls[Len(calls)], Top.addr)
              /\ stack' = NextEntry(calls)
              /\ UNCHANGED <<queue, stage>>
     ELSE /\ data' = [data EXCEPT ![1] = Header(Len(data))]
          /\ stack' = << >>
          /\ queue' = <<[at |-> 1, path |-> Root]>>
          /\ stage' = "place"
  /\ UNCHANGED <<tree, blob, bounds>>
----------------------------------------------------------------------------
(* create_chunks: the first of the queue, a turn of lines 199-220.         *)
First == queue[1]
Taken == data[First.at + 1]
Turn == stage = "place" /\ queue # << >>

(* add_file: the chunk builder puts the file behind what it has got.       *)
PlaceFile ==
  /\ Turn
  /\ Taken.t = "node" /\ Taken.kind = "file"
  /\ \E n \in Lengths :
       /\ data' = [data EXCEPT ![First.at + 1] =
                     [@ EXCEPT !.data_offset = Len(data) + Len(blob), !.length = n]]
       /\ blob' = blob \o [k \in 1..n |-> Content(First.path, k)]
  /\ queue' = Tail(queue)
  /\ UNCHANGED <<tree, stack, stage, bounds>>

(* It cannot be opened, or not be read to its end: lines 207-209.  What    *)
(* was read of it stays.                                                   *)
DenyFile ==
  /\ Turn
  /\ Taken.t = "node" /\ Taken.kind = "file"
  /\ bounds.lost > 0
  /\ bounds' = [bounds EXCEPT !.lost = @ - 1]
  /\ data' = [data EXCEPT ![First.at + 1] =
                [@ EXCEPT !.data_offset = Wrap - 1, !.length = 0]]
  /\ \E n \in 0..1 : blob' = blob \o [k \in 1..n |-> Content(First.path, k)]
  /\ queue' = Tail(queue)
  /\ UNCHANGED <<tree, stack, stage>>

PlaceDir ==
  /\ Turn
  /\ Taken.t = "node" /\ Taken.kind = "dir"
  /\ queue' = Tail(queue) \o
       [k \in 1..Taken.length |->
          LET e == data[Taken.data_offset + k]
          IN  [at |-> e.data_offset,
               path |-> Append(First.path, data[e.name_offset + 1].is)]]
  /\ UNCHANGED <<tree, data, stack, blob, stage, bounds>>

PlaceLink ==
  /\ Turn
  /\ Taken.t = "node" /\ Taken.kind = "link"
  /\ queue' = Tail(queue)
  /\ UNCHANGED <<tree, data, stack, blob, stage, bounds>>

(* An entry that had vanished leads to the header, whose length is read as *)
(* the mode of a node.  As that of a file, the fields of lines 204-208 are *)
(* fields of the root: its length is where data_offset is, its number of   *)
(* attributes where length is; and what is at the path by now may be put   *)
(* there.  As that of a directory, whatever is behind is read as entries.  *)
SetRoot(length, xattrs) ==
  data' = [data EXCEPT ![2] = [@ EXCEPT !.length = length, !.xattrs_count = xattrs]]

PlaceHeader ==
  /\ Turn
  /\ Taken.t = "header"
  /\ \/ UNCHANGED <<data, blob, stage>>
     \/ /\ \E n \in 0..1 :
             SetRoot(Wrap - 1, 0) /\ blob' = blob \o [k \in 1..n |-> Content(First.path, k)]
        /\ UNCHANGED stage
     \/ /\ \E n \in Lengths :
             /\ SetRoot(Len(data) + Len(blob), n)
             /\ blob' = blob \o [k \in 1..n |-> Content(First.path, k)]
        /\ UNCHANGED stage
     \/ stage' = "dead" /\ UNCHANGED <<data, blob>>
  /\ queue' = Tail(queue)
  /\ UNCHANGED <<tree, stack, bounds>>

(* Lines 222 and 238.                                                      *)
WriteMeta ==
  /\ stage = "place"
  /\ queue = << >>
  /\ stage' = "built"
  /\ UNCHANGED <<tree, data, stack, queue, blob, bounds>>

BuildNext ==
  \/ ScanRoot \/ Scan \/ Vanish \/ Leave \/ PlaceFile \/ DenyFile \/ PlaceDir
  \/ PlaceLink \/ PlaceHeader \/ WriteMeta

BuildSpec == BuildInit /\ [][BuildNext]_built
----------------------------------------------------------------------------
(* What was not overwritten through an entry that had vanished.            *)
RootKept ==
  stage \notin {"root", "scan"} =>
    /\ data[2].length = Len(tree[Root].names)
    /\ data[2].xattrs_count = Len(tree[Root].xattrs)

(* When the scan has ended, the node of every directory has the entries    *)
(* that were listed, in their order, and each leads to the node of its     *)
(* path, or to the header if it had vanished; and it stays so while files  *)
(* are placed.                                                             *)
TreeKept ==
  stage \in {"place", "built"} /\ RootKept =>
    /\ data[2].t = "node" /\ data[2].stat = Root
    /\ \A o \in DOMAIN data : data[o].t = "node" /\ data[o].kind = "dir" =>
         LET c == data[o]
             names == tree[c.stat].names
         IN  /\ c.length = Len(names)
             /\ \A k \in DOMAIN names :
                  LET e == data[c.data_offset + k]
                      path == Append(c.stat, names[k])
                  IN  /\ data[e.name_offset + 1] = Name(names[k])
                      /\ IF path \in DOMAIN tree
                         THEN data[e.data_offset + 1].t = "node"
                              /\ data[e.data_offset + 1].stat = path
                         ELSE e.data_offset = 0
=============================================================================
