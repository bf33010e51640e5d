-------------------------- MODULE MetaBuilderProofs --------------------------
(***************************************************************************)
(* What holds of the metadata that the build command lays out, for any     *)
(* source directory and however it changes: the inductive invariants of    *)
(* MetaBuilder, and that its first state has them and every step keeps     *)
(* them.  The nodes are the tree (BuildInv), every scanned path is listed  *)
(* by the directories above it (ImageInv), every node has its own span of  *)
(* cells, and every file is placed (LayoutInv).  At the end, of MetaBuffer:*)
(* that no write ends behind the buffer (BufferInv).                       *)
(***************************************************************************)
EXTENDS MetaBuilder, MetaBuffer, TLAPS

(* What MetaBuilder lays out: the cells, and the answers of system calls.  *)
NodeCell == [t : {"node"}, stat : Seq(Names), kind : {"file", "link", "dir"},
             size : {1, Max(Lengths)}, xattrs_count : Nat, length : Int, data_offset : Int]
EntryCell == [t : {"entry"}, name_offset : Nat, data_offset : Int]
PlainCell == [t : {"header"}, length : Int] \cup [t : {"name"}, is : Nat]
             \cup [t : {"target"}, of : Seq(Names)] \cup [t : {"value"}, chars : Seq(Nat)]
Cell == NodeCell \cup EntryCell \cup PlainCell

Xattr == [name : DOMAIN Values, value : Seq(Nat)]
XattrSeq == Seq(Xattr)

GoodAnswer(s) ==
  /\ s.kind \in {"file", "link", "dir"}
  /\ s.size \in {1, Max(Lengths)}
  /\ s.xattrs \in XattrSeq
  /\ s.names \in Seq(Names) /\ InOrder(s.names)
  /\ s.kind # "dir" => s.names = << >>

AddedLen(s) ==
  1 + (IF s.kind = "link" THEN 1 ELSE 2 * Len(s.names)) + XattrsLen(s.xattrs)

LEMMA CellsDiffer ==
  ASSUME NEW c \in Cell
  PROVE  /\ c.t \in {"node", "entry", "header", "name", "target", "value"}
         /\ c.t = "node" <=> c \in NodeCell
         /\ c.t = "entry" <=> c \in EntryCell
  BY DEF Cell, NodeCell, EntryCell, PlainCell

LEMMA ListsAre ==
  ASSUME NEW S, NEW max, NEW l \in Lists(S, max)
  PROVE  l \in Seq(S) /\ InOrder(l)
  BY DEF Lists

LEMMA XattrListsAre ==
  ASSUME NEW max, NEW lost, NEW x \in XattrLists(max, lost)
  PROVE  x \in XattrSeq
<1>1. PICK l \in Lists(DOMAIN Values, max), gone \in SUBSET (1..max) :
        x = [k \in DOMAIN l |->
               [name |-> l[k], value |-> IF k \in gone THEN << >> ELSE Values[l[k]]]]
  BY DEF XattrLists
<1>2. l \in Seq(DOMAIN Values)
  BY ListsAre
<1>3. \A v \in DOMAIN Values : Values[v] \in Seq(Nat)
  BY ValuesAssumption
<1>4. Len(l) \in Nat /\ DOMAIN l = 1..Len(l) /\ \A k \in 1..Len(l) : l[k] \in DOMAIN Values
  BY <1>2
<1>5. \A k \in 1..Len(l) : (IF k \in gone THEN << >> ELSE Values[l[k]]) \in Seq(Nat)
  BY <1>3, <1>4
<1> QED
  BY <1>1, <1>4, <1>5 DEF XattrSeq, Xattr

LEMMA AnswersAreGood ==
  ASSUME NEW s \in Answers
  PROVE  GoodAnswer(s)
<1>1. << >> \in Seq(Names) /\ InOrder(<< >>) /\ << >> \in XattrSeq
  BY DEF InOrder, XattrSeq
<1>2. \A x \in XattrLists(bounds.xattrs, bounds.lost) : x \in XattrSeq
  BY XattrListsAre
<1>3. \A l \in Lists(Names, bounds.nodes) : l \in Seq(Names) /\ InOrder(l)
  BY ListsAre
<1> QED
  BY <1>1, <1>2, <1>3 DEF Answers, GoodAnswer

LEMMA CopiedTyped ==
  ASSUME NEW v \in Seq(Nat)
  PROVE  Copied(v) \in Seq(Nat)
  BY DEF Copied

(* The attributes of a node: n entries, then each name and its value.      *)
LEMMA XattrCellsAre ==
  ASSUME NEW pos \in Nat, NEW xattrs \in XattrSeq
  PROVE  LET cells == XattrCells(pos, xattrs)
             n == Len(xattrs)
         IN  /\ n \in Nat /\ XattrsLen(xattrs) = 3 * n
             /\ cells \in Seq(Cell) /\ Len(cells) = 3 * n
             /\ \A k \in 1..(3 * n) :
                  /\ cells[k].t # "node"
                  /\ cells[k].t = "entry" => cells[k].data_offset \in pos..(pos + 3 * n - 1)
<1> DEFINE n == Len(xattrs)
           attr(k) == xattrs[(k - n + 1) \div 2]
           cell(k) == IF k <= n THEN Entry(pos + n + 2 * k - 2, pos + n + 2 * k - 1)
                      ELSE IF (k - n) % 2 = 1 THEN Name(attr(k).name)
                      ELSE Value(Copied(attr(k).value))
<1>a. n \in Nat /\ \A j \in 1..n : xattrs[j] \in Xattr
  BY DEF XattrSeq
<1>1. n \in Nat /\ DOMAIN Values \subseteq Nat
  <2>1. Len(Values) \in Nat /\ DOMAIN Values = 1..Len(Values)
    BY ValuesAssumption
  <2> QED
    BY <2>1 DEF XattrSeq
<1>2. XattrCells(pos, xattrs) = [k \in 1..(3 * n) |-> cell(k)]
  BY DEF XattrCells
<1>3. ASSUME NEW k \in 1..(3 * n)
      PROVE  /\ cell(k) \in Cell /\ cell(k).t # "node"
             /\ cell(k).t = "entry" => cell(k).data_offset \in pos..(pos + 3 * n - 1)
  <2>1. CASE k <= n
    <3>1. /\ pos + n + 2 * k - 2 \in Nat
          /\ pos + n + 2 * k - 1 \in pos..(pos + 3 * n - 1)
          /\ pos + n + 2 * k - 1 \in Int
      BY <1>1, <2>1
    <3>2. cell(k) = Entry(pos + n + 2 * k - 2, pos + n + 2 * k - 1)
      BY <2>1
    <3> HIDE DEF cell
    <3>3. cell(k) \in EntryCell
      BY <3>1, <3>2 DEF Entry, EntryCell
    <3> QED
      BY <3>1, <3>2, <3>3 DEF Entry, Cell
  <2>2. CASE ~(k <= n)
    <3>1. (k - n + 1) \div 2 \in 1..n
      BY <1>1, <2>2
    <3>b. attr(k) \in Xattr
      BY <1>a, <3>1
    <3>c. attr(k).name \in DOMAIN Values /\ attr(k).value \in Seq(Nat)
      BY <3>b DEF Xattr
    <3>2. attr(k).name \in Nat /\ attr(k).value \in Seq(Nat)
      BY <1>1, <3>c
    <3>3. Copied(attr(k).value) \in Seq(Nat)
      BY <3>2, CopiedTyped
    <3>4. cell(k) = Name(attr(k).name) \/ cell(k) = Value(Copied(attr(k).value))
      <4>1. CASE (k - n) % 2 = 1
        BY <2>2, <4>1
      <4>2. CASE (k - n) % 2 # 1
        BY <2>2, <4>2
      <4> QED
        BY <4>1, <4>2
    <3> HIDE DEF cell, attr
    <3> QED
      BY <3>2, <3>3, <3>4 DEF Name, Value, Cell, PlainCell
  <2> QED
    BY <2>1, <2>2
<1> HIDE DEF cell
<1>4. XattrCells(pos, xattrs) \in Seq(Cell) /\ Len(XattrCells(pos, xattrs)) = 3 * n
  BY <1>1, <1>2, <1>3
<1> QED
  BY <1>1, <1>2, <1>3, <1>4 DEF XattrsLen

LEMMA Joined ==
  ASSUME NEW s \in Seq(Cell), NEW t \in Seq(Cell)
  PROVE  /\ s \o t \in Seq(Cell) /\ Len(s \o t) = Len(s) + Len(t)
         /\ \A k \in 1..Len(s) : (s \o t)[k] = s[k]
         /\ \A k \in 1..Len(t) : (s \o t)[Len(s) + k] = t[k]
  OBVIOUS

LEMMA NodeTyped ==
  ASSUME NEW p \in Seq(Names), NEW kind \in {"file", "link", "dir"},
         NEW size \in {1, Max(Lengths)}, NEW x \in Nat, NEW length \in Int, NEW to \in Int
  PROVE  LET c == Node(p, kind, size, x, length, to)
         IN  /\ c \in NodeCell /\ c.t = "node" /\ c.stat = p /\ c.kind = kind
             /\ c.xattrs_count = x /\ c.length = length /\ c.data_offset = to
  BY DEF Node, NodeCell

(* A node, its attributes, and what else its kind of file has: a target,   *)
(* or the entries and the names of a directory.                            *)
Laying(pos, here, s, cells) ==
  LET n == Len(s.names)
      x == 3 * Len(s.xattrs)
  IN  /\ cells \in Seq(Cell) /\ Len(cells) = AddedLen(s) /\ Len(cells) \in Nat
      /\ Len(cells) >= 1 + x + 2 * n
      /\ cells[1] \in NodeCell /\ cells[1].t = "node" /\ cells[1].stat = here
      /\ cells[1].kind = s.kind /\ cells[1].xattrs_count = Len(s.xattrs)
      /\ s.kind = "dir" => cells[1].length = n /\ cells[1].data_offset = pos + 1 + x
      /\ \A k \in 2..Len(cells) :
           /\ cells[k].t # "node"
           /\ cells[k].t = "entry" =>
                cells[k].data_offset \in {Uninit} \cup pos..(pos + Len(cells) - 1)
      /\ s.kind = "dir" =>
           \A k \in 1..n :
             /\ cells[1 + x + k] = Entry(pos + 1 + x + n + k - 1, Uninit)
             /\ cells[1 + x + n + k] = Name(s.names[k])

LEMMA AddedIs ==
  ASSUME NEW pos \in Nat, NEW here \in Seq(Names), NEW s, GoodAnswer(s)
  PROVE  Laying(pos, here, s, Added(pos, here, s))
<1> DEFINE n == Len(s.names)
           m == Len(s.xattrs)
           xs == XattrCells(pos + 1, s.xattrs)
           cells == Added(pos, here, s)
<1>1. /\ n \in Nat /\ m \in Nat /\ s.xattrs \in XattrSeq /\ s.names \in Seq(Names)
      /\ s.kind \in {"file", "link", "dir"} /\ s.size \in {1, Max(Lengths)} /\ Names \subseteq Nat /\ pos + 1 \in Nat
      /\ \A k \in 1..n : s.names[k] \in Names
  BY NamesAssumption DEF GoodAnswer, XattrSeq
<1>2. /\ XattrsLen(s.xattrs) = 3 * m
      /\ xs \in Seq(Cell) /\ Len(xs) = 3 * m
      /\ \A k \in 1..(3 * m) :
           /\ xs[k].t # "node"
           /\ xs[k].t = "entry" => xs[k].data_offset \in (pos + 1)..(pos + 1 + 3 * m - 1)
  BY <1>1, XattrCellsAre
<1>f. n \in Nat /\ m \in Nat /\ pos \in Nat
  BY <1>1
<1>g. s.kind # "dir" => n = 0
  BY DEF GoodAnswer
<1>k. AddedLen(s) = 1 + (IF s.kind = "link" THEN 1 ELSE 2 * n) + 3 * m
  BY <1>2 DEF AddedLen
<1> HIDE DEF xs, n, m
<1> DEFINE to == pos + 1 + 3 * m
<1>3. to \in Nat /\ to \in Int /\ Uninit \in Int /\ to = pos + 1 + 3 * m
  BY <1>f DEF Uninit
<1>l. ASSUME NEW cells1, NEW head \in NodeCell,
             cells1 \in Seq(Cell), Len(cells1) = AddedLen(s), Len(cells1) \in Nat,
             Len(cells1) >= 1 + 3 * m + 2 * n, cells1[1] = head,
             head.t = "node", head.stat = here, head.kind = s.kind, head.xattrs_count = m,
             s.kind = "dir" => head.length = n /\ head.data_offset = to,
             \A k \in 2..Len(cells1) :
               /\ cells1[k].t # "node"
               /\ cells1[k].t = "entry" =>
                    cells1[k].data_offset \in {Uninit} \cup pos..(pos + Len(cells1) - 1),
             s.kind = "dir" =>
               \A k \in 1..n :
                 /\ cells1[1 + 3 * m + k] = Entry(pos + 1 + 3 * m + n + k - 1, Uninit)
                 /\ cells1[1 + 3 * m + n + k] = Name(s.names[k])
      PROVE  Laying(pos, here, s, cells1)
  BY <1>l, <1>3 DEF Laying, n, m
<1> HIDE DEF to
<1>4. ASSUME NEW head \in NodeCell
      PROVE  LET c == <<head>> \o xs
             IN  /\ c \in Seq(Cell) /\ Len(c) = 1 + 3 * m /\ c[1] = head
                 /\ \A k \in 1..(3 * m) : c[1 + k] = xs[k]
  <2>1. <<head>> \in Seq(Cell) /\ Len(<<head>>) = 1 /\ <<head>>[1] = head
    BY DEF Cell
  <2>2. /\ <<head>> \o xs \in Seq(Cell) /\ Len(<<head>> \o xs) = Len(<<head>>) + Len(xs)
        /\ \A k \in 1..Len(<<head>>) : (<<head>> \o xs)[k] = <<head>>[k]
        /\ \A k \in 1..Len(xs) : (<<head>> \o xs)[Len(<<head>>) + k] = xs[k]
    BY <1>2, <2>1, Joined
  <2> QED
    BY <1>1, <1>2, <2>1, <2>2
<1>5. CASE s.kind = "file"
  <2> DEFINE head == Node(here, "file", s.size, m, Uninit, Uninit)
  <2>1. cells = <<head>> \o xs
    BY <1>5 DEF Added, AddFile, xs, m
  <2>2. head \in NodeCell /\ head.t = "node" /\ head.stat = here /\ head.kind = s.kind
        /\ head.xattrs_count = m
    BY <1>1, <1>3, <1>5, <1>f, NodeTyped
  <2>3. n = 0 /\ AddedLen(s) = 1 + 3 * m
    BY <1>5, <1>f, <1>g, <1>k
  <2> HIDE DEF head, cells
  <2>4. /\ cells \in Seq(Cell) /\ Len(cells) = 1 + 3 * m /\ cells[1] = head
        /\ \A k \in 1..(3 * m) : cells[1 + k] = xs[k]
    BY <1>4, <2>1, <2>2
  <2>5. ASSUME NEW k \in 2..Len(cells)
        PROVE  /\ cells[k].t # "node"
               /\ cells[k].t = "entry" =>
                    cells[k].data_offset \in {Uninit} \cup pos..(pos + Len(cells) - 1)
    <3>1. k - 1 \in 1..(3 * m) /\ 1 + (k - 1) = k
      BY <1>1, <2>4
    <3>2. cells[k] = xs[k - 1]
      BY <2>4, <3>1
    <3>3. (pos + 1)..(pos + 1 + 3 * m - 1) \subseteq pos..(pos + Len(cells) - 1)
      BY <1>1, <2>4
    <3> QED
      BY <1>2, <3>1, <3>2, <3>3
  <2> QED
    <3>1. Laying(pos, here, s, cells)
      <4>1. Len(cells) = AddedLen(s) /\ Len(cells) \in Nat /\ Len(cells) >= 1 + 3 * m + 2 * n
        BY <1>f, <2>3, <2>4
      <4> QED
        BY <1>5, <1>l, <2>2, <2>4, <2>5, <4>1
    <3> QED
      BY <3>1 DEF cells
<1>6. CASE s.kind = "link"
  <2> DEFINE head == Node(here, "link", s.size, m, Uninit, to)
             front == <<head>> \o xs
  <2>1. cells = front \o <<Target(here)>>
    BY <1>2, <1>6 DEF Added, AddLink, xs, m, to
  <2>2. head \in NodeCell /\ head.t = "node" /\ head.stat = here /\ head.kind = s.kind
        /\ head.xattrs_count = m
    BY <1>1, <1>3, <1>6, <1>f, NodeTyped
  <2>3. n = 0 /\ AddedLen(s) = 2 + 3 * m
    BY <1>6, <1>f, <1>g, <1>k
  <2> HIDE DEF head, cells
  <2>4. /\ front \in Seq(Cell) /\ Len(front) = 1 + 3 * m /\ front[1] = head
        /\ \A k \in 1..(3 * m) : front[1 + k] = xs[k]
    BY <1>4, <2>2
  <2> HIDE DEF front
  <2>5. <<Target(here)>> \in Seq(Cell) /\ Len(<<Target(here)>>) = 1 /\ Target(here).t = "target"
    BY DEF Target, Cell, PlainCell
  <2>a. /\ front \o <<Target(here)>> \in Seq(Cell)
        /\ Len(front \o <<Target(here)>>) = Len(front) + Len(<<Target(here)>>)
        /\ \A k \in 1..Len(front) : (front \o <<Target(here)>>)[k] = front[k]
        /\ \A k \in 1..Len(<<Target(here)>>) :
             (front \o <<Target(here)>>)[Len(front) + k] = <<Target(here)>>[k]
    BY <2>4, <2>5, Joined
  <2>6. /\ cells \in Seq(Cell) /\ Len(cells) = 2 + 3 * m
        /\ \A k \in 1..(1 + 3 * m) : cells[k] = front[k]
        /\ cells[2 + 3 * m] = Target(here)
    <3>1. Len(front) + 1 = 2 + 3 * m /\ 1 \in 1..1
      BY <1>f, <2>4
    <3> QED
      BY <2>1, <2>4, <2>5, <2>a, <3>1
  <2>7. cells[1] = head
    BY <1>f, <2>4, <2>6
  <2>8. ASSUME NEW k \in 2..Len(cells)
        PROVE  /\ cells[k].t # "node"
               /\ cells[k].t = "entry" =>
                    cells[k].data_offset \in {Uninit} \cup pos..(pos + Len(cells) - 1)
    <3>1. CASE k <= 1 + 3 * m
      <4>1. k \in 1..(1 + 3 * m) /\ k - 1 \in 1..(3 * m) /\ 1 + (k - 1) = k
        BY <1>f, <2>6, <3>1
      <4>2. cells[k] = xs[k - 1]
        BY <2>4, <2>6, <4>1
      <4>3. (pos + 1)..(pos + 1 + 3 * m - 1) \subseteq pos..(pos + Len(cells) - 1)
        BY <1>f, <2>6
      <4> QED
        BY <1>2, <4>1, <4>2, <4>3
    <3>2. CASE k = 2 + 3 * m
      BY <2>5, <2>6, <3>2
    <3> QED
      BY <1>f, <2>6, <3>1, <3>2
  <2> QED
    <3>1. Laying(pos, here, s, cells)
      <4>1. Len(cells) = AddedLen(s) /\ Len(cells) \in Nat /\ Len(cells) >= 1 + 3 * m + 2 * n
        BY <1>f, <2>3, <2>6
      <4> QED
        BY <1>6, <1>l, <2>2, <2>6, <2>7, <2>8, <4>1
    <3> QED
      BY <3>1 DEF cells
<1>7. CASE s.kind = "dir"
  <2> DEFINE head == Node(here, "dir", s.size, m, n, to)
             front == <<head>> \o xs
             es == [k \in 1..n |-> Entry(to + n + k - 1, Uninit)]
             ns == [k \in 1..n |-> Name(s.names[k])]
  <2>1. cells = (front \o es) \o ns
    BY <1>2, <1>7 DEF Added, AddDir, xs, m, n, to
  <2>2. head \in NodeCell /\ head.t = "node" /\ head.stat = here /\ head.kind = s.kind
        /\ head.xattrs_count = m /\ head.length = n /\ head.data_offset = to
    <3>1. here \in Seq(Names) /\ s.size \in {1, Max(Lengths)} /\ m \in Nat /\ n \in Int /\ to \in Int
      BY <1>1, <1>3, <1>f
    <3>2. LET c == Node(here, "dir", s.size, m, n, to)
          IN  /\ c \in NodeCell /\ c.t = "node" /\ c.stat = here /\ c.kind = "dir"
              /\ c.xattrs_count = m /\ c.length = n /\ c.data_offset = to
      BY ONLY <3>1, NodeTyped
    <3> QED
      BY <1>7, <3>2
  <2>3. AddedLen(s) = 1 + 3 * m + 2 * n
    BY <1>7, <1>f, <1>k
  <2>4. es \in Seq(Cell) /\ Len(es) = n /\ \A k \in 1..n : es[k] = Entry(to + n + k - 1, Uninit)
    <3>1. ASSUME NEW k \in 1..n
          PROVE  Entry(to + n + k - 1, Uninit) \in Cell
      <4>1. k \in Nat /\ 1 <= k /\ n \in Nat /\ to \in Nat
        BY <1>f, <1>3
      <4>2. to + n + k - 1 \in Nat
        BY ONLY <4>1
      <4> QED
        BY <1>3, <4>2 DEF Entry, Cell, EntryCell
    <3> QED
      BY <1>1, <3>1
  <2>5. ns \in Seq(Cell) /\ Len(ns) = n /\ \A k \in 1..n : ns[k] = Name(s.names[k])
    <3>1. ASSUME NEW k \in 1..n
          PROVE  Name(s.names[k]) \in Cell
      <4>1. s.names[k] \in Nat
        BY <1>1
      <4> QED
        BY <4>1 DEF Name, Cell, PlainCell
    <3> QED
      BY <1>1, <3>1
  <2> HIDE DEF head, cells, es, ns
  <2>6. /\ front \in Seq(Cell) /\ Len(front) = 1 + 3 * m /\ front[1] = head
        /\ \A k \in 1..(3 * m) : front[1 + k] = xs[k]
    BY <1>4, <2>2
  <2> HIDE DEF front
  <2>7. /\ front \o es \in Seq(Cell) /\ Len(front \o es) = 1 + 3 * m + n
        /\ \A k \in 1..(1 + 3 * m) : (front \o es)[k] = front[k]
        /\ \A k \in 1..n : (front \o es)[1 + 3 * m + k] = es[k]
    <3>1. /\ front \o es \in Seq(Cell) /\ Len(front \o es) = Len(front) + Len(es)
          /\ \A k \in 1..Len(front) : (front \o es)[k] = front[k]
          /\ \A k \in 1..Len(es) : (front \o es)[Len(front) + k] = es[k]
      BY <2>4, <2>6, Joined
    <3> QED
      BY <2>4, <2>6, <3>1
  <2>8. /\ cells \in Seq(Cell) /\ Len(cells) = 1 + 3 * m + n + n
        /\ \A k \in 1..(1 + 3 * m + n) : cells[k] = (front \o es)[k]
        /\ \A k \in 1..n : cells[1 + 3 * m + n + k] = ns[k]
    <3> DEFINE both == front \o es
    <3> HIDE DEF both
    <3>0. both \in Seq(Cell) /\ Len(both) = 1 + 3 * m + n /\ cells = both \o ns
      BY <2>1, <2>7 DEF both
    <3>1. /\ both \o ns \in Seq(Cell) /\ Len(both \o ns) = Len(both) + Len(ns)
          /\ \A k \in 1..Len(both) : (both \o ns)[k] = both[k]
          /\ \A k \in 1..Len(ns) : (both \o ns)[Len(both) + k] = ns[k]
      BY <2>5, <3>0, Joined
    <3>2. /\ cells \in Seq(Cell) /\ Len(cells) = 1 + 3 * m + n + n
          /\ \A k \in 1..(1 + 3 * m + n) : cells[k] = both[k]
          /\ \A k \in 1..n : cells[1 + 3 * m + n + k] = ns[k]
      BY <2>5, <3>0, <3>1
    <3> QED
      BY <3>2 DEF both
  <2>9. /\ cells[1] = head
        /\ \A k \in 1..(3 * m) : cells[1 + k] = xs[k]
        /\ \A k \in 1..n : cells[1 + 3 * m + k] = es[k]
    <3>1. /\ 1 \in 1..(1 + 3 * m) /\ 1 \in 1..(1 + 3 * m + n)
          /\ \A k \in 1..(3 * m) : 1 + k \in 1..(1 + 3 * m) /\ 1 + k \in 1..(1 + 3 * m + n)
          /\ \A k \in 1..n : 1 + 3 * m + k \in 1..(1 + 3 * m + n)
      BY <1>f
    <3>2. cells[1] = head
      BY <2>6, <2>7, <2>8, <3>1
    <3>3. ASSUME NEW k \in 1..(3 * m)
          PROVE  cells[1 + k] = xs[k]
      <4>1. cells[1 + k] = (front \o es)[1 + k] /\ (front \o es)[1 + k] = front[1 + k]
        BY <2>7, <2>8, <3>1
      <4> QED
        BY <2>6, <4>1
    <3>4. ASSUME NEW k \in 1..n
          PROVE  cells[1 + 3 * m + k] = es[k]
      BY <2>7, <2>8, <3>1
    <3> QED
      BY <3>2, <3>3, <3>4
  <2>10. ASSUME NEW k \in 2..Len(cells)
         PROVE  /\ cells[k].t # "node"
                /\ cells[k].t = "entry" =>
                     cells[k].data_offset \in {Uninit} \cup pos..(pos + Len(cells) - 1)
    <3>1. k \in Nat /\ 2 <= k /\ k <= 1 + 3 * m + n + n
      BY <1>1, <2>8
    <3>2. CASE k <= 1 + 3 * m
      <4>1. k - 1 \in 1..(3 * m) /\ 1 + (k - 1) = k
        BY <1>1, <3>1, <3>2
      <4>2. cells[k] = xs[k - 1]
        BY <2>9, <4>1
      <4>3. (pos + 1)..(pos + 1 + 3 * m - 1) \subseteq pos..(pos + Len(cells) - 1)
        BY <1>f, <2>8
      <4> QED
        BY <1>2, <4>1, <4>2, <4>3
    <3>3. CASE 1 + 3 * m < k /\ k <= 1 + 3 * m + n
      <4>1. k - 1 - 3 * m \in 1..n /\ 1 + 3 * m + (k - 1 - 3 * m) = k
        BY <1>1, <3>1, <3>3
      <4>2. PICK j \in 1..n : cells[k] = Entry(to + n + j - 1, Uninit)
        BY <2>4, <2>9, <4>1
      <4> QED
        BY <4>2 DEF Entry
    <3>4. CASE 1 + 3 * m + n < k
      <4>1. k - 1 - 3 * m - n \in 1..n /\ 1 + 3 * m + n + (k - 1 - 3 * m - n) = k
        BY <1>1, <3>1, <3>4
      <4>2. PICK j \in 1..n : cells[k] = Name(s.names[j])
        BY <2>5, <2>8, <4>1
      <4> QED
        BY <4>2 DEF Name
    <3> QED
      BY <1>1, <3>1, <3>2, <3>3, <3>4
  <2>11. ASSUME NEW k \in 1..n
         PROVE  /\ cells[1 + 3 * m + k] = Entry(pos + 1 + 3 * m + n + k - 1, Uninit)
                /\ cells[1 + 3 * m + n + k] = Name(s.names[k])
    BY <1>3, <2>4, <2>5, <2>8, <2>9
  <2>12. Len(cells) \in Nat /\ Len(cells) = 1 + 3 * m + 2 * n
    BY <1>1, <2>8
  <2> QED
    <3>1. Laying(pos, here, s, cells)
      <4>1. Len(cells) = AddedLen(s) /\ Len(cells) \in Nat /\ Len(cells) >= 1 + 3 * m + 2 * n
        BY <1>f, <2>3, <2>12
      <4> QED
        BY <1>l, <2>2, <2>8, <2>9, <2>10, <2>11, <4>1
    <3> QED
      BY <3>1 DEF cells
<1> QED
  BY <1>1, <1>5, <1>6, <1>7
----------------------------------------------------------------------------
(* The tree in the buffer, while entries of the paths in W are not set.    *)
DirAt(cells, o) == o \in DOMAIN cells /\ cells[o].t = "node" /\ cells[o].kind = "dir"

(* What the system calls said: every path is below one that was a          *)
(* directory.                                                              *)
Grown(tr) ==
  /\ \A p \in DOMAIN tr : p \in Seq(Names) /\ GoodAnswer(tr[p])
  /\ \A p \in Seq(Names), m \in Names : Append(p, m) \in DOMAIN tr => p \in DOMAIN tr

Laid(cells) == cells \in Seq(Cell) /\ 1 \in DOMAIN cells /\ cells[1].t = "header"

Statted(cells, tr) ==
  \A o \in DOMAIN cells : cells[o].t = "node" =>
    cells[o].stat \in DOMAIN tr /\ cells[o].kind = tr[cells[o].stat].kind

(* The entries of a directory and their names.                             *)
Tabled(cells, tr, o) ==
  LET c == cells[o]
      names == tr[c.stat].names
  IN  /\ c.data_offset \in Nat
      /\ c.data_offset = o + 3 * Len(tr[c.stat].xattrs)
      /\ o # 2 => c.length = Len(names)
      /\ \A k \in 1..Len(names) :
           LET e == cells[c.data_offset + k]
           IN  /\ c.data_offset + k \in DOMAIN cells /\ e.t = "entry"
               /\ e.name_offset + 1 \in DOMAIN cells
               /\ cells[e.name_offset + 1] = Name(names[k])

(* No two directories have a path, or an entry, in common.                 *)
Apart(cells, tr) ==
  \A o1, o2 : DirAt(cells, o1) /\ DirAt(cells, o2) /\ o1 # o2 =>
    /\ cells[o1].stat # cells[o2].stat
    /\ \A k1 \in 1..Len(tr[cells[o1].stat].names), k2 \in 1..Len(tr[cells[o2].stat].names) :
         cells[o1].data_offset + k1 # cells[o2].data_offset + k2

LeadsTo(cells, tr, to, p) ==
  IF p \in DOMAIN tr
  THEN to \in Nat /\ to + 1 \in DOMAIN cells /\ cells[to + 1].t = "node" /\ cells[to + 1].stat = p
  ELSE to = 0

Linked(cells, tr, W, o) ==
  LET c == cells[o]
      names == tr[c.stat].names
  IN  \A k \in 1..Len(names) : Append(c.stat, names[k]) \notin W =>
        LeadsTo(cells, tr, cells[c.data_offset + k].data_offset, Append(c.stat, names[k]))

Tree(cells, tr, W) ==
  /\ Laid(cells) /\ Grown(tr) /\ Statted(cells, tr) /\ Apart(cells, tr)
  /\ \A o : DirAt(cells, o) => Tabled(cells, tr, o) /\ Linked(cells, tr, W, o)

LEMMA Concatenated ==
  ASSUME NEW D, NEW s \in Seq(D), NEW t \in Seq(D)
  PROVE  /\ s \o t \in Seq(D) /\ Len(s \o t) = Len(s) + Len(t)
         /\ \A k \in 1..Len(s) : (s \o t)[k] = s[k]
         /\ \A k \in 1..Len(t) : (s \o t)[Len(s) + k] = t[k]
  OBVIOUS

LEMMA Appended ==
  ASSUME NEW p \in Seq(Names), NEW m \in Names
  PROVE  /\ Append(p, m) \in Seq(Names) /\ Len(Append(p, m)) = Len(p) + 1
         /\ Append(p, m) # p /\ Append(p, m) # Root
<1>1. /\ Append(p, m) \in Seq(Names) /\ Len(Append(p, m)) = Len(p) + 1 /\ Len(p) \in Nat
      /\ Len(Root) = 0
  BY DEF Root
<1>2. Len(Append(p, m)) # Len(p) /\ Len(Append(p, m)) # Len(Root)
  BY <1>1
<1> QED
  BY <1>1, <1>2

LEMMA SameAppended ==
  ASSUME NEW p \in Seq(Names), NEW q \in Seq(Names), NEW m \in Names, NEW n \in Names,
         Append(p, m) = Append(q, n)
  PROVE  p = q /\ m = n
<1>1. /\ Len(Append(p, m)) = Len(p) + 1 /\ Append(p, m)[Len(p) + 1] = m
      /\ \A k \in 1..Len(p) : Append(p, m)[k] = p[k]
  OBVIOUS
<1>2. /\ Len(Append(q, n)) = Len(q) + 1 /\ Append(q, n)[Len(q) + 1] = n
      /\ \A k \in 1..Len(q) : Append(q, n)[k] = q[k]
  OBVIOUS
<1>3. Len(p) \in Nat /\ Len(q) \in Nat
  OBVIOUS
<1>4. Len(p) = Len(q)
  BY <1>1, <1>2, <1>3
<1>5. m = n
  BY <1>1, <1>2, <1>4
<1>6. \A k \in 1..Len(p) : p[k] = q[k]
  BY <1>1, <1>2, <1>4
<1>7. p = [k \in 1..Len(p) |-> p[k]] /\ q = [k \in 1..Len(q) |-> q[k]]
  OBVIOUS
<1> QED
  BY <1>4, <1>5, <1>6, <1>7

(* The names of a directory are those of entries, and no two are the same. *)
LEMMA NamesDiffer ==
  ASSUME NEW s, GoodAnswer(s)
  PROVE  /\ Len(s.names) \in Nat /\ DOMAIN s.names = 1..Len(s.names)
         /\ \A k \in 1..Len(s.names) : s.names[k] \in Names
         /\ \A j, k \in 1..Len(s.names) : s.names[j] = s.names[k] => j = k
         /\ Len(s.xattrs) \in Nat
<1>1. s.names \in Seq(Names) /\ InOrder(s.names) /\ Names \subseteq Nat
  BY NamesAssumption DEF GoodAnswer
<1>2. /\ Len(s.names) \in Nat /\ DOMAIN s.names = 1..Len(s.names)
      /\ \A k \in 1..Len(s.names) : s.names[k] \in Names /\ s.names[k] \in Nat
  <2> DEFINE names == s.names
  <2>1. names \in Seq(Names)
    BY <1>1
  <2> HIDE DEF names
  <2>2. Len(names) \in Nat /\ DOMAIN names = 1..Len(names) /\ \A k \in 1..Len(names) : names[k] \in Names
    BY <2>1
  <2>3. \A k \in 1..Len(names) : names[k] \in Nat
    BY <1>1, <2>2
  <2> QED
    BY <2>2, <2>3 DEF names
<1>3. ASSUME NEW j \in 1..Len(s.names), NEW k \in 1..Len(s.names), s.names[j] = s.names[k]
      PROVE  j = k
  <2>1. j < k => s.names[j] < s.names[k]
    BY <1>1, <1>2 DEF InOrder
  <2>2. k < j => s.names[k] < s.names[j]
    BY <1>1, <1>2 DEF InOrder
  <2> QED
    BY <1>2, <1>3, <2>1, <2>2
<1>4. Len(s.xattrs) \in Nat
  BY DEF GoodAnswer, XattrSeq
<1> QED
  BY <1>2, <1>3, <1>4

(* A node and what belongs to it is put behind the rest.                   *)
Extending(cells, tr, W, here, s, cells2, tr2, W2) ==
  /\ Tree(cells, tr, W) /\ GoodAnswer(s)
  /\ here \in Seq(Names) /\ here \notin DOMAIN tr
  /\ here # Root => here \in W
  /\ \A p \in Seq(Names), m \in Names : here = Append(p, m) => p \in DOMAIN tr
  /\ cells2 = cells \o Added(Len(cells), here, s)
  /\ tr2 = [p \in DOMAIN tr \cup {here} |-> IF p = here THEN s ELSE tr[p]]
  /\ W \subseteq W2 /\ \A k \in 1..Len(s.names) : Append(here, s.names[k]) \in W2

LEMMA Extended ==
  ASSUME NEW cells, NEW tr, NEW W, NEW W2, NEW s, NEW here, NEW cells2, NEW tr2,
         Extending(cells, tr, W, here, s, cells2, tr2, W2)
  PROVE  /\ Tree(cells2, tr2, W2)
         /\ Len(cells) \in Nat /\ Len(cells2) = Len(cells) + AddedLen(s)
         /\ \A k \in DOMAIN cells : k \in DOMAIN cells2 /\ cells2[k] = cells[k]
         /\ Len(cells) + 1 \in DOMAIN cells2
         /\ cells2[Len(cells) + 1].t = "node" /\ cells2[Len(cells) + 1].stat = here
         /\ cells2[Len(cells) + 1].kind = s.kind
         /\ s.kind = "dir" =>
              cells2[Len(cells) + 1].data_offset = Len(cells) + 1 + XattrsLen(s.xattrs)
<1>0. /\ Tree(cells, tr, W) /\ GoodAnswer(s)
      /\ here \in Seq(Names) /\ here \notin DOMAIN tr
      /\ here # Root => here \in W
      /\ \A p \in Seq(Names), m \in Names : here = Append(p, m) => p \in DOMAIN tr
      /\ cells2 = cells \o Added(Len(cells), here, s)
      /\ tr2 = [p \in DOMAIN tr \cup {here} |-> IF p = here THEN s ELSE tr[p]]
      /\ W \subseteq W2 /\ \A k \in 1..Len(s.names) : Append(here, s.names[k]) \in W2
  BY DEF Extending
<1> USE <1>0
<1> DEFINE L == Len(cells)
           add == Added(L, here, s)
           n == Len(s.names)
           x == 3 * Len(s.xattrs)
<1>1. cells \in Seq(Cell) /\ L \in Nat /\ DOMAIN cells = 1..L /\ 1 \in DOMAIN cells
      /\ cells[1].t = "header"
  BY DEF Tree, Laid
<1>2. Laying(L, here, s, add)
  BY <1>1, AddedIs
<1> HIDE DEF add, L
<1>3. /\ add \in Seq(Cell) /\ Len(add) \in Nat /\ Len(add) = AddedLen(s)
      /\ Len(add) >= 1 + x + 2 * n
      /\ add[1].t = "node" /\ add[1].stat = here /\ add[1].kind = s.kind
      /\ s.kind = "dir" => add[1].length = n /\ add[1].data_offset = L + 1 + x
      /\ \A k \in 2..Len(add) : add[k].t # "node"
      /\ s.kind = "dir" =>
           \A k \in 1..n : /\ add[1 + x + k] = Entry(L + 1 + x + n + k - 1, Uninit)
                           /\ add[1 + x + n + k] = Name(s.names[k])
  BY <1>2 DEF Laying
<1>4. /\ n \in Nat /\ Len(s.xattrs) \in Nat /\ x \in Nat /\ \A k \in 1..n : s.names[k] \in Names
      /\ \A j, k \in 1..n : s.names[j] = s.names[k] => j = k
  <2>1. /\ n \in Nat /\ Len(s.xattrs) \in Nat /\ \A k \in 1..n : s.names[k] \in Names
        /\ \A j, k \in 1..n : s.names[j] = s.names[k] => j = k
    BY NamesDiffer
  <2> HIDE DEF n
  <2> QED
    BY <2>1
<1> HIDE DEF n, x
<1>5. /\ cells2 \in Seq(Cell) /\ Len(cells2) = L + Len(add)
      /\ \A k \in 1..L : cells2[k] = cells[k]
      /\ \A k \in 1..Len(add) : cells2[L + k] = add[k]
  <2>1. cells2 = cells \o add
    BY DEF add, L
  <2>2. /\ cells \o add \in Seq(Cell) /\ Len(cells \o add) = Len(cells) + Len(add)
        /\ \A k \in 1..Len(cells) : (cells \o add)[k] = cells[k]
        /\ \A k \in 1..Len(add) : (cells \o add)[Len(cells) + k] = add[k]
    BY <1>1, <1>3, Joined
  <2> QED
    BY <2>1, <2>2 DEF L
<1>6. DOMAIN cells2 = 1..(L + Len(add))
  BY <1>1, <1>3, <1>5
<1>7. /\ \A k \in DOMAIN cells : k \in DOMAIN cells2 /\ cells2[k] = cells[k]
      /\ L + 1 \in DOMAIN cells2 /\ cells2[L + 1] = add[1] /\ L + 1 \notin DOMAIN cells
  BY <1>1, <1>3, <1>4, <1>5, <1>6
<1>8. ASSUME NEW o \in DOMAIN cells2, cells2[o].t = "node"
      PROVE  o = L + 1 \/ o \in DOMAIN cells
  <2>1. CASE o \in 1..L
    BY <1>1, <2>1
  <2>2. CASE o \in (L + 2)..(L + Len(add))
    <3>1. o - L \in 2..Len(add) /\ o - L \in 1..Len(add) /\ L + (o - L) = o
      BY <1>1, <1>3, <2>2
    <3>2. cells2[o] = add[o - L]
      BY <1>5, <3>1
    <3> QED
      BY <1>3, <1>8, <3>1, <3>2
  <2> QED
    BY <1>1, <1>3, <1>6, <2>1, <2>2
<1>9. DOMAIN tr2 = DOMAIN tr \cup {here} /\ tr2[here] = s /\ \A p \in DOMAIN tr : tr2[p] = tr[p]
  OBVIOUS
<1>g. /\ \A p \in DOMAIN tr : p \in Seq(Names) /\ GoodAnswer(tr[p])
      /\ \A p \in Seq(Names), m \in Names : Append(p, m) \in DOMAIN tr => p \in DOMAIN tr
  BY DEF Tree, Grown
<1>s. \A o \in DOMAIN cells : cells[o].t = "node" =>
        cells[o].stat \in DOMAIN tr /\ cells[o].kind = tr[cells[o].stat].kind
  BY DEF Tree, Statted
<1>10. ASSUME NEW o \in DOMAIN cells, cells[o].t = "node"
       PROVE  /\ cells[o].stat \in DOMAIN tr /\ cells[o].stat \in DOMAIN tr2
              /\ cells[o].stat # here /\ cells[o].stat \in Seq(Names)
              /\ tr2[cells[o].stat] = tr[cells[o].stat]
  BY <1>10, <1>9, <1>g, <1>s
<1>11. Laid(cells2)
  BY <1>1, <1>5, <1>7 DEF Laid
<1>12. Grown(tr2)
  <2>1. \A p \in DOMAIN tr2 : p \in Seq(Names) /\ GoodAnswer(tr2[p])
    BY <1>9, <1>g
  <2>2. ASSUME NEW p \in Seq(Names), NEW m \in Names, Append(p, m) \in DOMAIN tr2
        PROVE  p \in DOMAIN tr2
    BY <1>9, <1>g, <2>2
  <2> QED
    BY <2>1, <2>2 DEF Grown
<1>13. Statted(cells2, tr2)
  <2> SUFFICES ASSUME NEW o \in DOMAIN cells2, cells2[o].t = "node"
               PROVE  cells2[o].stat \in DOMAIN tr2 /\ cells2[o].kind = tr2[cells2[o].stat].kind
    BY DEF Statted
  <2>1. CASE o = L + 1
    BY <1>3, <1>7, <1>9, <2>1
  <2>2. CASE o \in DOMAIN cells
    BY <1>7, <1>10, <1>s, <2>2
  <2> QED
    BY <1>8, <2>1, <2>2
<1>14. ASSUME NEW o, DirAt(cells2, o)
       PROVE  \/ DirAt(cells, o) /\ cells2[o] = cells[o]
              \/ o = L + 1 /\ s.kind = "dir" /\ cells2[o] = add[1]
  BY <1>14, <1>3, <1>7, <1>8 DEF DirAt
<1>t. \A o : DirAt(cells, o) => Tabled(cells, tr, o) /\ Linked(cells, tr, W, o)
  BY DEF Tree
<1>15. ASSUME NEW o, DirAt(cells, o)
       PROVE  Tabled(cells2, tr2, o) /\ Linked(cells2, tr2, W2, o)
  <2> DEFINE c == cells[o]
             names == tr[c.stat].names
             e(k) == cells[c.data_offset + k]
  <2>1. o \in DOMAIN cells /\ c.t = "node" /\ cells2[o] = c
    BY <1>7, <1>15 DEF DirAt
  <2>2. c.stat \in DOMAIN tr /\ c.stat # here /\ c.stat \in Seq(Names) /\ tr2[c.stat] = tr[c.stat]
    BY <1>10, <2>1
  <2>3. GoodAnswer(tr[c.stat])
    BY <1>g, <2>2
  <2>4. \A k \in 1..Len(names) : names[k] \in Names
    BY <2>3, NamesDiffer
  <2>5. /\ c.data_offset \in Nat /\ c.data_offset = o + 3 * Len(tr[c.stat].xattrs)
        /\ o # 2 => c.length = Len(names)
        /\ \A k \in 1..Len(names) :
             /\ c.data_offset + k \in DOMAIN cells /\ e(k).t = "entry"
             /\ e(k).name_offset + 1 \in DOMAIN cells
             /\ cells[e(k).name_offset + 1] = Name(names[k])
    BY <1>15, <1>t DEF Tabled
  <2>6. \A k \in 1..Len(names) : Append(c.stat, names[k]) \notin W =>
          LeadsTo(cells, tr, e(k).data_offset, Append(c.stat, names[k]))
    BY <1>15, <1>t DEF Linked
  <2> HIDE DEF names, c
  <2>7. \A k \in 1..Len(names) : cells2[c.data_offset + k] = e(k)
    BY <1>7, <2>5
  <2> HIDE DEF e
  <2>8. Tabled(cells2, tr2, o)
    <3>1. \A k \in 1..Len(names) :
             /\ c.data_offset + k \in DOMAIN cells2 /\ e(k).t = "entry"
             /\ e(k).name_offset + 1 \in DOMAIN cells2
             /\ cells2[e(k).name_offset + 1] = Name(names[k])
      BY <1>7, <2>5
    <3>2. \A k \in 1..Len(names) :
             /\ c.data_offset + k \in DOMAIN cells2 /\ cells2[c.data_offset + k].t = "entry"
             /\ cells2[c.data_offset + k].name_offset + 1 \in DOMAIN cells2
             /\ cells2[cells2[c.data_offset + k].name_offset + 1] = Name(names[k])
      BY <2>7, <3>1
    <3>3. names = tr2[c.stat].names /\ c.data_offset = o + 3 * Len(tr2[c.stat].xattrs)
      BY <2>2, <2>5 DEF names
    <3>4. c.data_offset \in Nat /\ (o # 2 => c.length = Len(names)) /\ cells2[o] = c
      BY <2>1, <2>5
    <3> QED
      BY ONLY <3>2, <3>3, <3>4 DEF Tabled
  <2>9. ASSUME NEW k \in 1..Len(names), Append(c.stat, names[k]) \notin W2
        PROVE  LeadsTo(cells2, tr2, e(k).data_offset, Append(c.stat, names[k]))
    <3> DEFINE p == Append(c.stat, names[k])
    <3>1. p \notin W /\ p # here
      <4>1. p # Root
        BY <2>2, <2>4, Appended
      <4> QED
        BY <2>9, <4>1
    <3>2. LeadsTo(cells, tr, e(k).data_offset, p)
      BY <2>6, <3>1
    <3>3. p \in DOMAIN tr2 <=> p \in DOMAIN tr
      BY <1>9, <3>1
    <3> HIDE DEF p
    <3>4. LeadsTo(cells2, tr2, e(k).data_offset, p)
      BY <1>7, <3>2, <3>3 DEF LeadsTo
    <3> QED
      BY <3>4 DEF p
  <2>10. Linked(cells2, tr2, W2, o)
    BY <2>1, <2>2, <2>7, <2>9 DEF Linked, names
  <2> QED
    BY <2>8, <2>10
<1>16. ASSUME s.kind = "dir"
       PROVE  Tabled(cells2, tr2, L + 1) /\ Linked(cells2, tr2, W2, L + 1)
  <2>1. cells2[L + 1] = add[1] /\ add[1].stat = here /\ add[1].length = n
        /\ add[1].data_offset = L + 1 + x /\ tr2[here] = s
    BY <1>16, <1>3, <1>7, <1>9
  <2>2. ASSUME NEW k \in 1..n
        PROVE  LET e == cells2[L + 1 + x + k]
               IN  /\ L + 1 + x + k \in DOMAIN cells2
                   /\ e.t = "entry" /\ e.name_offset + 1 \in DOMAIN cells2
                   /\ cells2[e.name_offset + 1] = Name(s.names[k])
    <3>0. L \in Nat /\ x \in Nat /\ n \in Nat /\ Len(add) \in Nat /\ Len(add) >= 1 + x + 2 * n
      BY <1>1, <1>3, <1>4
    <3>1. /\ 1 + x + k \in 1..Len(add) /\ 1 + x + n + k \in 1..Len(add)
          /\ L + (1 + x + k) = L + 1 + x + k
          /\ L + (1 + x + n + k) = (L + 1 + x + n + k - 1) + 1
          /\ L + 1 + x + k \in 1..(L + Len(add))
          /\ (L + 1 + x + n + k - 1) + 1 \in 1..(L + Len(add))
      BY ONLY <3>0, k \in 1..n
    <3>2. cells2[L + 1 + x + k] = add[1 + x + k]
      BY <1>5, <3>1
    <3>3. cells2[(L + 1 + x + n + k - 1) + 1] = add[1 + x + n + k]
      BY <1>5, <3>1
    <3>4. add[1 + x + k] = Entry(L + 1 + x + n + k - 1, Uninit) /\ add[1 + x + n + k] = Name(s.names[k])
      BY <1>16, <1>3
    <3>5. cells2[L + 1 + x + k].t = "entry"
          /\ cells2[L + 1 + x + k].name_offset = L + 1 + x + n + k - 1
      BY <3>2, <3>4 DEF Entry
    <3> QED
      BY <1>6, <3>1, <3>3, <3>4, <3>5
  <2>3. x = 3 * Len(s.xattrs) /\ n = Len(s.names)
    BY DEF x, n
  <2>4. L + 1 + x \in Nat
    BY <1>1, <1>4
  <2>5. Tabled(cells2, tr2, L + 1)
    <3>1. add[1].data_offset = L + 1 + 3 * Len(s.xattrs) /\ add[1].data_offset \in Nat
      BY <2>1, <2>3, <2>4
    <3>2. \A k \in 1..Len(s.names) :
            LET e == cells2[add[1].data_offset + k]
            IN  /\ add[1].data_offset + k \in DOMAIN cells2
                /\ e.t = "entry" /\ e.name_offset + 1 \in DOMAIN cells2
                /\ cells2[e.name_offset + 1] = Name(s.names[k])
      BY <2>1, <2>2, <2>3
    <3> QED
      BY ONLY <2>1, <2>3, <3>1, <3>2 DEF Tabled
  <2>6. Linked(cells2, tr2, W2, L + 1)
    BY <2>1 DEF Linked, n
  <2> QED
    BY <2>5, <2>6
<1>17. Apart(cells2, tr2)
  <2>a. \A o1, o2 : DirAt(cells, o1) /\ DirAt(cells, o2) /\ o1 # o2 =>
          /\ cells[o1].stat # cells[o2].stat
          /\ \A k1 \in 1..Len(tr[cells[o1].stat].names), k2 \in 1..Len(tr[cells[o2].stat].names) :
               cells[o1].data_offset + k1 # cells[o2].data_offset + k2
    BY DEF Tree, Apart
  <2>b. ASSUME NEW o, DirAt(cells, o)
        PROVE  /\ cells[o].stat # here /\ tr2[cells[o].stat] = tr[cells[o].stat]
               /\ cells2[o] = cells[o]
               /\ \A k \in 1..Len(tr[cells[o].stat].names) : cells[o].data_offset + k \in DOMAIN cells
    <3>1. o \in DOMAIN cells /\ cells[o].t = "node"
      BY <2>b DEF DirAt
    <3> QED
      BY <1>7, <1>10, <1>t, <2>b, <3>1 DEF Tabled
  <2>c. ASSUME s.kind = "dir", NEW k \in 1..n
        PROVE  add[1].data_offset + k \notin DOMAIN cells
    <3>1. add[1].data_offset = L + 1 + x /\ L \in Nat /\ x \in Nat /\ n \in Nat
      BY <1>1, <1>3, <1>4, <2>c
    <3> QED
      BY <1>1, <3>1
  <2>d. add[1].stat = here /\ tr2[here] = s
    BY <1>3, <1>9
  <2> DEFINE Clear(o1, o2) ==
               /\ cells2[o1].stat # cells2[o2].stat
               /\ \A k1 \in 1..Len(tr2[cells2[o1].stat].names),
                     k2 \in 1..Len(tr2[cells2[o2].stat].names) :
                    cells2[o1].data_offset + k1 # cells2[o2].data_offset + k2
  <2>1. ASSUME NEW o1, NEW o2, DirAt(cells2, o1), DirAt(cells2, o2), o1 # o2
        PROVE  Clear(o1, o2)
    <3>1. CASE DirAt(cells, o1) /\ DirAt(cells, o2)
      <4>1. /\ cells2[o1] = cells[o1] /\ cells2[o2] = cells[o2]
            /\ tr2[cells[o1].stat] = tr[cells[o1].stat] /\ tr2[cells[o2].stat] = tr[cells[o2].stat]
        BY <2>b, <3>1
      <4>2. /\ cells[o1].stat # cells[o2].stat
            /\ \A k1 \in 1..Len(tr[cells[o1].stat].names), k2 \in 1..Len(tr[cells[o2].stat].names) :
                 cells[o1].data_offset + k1 # cells[o2].data_offset + k2
        BY <2>1, <2>a, <3>1
      <4> QED
        BY ONLY <4>1, <4>2
    <3>2. CASE DirAt(cells, o1) /\ o2 = L + 1 /\ s.kind = "dir" /\ cells2[o2] = add[1]
      <4>1. cells2[o1] = cells[o1] /\ cells[o1].stat # here /\ cells2[o2].stat = here
            /\ tr2[cells[o1].stat] = tr[cells[o1].stat]
        BY <2>b, <2>d, <3>2
      <4>2. \A k \in 1..Len(tr[cells[o1].stat].names) : cells[o1].data_offset + k \in DOMAIN cells
        BY <2>b, <3>2
      <4>3. \A k \in 1..Len(s.names) : cells2[o2].data_offset + k \notin DOMAIN cells
        BY <2>c, <3>2 DEF n
      <4>4. \A k1 \in 1..Len(tr[cells[o1].stat].names), k2 \in 1..Len(s.names) :
              cells[o1].data_offset + k1 # cells2[o2].data_offset + k2
        BY <4>2, <4>3
      <4> QED
        BY ONLY <2>d, <4>1, <4>4
    <3>3. CASE DirAt(cells, o2) /\ o1 = L + 1 /\ s.kind = "dir" /\ cells2[o1] = add[1]
      <4>1. cells2[o2] = cells[o2] /\ cells[o2].stat # here /\ cells2[o1].stat = here
            /\ tr2[cells[o2].stat] = tr[cells[o2].stat]
        BY <2>b, <2>d, <3>3
      <4>2. \A k \in 1..Len(tr[cells[o2].stat].names) : cells[o2].data_offset + k \in DOMAIN cells
        BY <2>b, <3>3
      <4>3. \A k \in 1..Len(s.names) : cells2[o1].data_offset + k \notin DOMAIN cells
        BY <2>c, <3>3 DEF n
      <4>4. \A k1 \in 1..Len(tr[cells[o2].stat].names), k2 \in 1..Len(s.names) :
              cells[o2].data_offset + k1 # cells2[o1].data_offset + k2
        BY <4>2, <4>3
      <4> QED
        BY ONLY <2>d, <4>1, <4>4
    <3> HIDE DEF Clear
    <3>4. /\ DirAt(cells, o1) \/ (o1 = L + 1 /\ s.kind = "dir" /\ cells2[o1] = add[1])
          /\ DirAt(cells, o2) \/ (o2 = L + 1 /\ s.kind = "dir" /\ cells2[o2] = add[1])
      BY <1>14, <2>1
    <3> QED
      BY ONLY <2>1, <3>1, <3>2, <3>3, <3>4
  <2> QED
    BY ONLY <2>1 DEF Apart, Clear
<1>18. Tree(cells2, tr2, W2)
  BY <1>11, <1>12, <1>13, <1>14, <1>15, <1>16, <1>17 DEF Tree
<1>19. s.kind = "dir" => cells2[L + 1].data_offset = L + 1 + XattrsLen(s.xattrs)
  BY <1>3, <1>7 DEF XattrsLen, x
<1> QED
  BY <1>1, <1>3, <1>5, <1>7, <1>18, <1>19 DEF L

LEMMA Replaced ==
  ASSUME NEW cells \in Seq(Cell), NEW i \in DOMAIN cells, NEW x \in Cell, NEW cells2,
         cells2 = [cells EXCEPT ![i] = x]
  PROVE  /\ cells2 \in Seq(Cell) /\ Len(cells2) = Len(cells) /\ DOMAIN cells2 = DOMAIN cells
         /\ cells2[i] = x /\ \A j \in DOMAIN cells : j # i => cells2[j] = cells[j]
  OBVIOUS

(* Nothing of the tree is lost when nodes keep what the tree is made of,   *)
(* and entries and names stay.                                             *)
LEMMA Kept ==
  ASSUME NEW cells, NEW tr, NEW W, NEW W2, NEW cells2, Tree(cells, tr, W),
         Laid(cells2), DOMAIN cells2 = DOMAIN cells,
         \A j \in DOMAIN cells :
           /\ cells2[j].t = cells[j].t
           /\ cells[j].t = "node" =>
                /\ cells2[j].stat = cells[j].stat /\ cells2[j].kind = cells[j].kind
                /\ cells[j].kind = "dir" =>
                     /\ cells2[j].data_offset = cells[j].data_offset
                     /\ j # 2 => cells2[j].length = cells[j].length
           /\ cells[j].t = "entry" => cells2[j].name_offset = cells[j].name_offset
           /\ cells[j].t = "name" => cells2[j] = cells[j],
         \A o : DirAt(cells, o) =>
           \A k \in 1..Len(tr[cells[o].stat].names) :
             LET p == Append(cells[o].stat, tr[cells[o].stat].names[k])
             IN  p \notin W2 =>
                   LeadsTo(cells, tr, cells2[cells[o].data_offset + k].data_offset, p)
  PROVE  Tree(cells2, tr, W2)
<1>1. \A o : DirAt(cells2, o) <=> DirAt(cells, o)
  BY DEF DirAt
<1>2. Grown(tr)
  BY DEF Tree
<1>3. Statted(cells2, tr)
  BY DEF Tree, Statted
<1>4. ASSUME NEW o, DirAt(cells, o)
      PROVE  /\ cells2[o].stat = cells[o].stat
             /\ cells2[o].data_offset = cells[o].data_offset
             /\ o # 2 => cells2[o].length = cells[o].length
  BY <1>4 DEF DirAt
<1>5. Apart(cells2, tr)
  BY <1>1, <1>4 DEF Tree, Apart
<1>6. ASSUME NEW o, DirAt(cells, o)
      PROVE  Tabled(cells2, tr, o) /\ Linked(cells2, tr, W2, o)
  <2> DEFINE stat == cells[o].stat
             names == tr[stat].names
             d == cells[o].data_offset
  <2>1. /\ cells2[o].stat = stat /\ cells2[o].data_offset = d
        /\ o # 2 => cells2[o].length = cells[o].length
    BY <1>4, <1>6
  <2>2. /\ d \in Nat /\ d = o + 3 * Len(tr[stat].xattrs)
        /\ o # 2 => cells[o].length = Len(names)
        /\ \A k \in 1..Len(names) :
             /\ d + k \in DOMAIN cells /\ cells[d + k].t = "entry"
             /\ cells[d + k].name_offset + 1 \in DOMAIN cells
             /\ cells[cells[d + k].name_offset + 1] = Name(names[k])
    BY <1>6 DEF Tree, Tabled
  <2>3. ASSUME NEW k \in 1..Len(names)
        PROVE  /\ d + k \in DOMAIN cells2 /\ cells2[d + k].t = "entry"
               /\ cells2[d + k].name_offset + 1 \in DOMAIN cells2
               /\ cells2[cells2[d + k].name_offset + 1] = Name(names[k])
    <3>1. d + k \in DOMAIN cells2 /\ cells2[d + k].t = "entry"
          /\ cells2[d + k].name_offset = cells[d + k].name_offset
      BY <2>2
    <3>2. Name(names[k]).t = "name"
      BY DEF Name
    <3> DEFINE j == cells[d + k].name_offset + 1
    <3>3. j \in DOMAIN cells /\ cells[j] = Name(names[k])
      BY <2>2
    <3> HIDE DEF j
    <3>4. cells2[j] = Name(names[k])
      BY <3>2, <3>3
    <3> QED
      BY <3>1, <3>3, <3>4 DEF j
  <2>4. ASSUME NEW to, NEW p, LeadsTo(cells, tr, to, p)
        PROVE  LeadsTo(cells2, tr, to, p)
    BY <2>4 DEF LeadsTo
  <2>5. \A k \in 1..Len(names) : Append(stat, names[k]) \notin W2 =>
          LeadsTo(cells2, tr, cells2[d + k].data_offset, Append(stat, names[k]))
    BY <1>6, <2>4
  <2>6. o # 2 => cells2[o].length = Len(names)
    BY <2>1, <2>2
  <2> HIDE DEF d
  <2>7. Tabled(cells2, tr, o)
    BY ONLY <2>1, <2>2, <2>3, <2>6 DEF Tabled, names
  <2>8. Linked(cells2, tr, W2, o)
    BY ONLY <2>1, <2>5 DEF Linked, names
  <2> QED
    BY <2>7, <2>8
<1> QED
  BY <1>1, <1>2, <1>3, <1>5, <1>6 DEF Tree

(* An entry is set: it no longer waits.                                    *)
Entering(cells, tr, W, o, k, to, cells2, W2) ==
  /\ Tree(cells, tr, W) /\ DirAt(cells, o) /\ to \in Nat
  /\ k \in 1..Len(tr[cells[o].stat].names)
  /\ LeadsTo(cells, tr, to, Append(cells[o].stat, tr[cells[o].stat].names[k]))
  /\ cells2 = [cells EXCEPT ![cells[o].data_offset + k] = [@ EXCEPT !.data_offset = to]]
  /\ \A p \in W : p \in W2 \/ p = Append(cells[o].stat, tr[cells[o].stat].names[k])

LEMMA Entered ==
  ASSUME NEW cells, NEW tr, NEW W, NEW W2, NEW o, NEW k, NEW to, NEW cells2,
         Entering(cells, tr, W, o, k, to, cells2, W2)
  PROVE  /\ Tree(cells2, tr, W2) /\ Len(cells2) = Len(cells) /\ DOMAIN cells2 = DOMAIN cells
         /\ \A j \in DOMAIN cells : cells[j].t = "node" => cells2[j] = cells[j]
<1>0. /\ Tree(cells, tr, W) /\ DirAt(cells, o) /\ to \in Nat
      /\ k \in 1..Len(tr[cells[o].stat].names)
      /\ LeadsTo(cells, tr, to, Append(cells[o].stat, tr[cells[o].stat].names[k]))
      /\ cells2 = [cells EXCEPT ![cells[o].data_offset + k] = [@ EXCEPT !.data_offset = to]]
      /\ \A p \in W : p \in W2 \/ p = Append(cells[o].stat, tr[cells[o].stat].names[k])
  BY DEF Entering
<1> USE <1>0
<1> DEFINE i == cells[o].data_offset + k
           x == [cells[i] EXCEPT !.data_offset = to]
           here == Append(cells[o].stat, tr[cells[o].stat].names[k])
<1>1. cells \in Seq(Cell) /\ i \in DOMAIN cells /\ cells[i].t = "entry"
  BY DEF Tree, Laid, Tabled
<1>2. cells[i] \in EntryCell
  BY <1>1, CellsDiffer
<1>3. x \in Cell /\ x.t = "entry" /\ x.name_offset = cells[i].name_offset /\ x.data_offset = to
  <2>1. to \in Int
    OBVIOUS
  <2> QED
    BY ONLY <1>2, <2>1 DEF x, Cell, EntryCell
<1> HIDE DEF x
<1>4. cells2 = [cells EXCEPT ![i] = x]
  BY <1>1 DEF x
<1> HIDE DEF i
<1>5. /\ cells2 \in Seq(Cell) /\ Len(cells2) = Len(cells) /\ DOMAIN cells2 = DOMAIN cells
      /\ cells2[i] = x /\ \A j \in DOMAIN cells : j # i => cells2[j] = cells[j]
  <2>1. cells \in Seq(Cell) /\ i \in DOMAIN cells /\ x \in Cell
    BY <1>1, <1>3 DEF i
  <2> QED
    BY ONLY <1>4, <2>1
<1>6. Laid(cells2)
  BY <1>1, <1>5 DEF Tree, Laid
<1>7. ASSUME NEW o2, DirAt(cells, o2), NEW k2 \in 1..Len(tr[cells[o2].stat].names),
             Append(cells[o2].stat, tr[cells[o2].stat].names[k2]) \notin W2
      PROVE  LeadsTo(cells, tr, cells2[cells[o2].data_offset + k2].data_offset,
                     Append(cells[o2].stat, tr[cells[o2].stat].names[k2]))
  <2> DEFINE p == Append(cells[o2].stat, tr[cells[o2].stat].names[k2])
             i2 == cells[o2].data_offset + k2
  <2>1. cells[o].stat \in DOMAIN tr /\ cells[o2].stat \in DOMAIN tr
    BY <1>7 DEF DirAt, Tree, Statted
  <2>2. /\ cells[o].stat \in Seq(Names) /\ GoodAnswer(tr[cells[o].stat])
        /\ cells[o2].stat \in Seq(Names) /\ GoodAnswer(tr[cells[o2].stat])
    BY <2>1 DEF Tree, Grown
  <2>3. tr[cells[o].stat].names[k] \in Names /\ tr[cells[o2].stat].names[k2] \in Names
    BY <1>7, <2>2, NamesDiffer
  <2>4. CASE o2 = o /\ k2 = k
    <3>1. i2 = i
      BY <2>4 DEF i
    <3> QED
      BY <1>3, <1>5, <2>4, <3>1
  <2>5. CASE ~(o2 = o /\ k2 = k)
    <3>1. p # here
      <4>1. CASE o2 = o
        <5> DEFINE q == cells[o].stat
                   m1 == tr[cells[o].stat].names[k]
                   m2 == tr[cells[o].stat].names[k2]
        <5>1. m1 # m2
          BY <1>7, <2>2, <2>5, <4>1, NamesDiffer
        <5>2. q \in Seq(Names) /\ m1 \in Names /\ m2 \in Names
          BY <2>2, <2>3, <4>1
        <5> HIDE DEF q, m1, m2
        <5>3. Append(q, m1) # Append(q, m2)
          BY <5>1, <5>2, SameAppended
        <5> QED
          BY <4>1, <5>3 DEF q, m1, m2
      <4>2. CASE o2 # o
        <5>1. cells[o2].stat # cells[o].stat
          BY <1>7, <4>2 DEF Tree, Apart
        <5> DEFINE q1 == cells[o].stat
                   m1 == tr[cells[o].stat].names[k]
                   q2 == cells[o2].stat
                   m2 == tr[cells[o2].stat].names[k2]
        <5>2. q1 \in Seq(Names) /\ m1 \in Names /\ q2 \in Seq(Names) /\ m2 \in Names
          BY <2>2, <2>3
        <5> HIDE DEF q1, m1, q2, m2
        <5>3. Append(q2, m2) = Append(q1, m1) => q2 = q1
          BY <5>2, SameAppended
        <5> QED
          BY <5>1, <5>3 DEF q1, m1, q2, m2
      <4> QED
        BY <4>1, <4>2
    <3>2. i2 # i
      <4>1. CASE o2 = o
        <5>1. k2 \in Int /\ k \in Int /\ k2 # k
          BY <1>7, <2>2, <2>5, <4>1, NamesDiffer
        <5>2. cells[o].data_offset \in Nat
          BY DEF Tree, Tabled
        <5> QED
          BY <4>1, <5>1, <5>2 DEF i
      <4>2. CASE o2 # o
        BY <1>7, <4>2 DEF Tree, Apart, i
      <4> QED
        BY <4>1, <4>2
    <3>3. p \notin W
      BY <1>7, <3>1
    <3>4. LeadsTo(cells, tr, cells[i2].data_offset, p)
      BY <1>7, <3>3 DEF Tree, Linked
    <3>5. i2 \in DOMAIN cells
      BY <1>7 DEF Tree, Tabled
    <3>6. cells2[i2] = cells[i2]
      BY <1>5, <3>2, <3>5
    <3> QED
      BY <3>4, <3>6
  <2> QED
    BY <2>4, <2>5
<1>8. \A j \in DOMAIN cells :
           /\ cells2[j].t = cells[j].t
           /\ cells[j].t = "node" => cells2[j] = cells[j]
           /\ cells[j].t = "entry" => cells2[j].name_offset = cells[j].name_offset
           /\ cells[j].t = "name" => cells2[j] = cells[j]
  BY <1>1, <1>3, <1>5
<1>9. Tree(cells2, tr, W2)
  <2>1. \A j \in DOMAIN cells :
           /\ cells2[j].t = cells[j].t
           /\ cells[j].t = "node" =>
                /\ cells2[j].stat = cells[j].stat /\ cells2[j].kind = cells[j].kind
                /\ cells[j].kind = "dir" =>
                     /\ cells2[j].data_offset = cells[j].data_offset
                     /\ j # 2 => cells2[j].length = cells[j].length
           /\ cells[j].t = "entry" => cells2[j].name_offset = cells[j].name_offset
           /\ cells[j].t = "name" => cells2[j] = cells[j]
    BY ONLY <1>8
  <2>2. \A o2 : DirAt(cells, o2) =>
           \A k2 \in 1..Len(tr[cells[o2].stat].names) :
             LET p == Append(cells[o2].stat, tr[cells[o2].stat].names[k2])
             IN  p \notin W2 =>
                   LeadsTo(cells, tr, cells2[cells[o2].data_offset + k2].data_offset, p)
    BY ONLY <1>7
  <2>3. Tree(cells, tr, W) /\ Laid(cells2) /\ DOMAIN cells2 = DOMAIN cells
    BY <1>5, <1>6
  <2> QED
    BY ONLY <2>1, <2>2, <2>3, Kept
<1> QED
  BY <1>5, <1>8, <1>9

(* A file is placed, or the length put in, or the root overwritten.        *)
Touching(cells, tr, W, i, x, cells2) ==
  /\ Tree(cells, tr, W) /\ i \in DOMAIN cells /\ x \in Cell /\ cells2 = [cells EXCEPT ![i] = x]
  /\ cells[i].t \in {"header", "node"} /\ x.t = cells[i].t
  /\ x.t = "node" =>
       /\ x.stat = cells[i].stat /\ x.kind = cells[i].kind
       /\ x.kind = "dir" => i = 2 /\ x.data_offset = cells[i].data_offset

LEMMA Touched ==
  ASSUME NEW cells, NEW tr, NEW W, NEW i, NEW x, NEW cells2, Touching(cells, tr, W, i, x, cells2)
  PROVE  /\ Tree(cells2, tr, W) /\ Len(cells2) = Len(cells) /\ DOMAIN cells2 = DOMAIN cells
         /\ cells2[i] = x /\ \A j \in DOMAIN cells : j # i => cells2[j] = cells[j]
<1>0. /\ Tree(cells, tr, W) /\ i \in DOMAIN cells /\ x \in Cell /\ cells2 = [cells EXCEPT ![i] = x]
      /\ cells[i].t \in {"header", "node"} /\ x.t = cells[i].t
      /\ x.t = "node" =>
           /\ x.stat = cells[i].stat /\ x.kind = cells[i].kind
           /\ x.kind = "dir" => i = 2 /\ x.data_offset = cells[i].data_offset
  BY DEF Touching
<1> USE <1>0
<1>1. cells \in Seq(Cell) /\ 1 \in DOMAIN cells /\ cells[1].t = "header"
  BY DEF Tree, Laid
<1>2. /\ cells2 \in Seq(Cell) /\ Len(cells2) = Len(cells) /\ DOMAIN cells2 = DOMAIN cells
      /\ cells2[i] = x /\ \A j \in DOMAIN cells : j # i => cells2[j] = cells[j]
  BY <1>1, Replaced
<1>3. \A j \in DOMAIN cells :
        /\ cells2[j].t = cells[j].t
        /\ cells[j].t = "node" =>
             /\ cells2[j].stat = cells[j].stat /\ cells2[j].kind = cells[j].kind
             /\ cells[j].kind = "dir" =>
                  /\ cells2[j].data_offset = cells[j].data_offset
                  /\ j # 2 => cells2[j].length = cells[j].length
        /\ cells[j].t = "entry" => cells2[j].name_offset = cells[j].name_offset
        /\ cells[j].t = "name" => cells2[j] = cells[j]
  BY <1>2
<1>4. Laid(cells2)
  BY <1>1, <1>2, <1>3 DEF Laid
<1>5. ASSUME NEW o, DirAt(cells, o), NEW k \in 1..Len(tr[cells[o].stat].names),
             Append(cells[o].stat, tr[cells[o].stat].names[k]) \notin W
      PROVE  LeadsTo(cells, tr, cells2[cells[o].data_offset + k].data_offset,
                     Append(cells[o].stat, tr[cells[o].stat].names[k]))
  <2> DEFINE p == Append(cells[o].stat, tr[cells[o].stat].names[k])
             j == cells[o].data_offset + k
  <2>1. LeadsTo(cells, tr, cells[j].data_offset, p)
    BY <1>5 DEF Tree, Linked
  <2>2. j \in DOMAIN cells /\ cells[j].t = "entry"
    BY <1>5 DEF Tree, Tabled
  <2>3. cells2[j] = cells[j]
    BY <1>2, <2>2
  <2> QED
    BY <2>1, <2>3
<1>6. Tree(cells2, tr, W)
  BY <1>2, <1>3, <1>4, <1>5, Kept
<1> QED
  BY <1>2, <1>6

(* The calls of scan_dfs that have not returned: each is at an entry of    *)
(* its directory, the next one is in the directory of that entry, and what *)
(* comes after has not been looked at.                                     *)
CallRecord == [path : Seq(Names), addr : Nat, dirents : Nat, i : Nat]

InCall(calls, cells, tr, l) ==
  LET c == calls[l]
      names == tr[c.path].names
  IN  /\ Len(c.path) = l - 1 /\ c.path \in DOMAIN tr
      /\ DirAt(cells, c.addr + 1)
      /\ cells[c.addr + 1].stat = c.path /\ cells[c.addr + 1].data_offset = c.dirents
      /\ c.i <= Len(names)
      /\ l < Len(calls) =>
           c.i < Len(names) /\ calls[l + 1].path = Append(c.path, names[c.i + 1])
      /\ \A k \in (c.i + 1)..Len(names) : Append(c.path, names[k]) \in DOMAIN tr =>
           l < Len(calls) /\ k = c.i + 1

Calling(calls, cells, tr) ==
  calls \in Seq(CallRecord) /\ \A l \in DOMAIN calls : InCall(calls, cells, tr, l)

(* The paths whose entries they have still to set.                         *)
Awaited(calls, tr) ==
  {p \in Seq(Names) :
     \E l \in DOMAIN calls : \E k \in (calls[l].i + 1)..Len(tr[calls[l].path].names) :
       p = Append(calls[l].path, tr[calls[l].path].names[k])}

(* What Grown says of the directory of a call.                             *)
LEMMA CallNames ==
  ASSUME NEW calls, NEW cells, NEW tr, Grown(tr), Calling(calls, cells, tr), NEW l \in DOMAIN calls
  PROVE  LET c == calls[l]
             names == tr[c.path].names
         IN  /\ c \in CallRecord /\ c.path \in Seq(Names) /\ c.i \in Nat /\ c.addr \in Nat
             /\ Len(calls) \in Nat /\ l \in 1..Len(calls)
             /\ c.path \in DOMAIN tr /\ GoodAnswer(tr[c.path])
             /\ Len(names) \in Nat
             /\ \A k \in 1..Len(names) :
                  names[k] \in Names /\ Append(c.path, names[k]) \in Seq(Names)
<1>1. calls \in Seq(CallRecord) /\ InCall(calls, cells, tr, l)
  BY DEF Calling
<1>2. /\ calls[l] \in CallRecord /\ Len(calls) \in Nat /\ l \in 1..Len(calls)
  BY <1>1
<1>3. calls[l].path \in Seq(Names) /\ calls[l].i \in Nat /\ calls[l].addr \in Nat
  BY <1>2 DEF CallRecord
<1>4. calls[l].path \in DOMAIN tr
  BY <1>1 DEF InCall
<1>5. GoodAnswer(tr[calls[l].path])
  BY <1>4 DEF Grown
<1> DEFINE names == tr[calls[l].path].names
<1>6. Len(names) \in Nat /\ \A k \in 1..Len(names) : names[k] \in Names
  BY <1>5, NamesDiffer
<1> HIDE DEF names
<1>7. \A k \in 1..Len(names) : Append(calls[l].path, names[k]) \in Seq(Names)
  BY <1>3, <1>6, Appended
<1> QED
  BY <1>2, <1>3, <1>4, <1>5, <1>6, <1>7 DEF names

(* The call on top, or its caller when it returns, goes on to the next     *)
(* entry.                                                                  *)
Advancing(calls, cells, tr, n, calls2, cells2, tr2) ==
  /\ Grown(tr) /\ Calling(calls, cells, tr)
  /\ n \in Nat \ {0} /\ n <= Len(calls) /\ calls2 \in Seq(CallRecord) /\ Len(calls2) = n
  /\ \A l \in 1..(n - 1) : calls2[l] = calls[l]
  /\ calls2[n] = [calls[n] EXCEPT !.i = @ + 1]
  /\ calls[n].i < Len(tr[calls[n].path].names)
  /\ \A l \in DOMAIN calls : l > n => calls[l].i = Len(tr[calls[l].path].names)
  /\ \A j \in DOMAIN cells : cells[j].t = "node" => j \in DOMAIN cells2 /\ cells2[j] = cells[j]
  /\ DOMAIN tr \subseteq DOMAIN tr2 /\ \A p \in DOMAIN tr : tr2[p] = tr[p]
  /\ \A p \in DOMAIN tr2 :
       p \in DOMAIN tr \/ p = Append(calls[n].path, tr[calls[n].path].names[calls[n].i + 1])

LEMMA Advanced ==
  ASSUME NEW calls, NEW calls2, NEW cells, NEW cells2, NEW tr, NEW tr2, NEW n,
         Advancing(calls, cells, tr, n, calls2, cells2, tr2)
  PROVE  /\ Calling(calls2, cells2, tr2)
         /\ \A p \in Awaited(calls, tr) :
              \/ p \in Awaited(calls2, tr2)
              \/ p = Append(calls[n].path, tr[calls[n].path].names[calls[n].i + 1])
<1>0. /\ Grown(tr) /\ Calling(calls, cells, tr)
      /\ n \in Nat \ {0} /\ n <= Len(calls) /\ calls2 \in Seq(CallRecord) /\ Len(calls2) = n
      /\ \A l \in 1..(n - 1) : calls2[l] = calls[l]
      /\ calls2[n] = [calls[n] EXCEPT !.i = @ + 1]
      /\ calls[n].i < Len(tr[calls[n].path].names)
      /\ \A l \in DOMAIN calls : l > n => calls[l].i = Len(tr[calls[l].path].names)
      /\ \A j \in DOMAIN cells : cells[j].t = "node" => j \in DOMAIN cells2 /\ cells2[j] = cells[j]
      /\ DOMAIN tr \subseteq DOMAIN tr2 /\ \A p \in DOMAIN tr : tr2[p] = tr[p]
      /\ \A p \in DOMAIN tr2 :
           p \in DOMAIN tr \/ p = Append(calls[n].path, tr[calls[n].path].names[calls[n].i + 1])
  BY DEF Advancing
<1> USE <1>0
<1> DEFINE top == calls[n]
           names == tr[top.path].names
           child == Append(top.path, names[top.i + 1])
<1>1. Len(calls) \in Nat /\ DOMAIN calls = 1..Len(calls) /\ n \in DOMAIN calls /\ DOMAIN calls2 = 1..n
  BY DEF Calling
<1>2. ASSUME NEW l \in DOMAIN calls
      PROVE  InCall(calls, cells, tr, l)
  BY DEF Calling
<1>3. /\ top \in CallRecord /\ top.path \in Seq(Names) /\ top.i \in Nat
      /\ Len(names) \in Nat /\ \A k \in 1..Len(names) : names[k] \in Names
      /\ GoodAnswer(tr[top.path])
  BY <1>1, CallNames
<1>4. top.i + 1 \in 1..Len(names) /\ names[top.i + 1] \in Names
  BY <1>3
<1>5. /\ calls2[n].path = top.path /\ calls2[n].i = top.i + 1 /\ calls2[n].addr = top.addr
      /\ calls2[n].dirents = top.dirents
  BY <1>3 DEF CallRecord
<1>6. ASSUME NEW l \in 1..n
      PROVE  InCall(calls2, cells2, tr2, l)
  <2> DEFINE c == calls[l]
             list == tr[c.path].names
  <2>1. l \in DOMAIN calls
    BY <1>1
  <2>2. /\ Len(c.path) = l - 1 /\ c.path \in DOMAIN tr
        /\ DirAt(cells, c.addr + 1)
        /\ cells[c.addr + 1].stat = c.path /\ cells[c.addr + 1].data_offset = c.dirents
        /\ c.i <= Len(list)
        /\ l < Len(calls) =>
             c.i < Len(list) /\ calls[l + 1].path = Append(c.path, list[c.i + 1])
        /\ \A k \in (c.i + 1)..Len(list) : Append(c.path, list[k]) \in DOMAIN tr =>
             l < Len(calls) /\ k = c.i + 1
    BY <1>2, <2>1 DEF InCall
  <2>3. /\ c.path \in Seq(Names) /\ c.i \in Nat /\ Len(list) \in Nat
        /\ \A k \in 1..Len(list) : list[k] \in Names
    BY <2>1, CallNames
  <2>4. DirAt(cells2, c.addr + 1) /\ cells2[c.addr + 1] = cells[c.addr + 1]
    BY <2>2 DEF DirAt
  <2>5. c.path \in DOMAIN tr2 /\ tr2[c.path] = tr[c.path]
    BY <2>2
  <2>6. calls2[l].path = c.path /\ calls2[l].addr = c.addr /\ calls2[l].dirents = c.dirents
        /\ calls2[l].i = IF l = n THEN c.i + 1 ELSE c.i
    <3>1. CASE l = n
      BY <1>5, <3>1
    <3>2. CASE l # n
      BY <3>2
    <3> QED
      BY <3>1, <3>2
  <2>7. calls2[l].i <= Len(list)
    BY <1>4, <2>2, <2>3, <2>6
  <2>8. ASSUME l < n
        PROVE  calls2[l].i < Len(list) /\ calls2[l + 1].path = Append(c.path, list[calls2[l].i + 1])
    <3>1. l < Len(calls) /\ l + 1 \in 1..n
      BY <1>1, <2>8
    <3>2. calls2[l + 1].path = calls[l + 1].path
      <4>1. CASE l + 1 = n
        BY <1>5, <4>1
      <4>2. CASE l + 1 # n
        <5>1. l + 1 \in 1..(n - 1)
          BY <3>1, <4>2
        <5> QED
          BY <5>1
      <4> QED
        BY <4>1, <4>2
    <3> QED
      BY <2>2, <2>6, <2>8, <3>1, <3>2
  <2>9. ASSUME NEW k \in (calls2[l].i + 1)..Len(list), Append(c.path, list[k]) \in DOMAIN tr2
        PROVE  l < n /\ k = calls2[l].i + 1
    <3>1. k \in (c.i + 1)..Len(list) /\ k \in 1..Len(list) /\ list[k] \in Names
      BY <2>3, <2>6
    <3>2. CASE l = n
      <4>1. k > c.i + 1 /\ c.i + 1 \in 1..Len(list)
        BY <1>4, <2>3, <2>6, <3>1, <3>2
      <4>2. Append(c.path, list[k]) \notin DOMAIN tr
        BY <2>2, <2>3, <3>1, <4>1
      <4>3. Append(c.path, list[k]) = Append(c.path, list[c.i + 1])
        BY <2>9, <3>2, <4>2
      <4>4. list[k] = list[c.i + 1]
        BY <2>3, <3>1, <4>1, <4>3, SameAppended
      <4>5. GoodAnswer(tr[c.path])
        BY <1>3, <3>2
      <4>6. k = c.i + 1
        BY <3>1, <4>1, <4>4, <4>5, NamesDiffer
      <4> QED
        BY <2>3, <3>1, <4>1, <4>6
    <3>3. CASE l # n
      <4>1. Append(c.path, list[k]) # child
        <5>1. Len(top.path) = n - 1
          BY <1>1, <1>2 DEF InCall
        <5>2. c.path # top.path
          BY <2>2, <3>3, <5>1
        <5>3. /\ top.path \in Seq(Names) /\ names[top.i + 1] \in Names
              /\ c.path \in Seq(Names) /\ list[k] \in Names
          BY <1>3, <1>4, <2>3, <3>1
        <5> DEFINE q1 == c.path
                   m1 == list[k]
                   q2 == top.path
                   m2 == names[top.i + 1]
        <5>4. q1 \in Seq(Names) /\ m1 \in Names /\ q2 \in Seq(Names) /\ m2 \in Names /\ q1 # q2
          BY <5>2, <5>3
        <5> HIDE DEF q1, m1, q2, m2
        <5>5. Append(q1, m1) # Append(q2, m2)
          BY <5>4, SameAppended
        <5> QED
          BY <5>5 DEF q1, m1, q2, m2
      <4>2. Append(c.path, list[k]) \in DOMAIN tr
        BY <2>9, <4>1
      <4> QED
        BY <2>2, <2>6, <3>1, <3>3, <4>2
    <3> QED
      BY <3>2, <3>3
  <2> HIDE DEF list
  <2>10. list = tr2[c.path].names
    BY <2>5 DEF list
  <2>11. /\ Len(calls2[l].path) = l - 1 /\ cells2[c.addr + 1].stat = c.path
         /\ cells2[c.addr + 1].data_offset = c.dirents
    BY <2>2, <2>4, <2>6
  <2> HIDE DEF c
  <2> QED
    BY <2>4, <2>5, <2>6, <2>7, <2>8, <2>9, <2>10, <2>11 DEF InCall
<1>7. Calling(calls2, cells2, tr2)
  BY <1>1, <1>6 DEF Calling
<1>8. ASSUME NEW p \in Awaited(calls, tr), p # child
      PROVE  p \in Awaited(calls2, tr2)
  <2>1. PICK l \in DOMAIN calls : \E k \in (calls[l].i + 1)..Len(tr[calls[l].path].names) :
          p = Append(calls[l].path, tr[calls[l].path].names[k])
    BY <1>8 DEF Awaited
  <2>2. PICK k \in (calls[l].i + 1)..Len(tr[calls[l].path].names) :
          p = Append(calls[l].path, tr[calls[l].path].names[k])
    BY <2>1
  <2>3. calls[l].i \in Nat /\ Len(tr[calls[l].path].names) \in Nat /\ calls[l].path \in DOMAIN tr
        /\ l \in 1..Len(calls)
    BY <2>1, CallNames
  <2>4. l \in 1..n
    BY <1>1, <2>2, <2>3
  <2>5. tr2[calls[l].path] = tr[calls[l].path]
    BY <2>3
  <2>6. calls2[l].path = calls[l].path /\ k \in (calls2[l].i + 1)..Len(tr[calls[l].path].names)
    <3>1. CASE l = n
      <4>1. k # top.i + 1
        BY <1>8, <2>2, <3>1
      <4>2. k \in (top.i + 1)..Len(names) /\ top.i \in Nat /\ Len(names) \in Nat
        BY <1>3, <2>2, <3>1
      <4>3. k \in (top.i + 1 + 1)..Len(names)
        BY ONLY <4>1, <4>2
      <4> QED
        BY <1>5, <3>1, <4>3
    <3>2. CASE l # n
      <4>1. l \in 1..(n - 1)
        BY <2>4, <3>2
      <4> QED
        BY <2>2, <4>1
    <3> QED
      BY <3>1, <3>2
  <2>7. p \in Seq(Names)
    BY <1>8 DEF Awaited
  <2> QED
    BY <1>1, <2>2, <2>4, <2>5, <2>6, <2>7 DEF Awaited
<1> QED
  BY <1>7, <1>8

(* A directory is entered.                                                 *)
Pushing(calls, cells, tr, call, s, calls2, cells2, tr2) ==
  /\ Grown(tr) /\ Calling(calls, cells, tr) /\ GoodAnswer(s)
  /\ call \in CallRecord /\ call.path \notin DOMAIN tr /\ call.i = 0
  /\ calls2 = Append(calls, call)
  /\ Len(calls) = 0 => call.path = Root
  /\ Len(calls) > 0 =>
       /\ calls[Len(calls)].i < Len(tr[calls[Len(calls)].path].names)
       /\ call.path = Append(calls[Len(calls)].path,
                             tr[calls[Len(calls)].path].names[calls[Len(calls)].i + 1])
  /\ \A j \in DOMAIN cells : cells[j].t = "node" => j \in DOMAIN cells2 /\ cells2[j] = cells[j]
  /\ DirAt(cells2, call.addr + 1) /\ cells2[call.addr + 1].stat = call.path
  /\ cells2[call.addr + 1].data_offset = call.dirents
  /\ tr2 = [p \in DOMAIN tr \cup {call.path} |-> IF p = call.path THEN s ELSE tr[p]]

LEMMA Pushed ==
  ASSUME NEW calls, NEW calls2, NEW cells, NEW cells2, NEW tr, NEW tr2, NEW s, NEW call,
         Pushing(calls, cells, tr, call, s, calls2, cells2, tr2)
  PROVE  /\ Calling(calls2, cells2, tr2) /\ Awaited(calls, tr) \subseteq Awaited(calls2, tr2)
         /\ \A k \in 1..Len(s.names) : Append(call.path, s.names[k]) \in Awaited(calls2, tr2)
<1>0. /\ Grown(tr) /\ Calling(calls, cells, tr) /\ GoodAnswer(s)
      /\ call \in CallRecord /\ call.path \notin DOMAIN tr /\ call.i = 0
      /\ calls2 = Append(calls, call)
      /\ Len(calls) = 0 => call.path = Root
      /\ Len(calls) > 0 =>
           /\ calls[Len(calls)].i < Len(tr[calls[Len(calls)].path].names)
           /\ call.path = Append(calls[Len(calls)].path,
                                 tr[calls[Len(calls)].path].names[calls[Len(calls)].i + 1])
      /\ \A j \in DOMAIN cells : cells[j].t = "node" => j \in DOMAIN cells2 /\ cells2[j] = cells[j]
      /\ DirAt(cells2, call.addr + 1) /\ cells2[call.addr + 1].stat = call.path
      /\ cells2[call.addr + 1].data_offset = call.dirents
      /\ tr2 = [p \in DOMAIN tr \cup {call.path} |-> IF p = call.path THEN s ELSE tr[p]]
      /\ call.path \in Seq(Names)
  BY DEF Pushing, CallRecord
<1> USE <1>0
<1> DEFINE n == Len(calls)
           child == call.path
<1>1. /\ calls \in Seq(CallRecord) /\ n \in Nat /\ DOMAIN calls = 1..n
      /\ calls2 \in Seq(CallRecord) /\ Len(calls2) = n + 1 /\ DOMAIN calls2 = 1..(n + 1)
      /\ \A l \in 1..n : calls2[l] = calls[l]
      /\ calls2[n + 1] = call
  BY DEF Calling
<1>2. /\ DOMAIN tr2 = DOMAIN tr \cup {child} /\ tr2[child] = s
      /\ \A p \in DOMAIN tr : tr2[p] = tr[p]
  OBVIOUS
<1>3. ASSUME NEW l \in 1..n
      PROVE  InCall(calls, cells, tr, l)
  BY <1>1 DEF Calling
<1> HIDE DEF n
<1>s. /\ Len(s.names) \in Nat /\ \A k \in 1..Len(s.names) : s.names[k] \in Names
  BY NamesDiffer
<1>4. Len(child) = n
  <2>1. CASE n = 0
    BY <2>1 DEF n, Root
  <2>2. CASE n # 0
    <3>1. n \in 1..n /\ n \in DOMAIN calls /\ n > 0
      BY <1>1, <2>2
    <3>2. Len(calls[n].path) = n - 1
      BY <1>3, <3>1 DEF InCall
    <3>3. /\ calls[n].path \in Seq(Names) /\ calls[n].i \in Nat
          /\ Len(tr[calls[n].path].names) \in Nat
          /\ \A k \in 1..Len(tr[calls[n].path].names) : tr[calls[n].path].names[k] \in Names
      BY <3>1, CallNames
    <3>4. calls[n].i + 1 \in 1..Len(tr[calls[n].path].names)
      BY <3>1, <3>3 DEF n
    <3>5. child = Append(calls[n].path, tr[calls[n].path].names[calls[n].i + 1])
      BY <3>1 DEF n
    <3> DEFINE q1 == calls[n].path
               m1 == tr[calls[n].path].names[calls[n].i + 1]
    <3>a. q1 \in Seq(Names) /\ m1 \in Names /\ child = Append(q1, m1)
      BY <3>3, <3>4, <3>5
    <3> HIDE DEF q1, m1
    <3>b. Len(child) = Len(q1) + 1
      BY <3>a, Appended
    <3>6. Len(child) = Len(calls[n].path) + 1
      BY <3>b DEF q1
    <3> QED
      BY <1>1, <3>2, <3>6
  <2> QED
    BY <2>1, <2>2
<1>5. ASSUME NEW l \in 1..n
      PROVE  InCall(calls2, cells2, tr2, l)
  <2> DEFINE c == calls[l]
             list == tr[c.path].names
  <2>1. l \in DOMAIN calls /\ n \in DOMAIN calls /\ n > 0
    BY <1>1
  <2>2. /\ Len(c.path) = l - 1 /\ c.path \in DOMAIN tr
        /\ DirAt(cells, c.addr + 1)
        /\ cells[c.addr + 1].stat = c.path /\ cells[c.addr + 1].data_offset = c.dirents
        /\ c.i <= Len(list)
        /\ l < n => c.i < Len(list) /\ calls[l + 1].path = Append(c.path, list[c.i + 1])
        /\ \A k \in (c.i + 1)..Len(list) : Append(c.path, list[k]) \in DOMAIN tr =>
             l < n /\ k = c.i + 1
    BY <1>3 DEF InCall, n
  <2>3. /\ c.path \in Seq(Names) /\ c.i \in Nat /\ Len(list) \in Nat
        /\ \A k \in 1..Len(list) : list[k] \in Names
        /\ GoodAnswer(tr[c.path])
    BY <2>1, CallNames
  <2>4. DirAt(cells2, c.addr + 1) /\ cells2[c.addr + 1] = cells[c.addr + 1]
    BY <2>2 DEF DirAt
  <2>5. c.path \in DOMAIN tr2 /\ tr2[c.path] = tr[c.path]
    BY <1>2, <2>2
  <2>6. calls2[l] = c
    BY <1>1
  <2>7. l = n => c.i < Len(list) /\ child = Append(c.path, list[c.i + 1])
    BY <2>1 DEF n
  <2>8. c.i < Len(list) /\ calls2[l + 1].path = Append(c.path, list[c.i + 1])
    <3>1. CASE l = n
      BY <1>1, <2>7, <3>1
    <3>2. CASE l # n
      <4>1. l < n /\ l + 1 \in 1..n
        BY <1>1, <3>2
      <4> QED
        BY <1>1, <2>2, <4>1
    <3> QED
      BY <3>1, <3>2
  <2>9. ASSUME NEW k \in (c.i + 1)..Len(list), Append(c.path, list[k]) \in DOMAIN tr2
        PROVE  k = c.i + 1
    <3>a. c.i \in Nat /\ Len(list) \in Nat /\ c.i < Len(list) /\ k \in (c.i + 1)..Len(list)
      BY <2>3, <2>8, <2>9
    <3>0. k \in 1..Len(list) /\ c.i + 1 \in 1..Len(list)
      BY ONLY <3>a
    <3>1. k \in 1..Len(list) /\ list[k] \in Names /\ c.i + 1 \in 1..Len(list)
          /\ list[c.i + 1] \in Names
      BY <2>3, <3>0
    <3>2. CASE Append(c.path, list[k]) \in DOMAIN tr
      BY <2>2, <3>2
    <3>3. CASE Append(c.path, list[k]) = child
      <4>1. Len(Append(c.path, list[k])) = Len(c.path) + 1
        BY <2>3, <3>1, Appended
      <4>2. l = n
        BY <1>1, <1>4, <2>2, <3>3, <4>1
      <4>3. Append(c.path, list[k]) = Append(c.path, list[c.i + 1])
        BY <2>7, <3>3, <4>2
      <4>4. list[k] = list[c.i + 1]
        BY <2>3, <3>1, <4>3, SameAppended
      <4>5. \A i, j \in 1..Len(list) : list[i] = list[j] => i = j
        BY <2>3, NamesDiffer
      <4> QED
        BY <3>1, <4>4, <4>5
    <3> QED
      BY <1>2, <2>9, <3>2, <3>3
  <2> HIDE DEF list
  <2>10. list = tr2[c.path].names
    BY <2>5 DEF list
  <2>11. cells2[c.addr + 1].stat = c.path /\ cells2[c.addr + 1].data_offset = c.dirents
    BY <2>2, <2>4
  <2>12. l < Len(calls2)
    BY <1>1
  <2> HIDE DEF c
  <2> QED
    BY <2>2, <2>4, <2>5, <2>6, <2>8, <2>9, <2>10, <2>11, <2>12 DEF InCall
<1>6. InCall(calls2, cells2, tr2, n + 1)
  <2>1. ASSUME NEW k \in 1..Len(s.names), Append(child, s.names[k]) \in DOMAIN tr2
        PROVE  FALSE
    <3>1. s.names[k] \in Names
      BY <1>s
    <3>2. Append(child, s.names[k]) # child
      BY <3>1, Appended
    <3>3. Append(child, s.names[k]) \in DOMAIN tr
      BY <1>2, <2>1, <3>2
    <3> QED
      BY <3>1, <3>3 DEF Grown
  <2>2. Len(calls2) = n + 1 /\ calls2[n + 1] = call /\ n + 1 - 1 = n /\ ~(n + 1 < n + 1)
    BY <1>1
  <2>3. child \in DOMAIN tr2 /\ tr2[child] = s
    BY <1>2
  <2>4. 0 <= Len(s.names) /\ (0 + 1)..Len(s.names) = 1..Len(s.names)
    BY <1>s
  <2> QED
    BY <1>4, <2>1, <2>2, <2>3, <2>4 DEF InCall
<1>7. Calling(calls2, cells2, tr2)
  <2>1. ASSUME NEW l \in 1..(n + 1)
        PROVE  InCall(calls2, cells2, tr2, l)
    <3>1. l \in 1..n \/ l = n + 1
      BY <1>1
    <3> QED
      BY <1>5, <1>6, <3>1
  <2> QED
    BY <1>1, <2>1 DEF Calling
<1>8. ASSUME NEW p \in Awaited(calls, tr)
      PROVE  p \in Awaited(calls2, tr2)
  <2>1. PICK l \in DOMAIN calls : \E k \in (calls[l].i + 1)..Len(tr[calls[l].path].names) :
          p = Append(calls[l].path, tr[calls[l].path].names[k])
    BY <1>8 DEF Awaited
  <2>2. l \in DOMAIN calls2 /\ calls2[l] = calls[l]
    BY <1>1, <2>1
  <2>3. calls[l].path \in DOMAIN tr
    BY <2>1, CallNames
  <2>4. tr2[calls[l].path] = tr[calls[l].path]
    BY <1>2, <2>3
  <2>5. p \in Seq(Names)
    BY <1>8 DEF Awaited
  <2>6. \E k \in (calls2[l].i + 1)..Len(tr2[calls2[l].path].names) :
          p = Append(calls2[l].path, tr2[calls2[l].path].names[k])
    BY <2>1, <2>2, <2>4
  <2> QED
    BY <2>2, <2>5, <2>6 DEF Awaited
<1>9. ASSUME NEW k \in 1..Len(s.names)
      PROVE  Append(child, s.names[k]) \in Awaited(calls2, tr2)
  <2>1. Append(child, s.names[k]) \in Seq(Names)
    BY <1>s, Appended
  <2>2. n + 1 \in DOMAIN calls2 /\ calls2[n + 1].path = child /\ calls2[n + 1].i = 0
    BY <1>1
  <2>3. k \in (0 + 1)..Len(s.names)
    BY <1>s
  <2> QED
    BY <1>2, <2>1, <2>2, <2>3 DEF Awaited
<1> QED
  BY <1>7, <1>8, <1>9
----------------------------------------------------------------------------
(* The inductive invariant of a build: the tree as far as it is scanned,   *)
(* the calls that are open, and the length of the buffer.                  *)
Bytes == \E S : blob \in Seq(S)

BuildInv ==
  /\ stage \in {"root", "scan", "place", "built", "dead"}
  /\ Bytes
  /\ Tree(data, tree, Awaited(stack, tree))
  /\ Calling(stack, data, tree)
  /\ stage = "root" => tree = << >> /\ data = <<Header(Uninit)>> /\ stack = << >>
  /\ stage # "root" => DirAt(data, 2) /\ data[2].stat = Root
  /\ stage \notin {"root", "scan"} => stack = << >>

LEMMA BuildInitKeeps == BuildInit => BuildInv
<1> SUFFICES ASSUME BuildInit
             PROVE  BuildInv
  OBVIOUS
<1>1. tree = << >> /\ data = <<Header(Uninit)>> /\ stack = << >> /\ blob = << >>
      /\ stage = "root"
  BY DEF BuildInit
<1>3. data \in Seq(Cell) /\ Len(data) = 1 /\ DOMAIN data = {1} /\ data[1].t = "header"
  <2>1. Header(Uninit) \in Cell /\ Header(Uninit).t = "header"
    BY DEF Header, Cell, PlainCell, Uninit
  <2> QED
    BY <1>1, <2>1
<1>4. \A o : ~DirAt(data, o)
  BY <1>3 DEF DirAt
<1>5. DOMAIN tree = {}
  BY <1>1
<1>6. Tree(data, tree, Awaited(stack, tree))
  BY <1>3, <1>4, <1>5 DEF Tree, Laid, Grown, Statted, Apart
<1>7. Calling(stack, data, tree)
  BY <1>1 DEF Calling
<1>8. Bytes
  <2>1. blob \in Seq({})
    BY <1>1
  <2> QED
    BY <2>1 DEF Bytes
<1> QED
  BY <1>1, <1>3, <1>6, <1>7, <1>8 DEF BuildInv

LEMMA BuildIdles ==
  ASSUME BuildInv, UNCHANGED built
  PROVE  BuildInv'
BY DEF BuildInv, built, Bytes

LEMMA AddedLenTyped ==
  ASSUME NEW s, GoodAnswer(s)
  PROVE  AddedLen(s) \in Nat /\ XattrsLen(s.xattrs) \in Nat
<1> DEFINE n == Len(s.names)
           x == Len(s.xattrs)
<1>1. n \in Nat /\ x \in Nat
  BY NamesDiffer
<1>2. AddedLen(s) = 1 + (IF s.kind = "link" THEN 1 ELSE 2 * n) + 3 * x /\ XattrsLen(s.xattrs) = 3 * x
  BY DEF AddedLen, XattrsLen
<1> HIDE DEF n, x
<1> QED
  BY <1>1, <1>2

LEMMA ScanRootKeeps ==
  ASSUME BuildInv, ScanRoot
  PROVE  BuildInv'
<1>1. stage = "root" /\ tree = << >> /\ stack = << >> /\ stage' = "scan"
      /\ Tree(data, tree, Awaited(stack, tree)) /\ Calling(stack, data, tree)
  BY DEF BuildInv, ScanRoot
<1>2. PICK s \in Answers :
        /\ s.kind = "dir"
        /\ Said(Root, s)
        /\ data' = data \o Added(Len(data), Root, s)
        /\ stack' = <<Call(Root, Len(data), s)>>
  BY DEF ScanRoot
<1>3. GoodAnswer(s)
  BY AnswersAreGood
<1>4. tree' = [p \in DOMAIN tree \cup {Root} |-> IF p = Root THEN s ELSE tree[p]]
  BY <1>2 DEF Said
<1>5. Root \in Seq(Names) /\ Root \notin DOMAIN tree
      /\ \A p \in Seq(Names), m \in Names : Root = Append(p, m) => p \in DOMAIN tree
  <2>1. Root \in Seq(Names)
    BY DEF Root
  <2>2. \A p \in Seq(Names), m \in Names : Root # Append(p, m)
    BY Appended
  <2> QED
    BY <1>1, <2>1, <2>2
<1> DEFINE call == Call(Root, Len(data), s)
<1>6. Len(data) \in Nat /\ DOMAIN data = 1..Len(data) /\ data \in Seq(Cell)
  BY <1>1 DEF Tree, Laid
<1>7. /\ call.path = Root /\ call.addr = Len(data) /\ call.i = 0
      /\ call.dirents = Len(data) + 1 + XattrsLen(s.xattrs)
      /\ call \in CallRecord
  <2>1. Len(data) + 1 + XattrsLen(s.xattrs) \in Nat
    BY <1>3, <1>6, AddedLenTyped
  <2> QED
    BY <1>5, <1>6, <2>1 DEF Call, CallRecord
<1>8. stack' = Append(stack, call)
  BY <1>1, <1>2
<1> HIDE DEF call
<1> DEFINE W2 == Awaited(stack', tree') \cup {Append(Root, s.names[k]) : k \in 1..Len(s.names)}
<1>9. Awaited(stack, tree) = {}
  BY <1>1 DEF Awaited
<1>10. /\ Tree(data', tree', W2)
       /\ Len(data') = Len(data) + AddedLen(s)
       /\ \A k \in DOMAIN data : k \in DOMAIN data' /\ data'[k] = data[k]
       /\ Len(data) + 1 \in DOMAIN data'
       /\ data'[Len(data) + 1].t = "node" /\ data'[Len(data) + 1].stat = Root
       /\ data'[Len(data) + 1].kind = s.kind
       /\ data'[Len(data) + 1].data_offset = Len(data) + 1 + XattrsLen(s.xattrs)
  <2>1. Awaited(stack, tree) \subseteq W2 /\ \A k \in 1..Len(s.names) : Append(Root, s.names[k]) \in W2
    BY <1>9
  <2>2. Tree(data, tree, Awaited(stack, tree))
    BY <1>1
  <2>3. data' = data \o Added(Len(data), Root, s) /\ s.kind = "dir"
    BY <1>2
  <2>4. Extending(data, tree, Awaited(stack, tree), Root, s, data', tree', W2)
    BY ONLY <1>3, <1>4, <1>5, <2>1, <2>2, <2>3 DEF Extending
  <2> HIDE DEF W2
  <2>5. Len(data) \in Nat
    BY <1>6
  <2>6. Tree(data', tree', W2)
    BY ONLY <2>4, Extended
  <2>7. Len(data') = Len(data) + AddedLen(s)
    BY ONLY <2>4, Extended
  <2>8. \A k \in DOMAIN data : k \in DOMAIN data' /\ data'[k] = data[k]
    BY ONLY <2>4, Extended
  <2>9. /\ Len(data) + 1 \in DOMAIN data'
        /\ data'[Len(data) + 1].t = "node" /\ data'[Len(data) + 1].stat = Root
    BY ONLY <2>4, Extended
  <2>10. /\ data'[Len(data) + 1].kind = s.kind
         /\ data'[Len(data) + 1].data_offset = Len(data) + 1 + XattrsLen(s.xattrs)
    <3>1. XattrsLen(s.xattrs) \in Nat
      BY <1>3, AddedLenTyped
    <3>2. data'[Len(data) + 1].kind = s.kind
      BY ONLY <2>4, Extended
    <3>3. s.kind = "dir" =>
            data'[Len(data) + 1].data_offset = Len(data) + 1 + XattrsLen(s.xattrs)
      BY ONLY <2>4, Extended
    <3> QED
      BY ONLY <2>3, <3>2, <3>3
  <2> QED
    BY ONLY <2>6, <2>7, <2>8, <2>9, <2>10
<1> HIDE DEF W2
<1>11. DirAt(data', call.addr + 1) /\ data'[call.addr + 1].stat = Root
       /\ data'[call.addr + 1].data_offset = call.dirents
  BY <1>2, <1>7, <1>10 DEF DirAt
<1>12. Grown(tree)
  BY <1>1 DEF Tree
<1>13. /\ Calling(stack', data', tree')
       /\ \A k \in 1..Len(s.names) : Append(Root, s.names[k]) \in Awaited(stack', tree')
  <2>1. Len(stack) = 0 /\ Calling(stack, data, tree)
    BY <1>1
  <2>2. \A j \in DOMAIN data : data[j].t = "node" => j \in DOMAIN data' /\ data'[j] = data[j]
    BY <1>10
  <2>3. Pushing(stack, data, tree, call, s, stack', data', tree')
    BY ONLY <1>3, <1>4, <1>5, <1>7, <1>8, <1>11, <1>12, <2>1, <2>2 DEF Pushing
  <2> QED
    BY <1>7, <2>3, Pushed
<1>14. W2 = Awaited(stack', tree')
  BY <1>13 DEF W2
<1>16. Bytes'
  BY DEF BuildInv, ScanRoot, Bytes
<1>17. DirAt(data', 2) /\ data'[2].stat = Root
  <2>1. Len(data) = 1
    BY <1>1 DEF BuildInv
  <2> QED
    BY <1>7, <1>11, <2>1
<1> QED
  BY <1>1, <1>10, <1>13, <1>14, <1>16, <1>17 DEF BuildInv

LEMMA NextEntryIs ==
  ASSUME NEW calls \in Seq(CallRecord), Len(calls) > 0
  PROVE  LET n == Len(calls)
             calls2 == NextEntry(calls)
         IN  /\ n \in Nat \ {0} /\ calls2 \in Seq(CallRecord) /\ Len(calls2) = n
             /\ \A l \in 1..(n - 1) : calls2[l] = calls[l]
             /\ calls2[n] = [calls[n] EXCEPT !.i = @ + 1]
<1> DEFINE n == Len(calls)
           x == [calls[n] EXCEPT !.i = @ + 1]
<1>1. n \in Nat \ {0} /\ n \in 1..Len(calls) /\ calls[n] \in CallRecord
  OBVIOUS
<1>2. x \in CallRecord
  <2> DEFINE c == calls[n]
  <2>1. c \in CallRecord
    BY <1>1
  <2> HIDE DEF c
  <2>2. [c EXCEPT !.i = @ + 1] \in CallRecord
    <3>1. c.i + 1 \in Nat
      BY <2>1 DEF CallRecord
    <3> DEFINE m == c.i + 1
    <3> HIDE DEF m
    <3>2. [c EXCEPT !.i = m] \in CallRecord
      BY <2>1, <3>1 DEF CallRecord, m
    <3> QED
      BY <3>2 DEF m
  <2> QED
    BY <2>2 DEF c
<1>3. NextEntry(calls) = [calls EXCEPT ![n] = x]
  BY DEF NextEntry
<1> HIDE DEF x
<1>4. [calls EXCEPT ![n] = x] \in Seq(CallRecord) /\ Len([calls EXCEPT ![n] = x]) = n
  BY <1>1, <1>2
<1>5. /\ \A l \in 1..(n - 1) : [calls EXCEPT ![n] = x][l] = calls[l]
      /\ [calls EXCEPT ![n] = x][n] = x
  BY <1>1
<1> QED
  BY <1>1, <1>3, <1>4, <1>5 DEF x

LEMMA FrontIs ==
  ASSUME NEW calls \in Seq(CallRecord), Len(calls) > 1
  PROVE  /\ Front(calls) \in Seq(CallRecord) /\ Len(Front(calls)) = Len(calls) - 1
         /\ \A l \in 1..(Len(calls) - 1) : Front(calls)[l] = calls[l]
<1>1. Len(calls) \in Nat /\ Len(calls) - 1 \in Nat
  OBVIOUS
<1> QED
  BY <1>1 DEF Front

(* What holds of a call that sets the entry that it is at.                 *)
Setting(cells, tr, W, call, to, W2) ==
  LET names == tr[call.path].names
      p == Append(call.path, names[call.i + 1])
  IN  /\ Tree(cells, tr, W)
      /\ call.i \in Nat /\ call.i + 1 \in 1..Len(names)
      /\ DirAt(cells, call.addr + 1) /\ cells[call.addr + 1].stat = call.path
      /\ cells[call.addr + 1].data_offset = call.dirents
      /\ to \in Nat /\ LeadsTo(cells, tr, to, p)
      /\ \A q \in W : q \in W2 \/ q = p

LEMMA EntrySet ==
  ASSUME NEW cells, NEW tr, NEW W, NEW call, NEW to, NEW W2, Setting(cells, tr, W, call, to, W2)
  PROVE  LET cells2 == SetEntry(cells, call, to)
         IN  /\ Tree(cells2, tr, W2) /\ Len(cells2) = Len(cells) /\ DOMAIN cells2 = DOMAIN cells
             /\ \A j \in DOMAIN cells : cells[j].t = "node" => cells2[j] = cells[j]
<1> DEFINE o == call.addr + 1
           k == call.i + 1
           cells2 == SetEntry(cells, call, to)
<1>1. /\ Tree(cells, tr, W) /\ call.i \in Nat /\ k \in 1..Len(tr[cells[o].stat].names)
      /\ DirAt(cells, o) /\ cells[o].data_offset = call.dirents /\ to \in Nat
      /\ LeadsTo(cells, tr, to, Append(cells[o].stat, tr[cells[o].stat].names[k]))
      /\ \A q \in W : q \in W2 \/ q = Append(cells[o].stat, tr[cells[o].stat].names[k])
  BY DEF Setting
<1>2. cells[o].data_offset \in Nat
  BY <1>1 DEF Tree, Tabled
<1>3. call.dirents + call.i + 1 = cells[o].data_offset + k
  <2> DEFINE d == call.dirents
             j == call.i
  <2>1. d \in Nat /\ j \in Nat /\ cells[o].data_offset = d
    BY <1>1, <1>2
  <2> HIDE DEF d, j
  <2>2. d + j + 1 = d + (j + 1)
    BY ONLY <2>1
  <2> QED
    BY <2>1, <2>2 DEF d, j
<1>4. cells2 = [cells EXCEPT ![cells[o].data_offset + k] = [@ EXCEPT !.data_offset = to]]
  BY <1>3 DEF SetEntry
<1> HIDE DEF o, k, cells2
<1>5. Entering(cells, tr, W, o, k, to, cells2, W2)
  BY <1>1, <1>4 DEF Entering
<1>6. /\ Tree(cells2, tr, W2) /\ Len(cells2) = Len(cells) /\ DOMAIN cells2 = DOMAIN cells
      /\ \A j \in DOMAIN cells : cells[j].t = "node" => cells2[j] = cells[j]
  BY <1>5, Entered
<1> QED
  BY <1>6 DEF cells2

(* The call on top and the path that it is at.                             *)
LEMMA AtEntryIs ==
  ASSUME BuildInv, AtEntry
  PROVE  LET n == Len(stack)
             names == tree[Top.path].names
         IN  /\ stage = "scan" /\ n \in Nat \ {0} /\ n \in DOMAIN stack /\ stack[n] = Top
             /\ stack \in Seq(CallRecord)
             /\ Grown(tree) /\ Calling(stack, data, tree)
             /\ Top \in CallRecord /\ Top.path \in DOMAIN tree
             /\ Top.i \in Nat /\ Top.i < Len(names) /\ Top.i + 1 \in 1..Len(names)
             /\ Child = Append(Top.path, names[Top.i + 1])
             /\ Child \in Seq(Names) /\ Child \notin DOMAIN tree /\ Child # Root
             /\ Child \in Awaited(stack, tree)
             /\ \A p \in Seq(Names), m \in Names : Child = Append(p, m) => p \in DOMAIN tree
             /\ DirAt(data, Top.addr + 1) /\ data[Top.addr + 1].stat = Top.path
             /\ data[Top.addr + 1].data_offset = Top.dirents
<1> DEFINE n == Len(stack)
           names == tree[Top.path].names
<1>1. /\ stage = "scan" /\ stack # << >> /\ Top.i < Len(names)
      /\ Tree(data, tree, Awaited(stack, tree)) /\ Calling(stack, data, tree)
  BY DEF BuildInv, AtEntry
<1>2. stack \in Seq(CallRecord) /\ n \in Nat \ {0} /\ n \in DOMAIN stack /\ stack[n] = Top
  BY <1>1 DEF Calling, Top
<1>3. Grown(tree)
  BY <1>1 DEF Tree
<1>4. /\ Top \in CallRecord /\ Top.path \in Seq(Names) /\ Top.i \in Nat /\ Top.path \in DOMAIN tree
      /\ Len(names) \in Nat /\ \A k \in 1..Len(names) : names[k] \in Names
  BY <1>1, <1>2, <1>3, CallNames
<1>5. Top.i + 1 \in 1..Len(names) /\ Top.i + 1 \in (Top.i + 1)..Len(names)
  BY <1>1, <1>4
<1>6. names[Top.i + 1] \in Names
  BY <1>4, <1>5
<1>7. Child = Append(Top.path, names[Top.i + 1])
  BY DEF Child
<1>8. InCall(stack, data, tree, n)
  BY <1>1, <1>2 DEF Calling
<1>9. /\ DirAt(data, Top.addr + 1) /\ data[Top.addr + 1].stat = Top.path
      /\ data[Top.addr + 1].data_offset = Top.dirents
      /\ \A k \in (Top.i + 1)..Len(names) : Append(Top.path, names[k]) \in DOMAIN tree => n < Len(stack)
  BY <1>2, <1>8 DEF InCall
<1>10. Child \notin DOMAIN tree
  BY <1>2, <1>5, <1>7, <1>9
<1> HIDE DEF names
<1> DEFINE m == names[Top.i + 1]
           q == Top.path
<1>11. q \in Seq(Names) /\ m \in Names /\ Child = Append(q, m) /\ q \in DOMAIN tree
  BY <1>4, <1>6, <1>7
<1> HIDE DEF m, q
<1>12. Child \in Seq(Names) /\ Child # Root
  BY <1>11, Appended
<1>13. ASSUME NEW p \in Seq(Names), NEW j \in Names, Child = Append(p, j)
       PROVE  p \in DOMAIN tree
  <2>1. p = q
    BY <1>11, <1>13, SameAppended
  <2> QED
    BY <1>11, <2>1
<1>14. Child \in Awaited(stack, tree)
  BY <1>2, <1>5, <1>7, <1>12 DEF Awaited, names
<1> QED
  BY <1>1, <1>2, <1>3, <1>4, <1>5, <1>7, <1>9, <1>10, <1>12, <1>13, <1>14 DEF names

LEMMA ScanKeeps ==
  ASSUME BuildInv, Scan
  PROVE  BuildInv'
<1> DEFINE n == Len(stack)
           W == Awaited(stack, tree)
           L == Len(data)
<1>1. AtEntry /\ UNCHANGED <<blob, stage>>
  BY DEF Scan
<1>2. /\ stage = "scan" /\ n \in Nat \ {0} /\ n \in DOMAIN stack /\ stack[n] = Top
      /\ stack \in Seq(CallRecord)
      /\ Grown(tree) /\ Calling(stack, data, tree)
      /\ Top \in CallRecord /\ Top.path \in DOMAIN tree
      /\ Top.i \in Nat /\ Top.i < Len(tree[Top.path].names)
      /\ Top.i + 1 \in 1..Len(tree[Top.path].names)
      /\ Child = Append(Top.path, tree[Top.path].names[Top.i + 1])
      /\ Child \in Seq(Names) /\ Child \notin DOMAIN tree /\ Child # Root
      /\ Child \in W
      /\ \A p \in Seq(Names), m \in Names : Child = Append(p, m) => p \in DOMAIN tree
      /\ DirAt(data, Top.addr + 1) /\ data[Top.addr + 1].stat = Top.path
      /\ data[Top.addr + 1].data_offset = Top.dirents
  BY <1>1, AtEntryIs
<1>3. /\ Tree(data, tree, W) /\ DirAt(data, 2) /\ data[2].stat = Root
      /\ data \in Seq(Cell) /\ L \in Nat
  BY <1>2 DEF BuildInv, Tree, Laid
<1>4. PICK s \in Answers :
        LET cells == data \o Added(Len(data), Child, s)
        IN  /\ Said(Child, s)
            /\ IF s.kind = "dir"
               THEN data' = cells /\ stack' = Append(stack, Call(Child, Len(data), s))
               ELSE data' = SetEntry(cells, Top, Len(data)) /\ stack' = NextEntry(stack)
  BY DEF Scan
<1> DEFINE cells == data \o Added(L, Child, s)
           W2 == W \cup Awaited(stack', tree') \cup {Append(Child, s.names[k]) : k \in 1..Len(s.names)}
<1>5. GoodAnswer(s)
  BY AnswersAreGood
<1>6. tree' = [p \in DOMAIN tree \cup {Child} |-> IF p = Child THEN s ELSE tree[p]]
  BY <1>4 DEF Said
<1>7. DOMAIN tree' = DOMAIN tree \cup {Child} /\ \A p \in DOMAIN tree : tree'[p] = tree[p]
  BY <1>2, <1>6
<1>8. Extending(data, tree, W, Child, s, cells, tree', W2)
  <2>1. W \subseteq W2 /\ \A k \in 1..Len(s.names) : Append(Child, s.names[k]) \in W2
    OBVIOUS
  <2>2. cells = data \o Added(Len(data), Child, s)
    OBVIOUS
  <2> HIDE DEF W, W2, cells
  <2> QED
    BY <1>2, <1>3, <1>5, <1>6, <2>1, <2>2 DEF Extending
<1> HIDE DEF cells, W2
<1>9. /\ Tree(cells, tree', W2)
      /\ Len(cells) = L + AddedLen(s)
      /\ \A k \in DOMAIN data : k \in DOMAIN cells /\ cells[k] = data[k]
      /\ L + 1 \in DOMAIN cells
      /\ cells[L + 1].t = "node" /\ cells[L + 1].stat = Child
      /\ cells[L + 1].kind = s.kind
  BY <1>8, Extended
<1>10. s.kind = "dir" => cells[L + 1].data_offset = L + 1 + XattrsLen(s.xattrs)
  BY <1>8, Extended
<1>11. AddedLen(s) \in Nat /\ XattrsLen(s.xattrs) \in Nat
  BY <1>5, AddedLenTyped
<1>12. Bytes'
  BY <1>1 DEF BuildInv, Bytes
<1>13. ASSUME Len(data') = Len(cells), Tree(data', tree', Awaited(stack', tree')),
              Calling(stack', data', tree'),
              \A j \in DOMAIN data : data[j].t = "node" => j \in DOMAIN data' /\ data'[j] = data[j]
       PROVE  BuildInv'
  <2>2. DirAt(data', 2) /\ data'[2].stat = Root
    BY <1>3, <1>13 DEF DirAt
  <2>3. stage' = "scan"
    BY <1>1, <1>2
  <2> QED
    BY <1>12, <1>13, <2>2, <2>3 DEF BuildInv
<1>14. CASE s.kind = "dir"
  <2> DEFINE call == Call(Child, L, s)
  <2>1. data' = cells /\ stack' = Append(stack, call)
    BY <1>4, <1>14 DEF cells
  <2>2. /\ call.path = Child /\ call.addr = L /\ call.i = 0
        /\ call.dirents = L + 1 + XattrsLen(s.xattrs)
        /\ call \in CallRecord
    <3>1. L + 1 + XattrsLen(s.xattrs) \in Nat
      BY <1>3, <1>11
    <3> QED
      BY <1>2, <1>3, <3>1 DEF Call, CallRecord
  <2> HIDE DEF call, L
  <2>3. DirAt(data', call.addr + 1) /\ data'[call.addr + 1].stat = call.path
        /\ data'[call.addr + 1].data_offset = call.dirents
    BY <1>9, <1>10, <1>14, <2>1, <2>2 DEF DirAt
  <2>4. \A j \in DOMAIN data : data[j].t = "node" => j \in DOMAIN data' /\ data'[j] = data[j]
    BY <1>9, <2>1
  <2>5. Len(stack) > 0 /\ Len(stack) # 0 /\ stack[Len(stack)] = Top
    BY <1>2
  <2>6. Pushing(stack, data, tree, call, s, stack', data', tree')
    BY <1>2, <1>5, <1>6, <2>1, <2>2, <2>3, <2>4, <2>5 DEF Pushing
  <2>7. Calling(stack', data', tree') /\ W \subseteq Awaited(stack', tree')
        /\ \A k \in 1..Len(s.names) : Append(Child, s.names[k]) \in Awaited(stack', tree')
    <3>1. /\ Calling(stack', data', tree') /\ W \subseteq Awaited(stack', tree')
          /\ \A k \in 1..Len(s.names) : Append(call.path, s.names[k]) \in Awaited(stack', tree')
      BY <2>6, Pushed
    <3> QED
      BY <2>2, <3>1
  <2>8. W2 = Awaited(stack', tree')
    BY <2>7 DEF W2
  <2> QED
    BY <1>9, <1>13, <2>1, <2>4, <2>7, <2>8
<1>15. CASE s.kind # "dir"
  <2>1. data' = SetEntry(cells, Top, L) /\ stack' = NextEntry(stack) /\ Len(s.names) = 0
    BY <1>4, <1>5, <1>15 DEF cells, GoodAnswer
  <2>2. /\ Len(stack') = n /\ stack' \in Seq(CallRecord)
        /\ \A l \in 1..(n - 1) : stack'[l] = stack[l]
        /\ stack'[n] = [stack[n] EXCEPT !.i = @ + 1]
    BY <1>2, <2>1, NextEntryIs
  <2>3. \A j \in DOMAIN data : data[j].t = "node" =>
          j \in DOMAIN cells /\ cells[j] = data[j]
    BY <1>9
  <2>4. \A p \in DOMAIN tree' :
          p \in DOMAIN tree \/ p = Append(stack[n].path, tree[stack[n].path].names[stack[n].i + 1])
    BY <1>2, <1>7
  <2>5. /\ DOMAIN tree \subseteq DOMAIN tree' /\ \A p \in DOMAIN tree : tree'[p] = tree[p]
        /\ \A l \in DOMAIN stack : l > n => stack[l].i = Len(tree[stack[l].path].names)
        /\ n <= Len(stack) /\ stack[n].i < Len(tree[stack[n].path].names)
    BY <1>2, <1>7
  <2>6. Advancing(stack, data, tree, n, stack', cells, tree')
    <3> HIDE DEF n
    <3> QED
      BY <1>2, <2>2, <2>3, <2>4, <2>5 DEF Advancing
  <2>7. \A p \in W : p \in Awaited(stack', tree') \/ p = Child
    <3>1. \A p \in Awaited(stack, tree) :
            \/ p \in Awaited(stack', tree')
            \/ p = Append(stack[n].path, tree[stack[n].path].names[stack[n].i + 1])
      BY <2>6, Advanced
    <3> QED
      BY <1>2, <3>1
  <2>8. Setting(cells, tree', W2, Top, L, Awaited(stack', tree'))
    <3>1. tree'[Top.path] = tree[Top.path]
      BY <1>2, <1>7
    <3>2. \A q \in W2 : q \in Awaited(stack', tree') \/ q = Child
      BY <2>1, <2>7 DEF W2
    <3>3. LeadsTo(cells, tree', L, Child)
      BY <1>3, <1>7, <1>9 DEF LeadsTo
    <3>4. DirAt(cells, Top.addr + 1) /\ cells[Top.addr + 1] = data[Top.addr + 1]
      BY <1>2, <1>9 DEF DirAt
    <3> HIDE DEF L
    <3> QED
      BY <1>2, <1>3, <1>9, <3>1, <3>2, <3>3, <3>4 DEF Setting
  <2>9. /\ Tree(data', tree', Awaited(stack', tree')) /\ Len(data') = Len(cells)
        /\ DOMAIN data' = DOMAIN cells
        /\ \A j \in DOMAIN cells : cells[j].t = "node" => data'[j] = cells[j]
    BY <2>1, <2>8, EntrySet
  <2>10. \A j \in DOMAIN data : data[j].t = "node" => j \in DOMAIN data' /\ data'[j] = data[j]
    BY <2>3, <2>9
  <2>11. Advancing(stack, data, tree, n, stack', data', tree')
    <3> HIDE DEF n
    <3> QED
      BY <1>2, <2>2, <2>4, <2>5, <2>10 DEF Advancing
  <2>12. Calling(stack', data', tree')
    BY <2>11, Advanced
  <2> QED
    BY <1>13, <2>9, <2>10, <2>12
<1> QED
  BY <1>14, <1>15

LEMMA VanishKeeps ==
  ASSUME BuildInv, Vanish
  PROVE  BuildInv'
<1> DEFINE n == Len(stack)
           W == Awaited(stack, tree)
<1>1. AtEntry /\ UNCHANGED <<tree, blob, stage>>
      /\ data' = SetEntry(data, Top, 0) /\ stack' = NextEntry(stack)
  BY DEF Vanish
<1>2. /\ stage = "scan" /\ n \in Nat \ {0} /\ n \in DOMAIN stack /\ stack[n] = Top
      /\ stack \in Seq(CallRecord)
      /\ Grown(tree) /\ Calling(stack, data, tree)
      /\ Top.i \in Nat /\ Top.i < Len(tree[Top.path].names)
      /\ Top.i + 1 \in 1..Len(tree[Top.path].names)
      /\ Child = Append(Top.path, tree[Top.path].names[Top.i + 1])
      /\ Child \notin DOMAIN tree
      /\ DirAt(data, Top.addr + 1) /\ data[Top.addr + 1].stat = Top.path
      /\ data[Top.addr + 1].data_offset = Top.dirents
  BY <1>1, AtEntryIs
<1>3. /\ Tree(data, tree, W) /\ DirAt(data, 2) /\ data[2].stat = Root
  BY <1>2 DEF BuildInv
<1>4. /\ Len(stack') = n /\ stack' \in Seq(CallRecord)
      /\ \A l \in 1..(n - 1) : stack'[l] = stack[l]
      /\ stack'[n] = [stack[n] EXCEPT !.i = @ + 1]
  BY <1>1, <1>2, NextEntryIs
<1>5. /\ \A p \in DOMAIN tree : tree[p] = tree[p]
      /\ \A l \in DOMAIN stack : l > n => stack[l].i = Len(tree[stack[l].path].names)
      /\ n <= Len(stack) /\ stack[n].i < Len(tree[stack[n].path].names)
  BY <1>2
<1>6. Advancing(stack, data, tree, n, stack', data, tree)
  <2> HIDE DEF n
  <2> QED
    BY <1>2, <1>4, <1>5 DEF Advancing
<1>7. \A p \in W : p \in Awaited(stack', tree) \/ p = Child
  <2>1. \A p \in Awaited(stack, tree) :
          \/ p \in Awaited(stack', tree)
          \/ p = Append(stack[n].path, tree[stack[n].path].names[stack[n].i + 1])
    BY <1>6, Advanced
  <2> QED
    BY <1>2, <2>1
<1>8. LeadsTo(data, tree, 0, Child)
  BY <1>2 DEF LeadsTo
<1>9. Setting(data, tree, W, Top, 0, Awaited(stack', tree))
  <2> HIDE DEF W
  <2> QED
    BY <1>2, <1>3, <1>7, <1>8 DEF Setting
<1>10. /\ Tree(data', tree, Awaited(stack', tree)) /\ Len(data') = Len(data)
       /\ DOMAIN data' = DOMAIN data
       /\ \A j \in DOMAIN data : data[j].t = "node" => data'[j] = data[j]
  BY <1>1, <1>9, EntrySet
<1>11. Advancing(stack, data, tree, n, stack', data', tree)
  <2>1. \A j \in DOMAIN data : data[j].t = "node" => j \in DOMAIN data' /\ data'[j] = data[j]
    BY <1>10
  <2> HIDE DEF n
  <2> QED
    BY <1>2, <1>4, <1>5, <2>1 DEF Advancing
<1>12. Calling(stack', data', tree)
  BY <1>11, Advanced
<1>13. DirAt(data', 2) /\ data'[2].stat = Root
  BY <1>3, <1>10 DEF DirAt
<1>14. Bytes' /\ tree' = tree /\ stage' = "scan"
  BY <1>1, <1>2, <1>3, <1>10 DEF BuildInv, Bytes
<1> QED
  BY <1>10, <1>12, <1>13, <1>14 DEF BuildInv

LEMMA LeaveKeeps ==
  ASSUME BuildInv, Leave
  PROVE  BuildInv'
<1> DEFINE n == Len(stack)
           W == Awaited(stack, tree)
<1>1. /\ stage = "scan" /\ stack # << >> /\ Top.i = Len(tree[Top.path].names)
      /\ UNCHANGED <<tree, blob>>
  BY DEF Leave
<1>2. /\ Tree(data, tree, W) /\ Calling(stack, data, tree)
      /\ DirAt(data, 2) /\ data[2].stat = Root /\ Grown(tree) /\ data \in Seq(Cell)
  BY <1>1 DEF BuildInv, Tree, Laid
<1>3. stack \in Seq(CallRecord) /\ n \in Nat \ {0} /\ DOMAIN stack = 1..n /\ stack[n] = Top
  BY <1>1, <1>2 DEF Calling, Top
<1>4. \A l \in 1..n : InCall(stack, data, tree, l)
  BY <1>2, <1>3 DEF Calling
<1>5. Bytes' /\ tree' = tree
  BY <1>1, <1>2 DEF BuildInv, Bytes
<1>6. CASE n > 1
  <2> DEFINE m == n - 1
             calls == Front(stack)
             call == stack[m]
  <2>1. /\ calls \in Seq(CallRecord) /\ Len(calls) = m /\ m \in Nat \ {0}
        /\ \A l \in 1..m : calls[l] = stack[l]
    <3>1. /\ Front(stack) \in Seq(CallRecord) /\ Len(Front(stack)) = Len(stack) - 1
          /\ \A l \in 1..(Len(stack) - 1) : Front(stack)[l] = stack[l]
      BY <1>3, <1>6, FrontIs
    <3>2. n - 1 \in Nat \ {0}
      BY <1>3, <1>6
    <3> QED
      BY <3>1, <3>2
  <2>2. /\ data' = SetEntry(data, calls[Len(calls)], Top.addr) /\ stack' = NextEntry(calls)
        /\ UNCHANGED stage
    BY <1>6 DEF Leave
  <2>3. calls[Len(calls)] = call /\ m \in 1..n /\ m < n /\ m + 1 = n /\ m < Len(stack)
    BY <1>3, <2>1
  <2>4. /\ DirAt(data, call.addr + 1) /\ data[call.addr + 1].stat = call.path
        /\ data[call.addr + 1].data_offset = call.dirents
        /\ call.i < Len(tree[call.path].names)
        /\ Top.path = Append(call.path, tree[call.path].names[call.i + 1])
    <3>1. InCall(stack, data, tree, m) /\ stack[m + 1] = Top
      BY <1>3, <1>4, <2>3
    <3> HIDE DEF m
    <3> QED
      BY <2>3, <3>1 DEF InCall
  <2>5. call.i \in Nat /\ Len(tree[call.path].names) \in Nat
    <3>1. m \in DOMAIN stack
      BY <1>3, <2>3
    <3> HIDE DEF m
    <3> QED
      BY <1>2, <3>1, CallNames
  <2>6. call.i + 1 \in 1..Len(tree[call.path].names)
    BY <2>4, <2>5
  <2>7. /\ Top.addr \in Nat /\ Top.path \in DOMAIN tree
        /\ Top.addr + 1 \in DOMAIN data /\ data[Top.addr + 1].t = "node"
        /\ data[Top.addr + 1].stat = Top.path
    <3>1. n \in DOMAIN stack /\ InCall(stack, data, tree, n)
      BY <1>3, <1>4
    <3>2. Top.addr \in Nat
      BY <1>2, <1>3, <3>1, CallNames
    <3> QED
      BY <1>3, <3>1, <3>2 DEF InCall, DirAt
  <2>8. /\ Len(stack') = m /\ stack' \in Seq(CallRecord)
        /\ \A l \in 1..(m - 1) : stack'[l] = stack[l]
        /\ stack'[m] = [stack[m] EXCEPT !.i = @ + 1]
    <3>1. /\ Len(stack') = m /\ stack' \in Seq(CallRecord)
          /\ \A l \in 1..(m - 1) : stack'[l] = calls[l]
          /\ stack'[m] = [calls[m] EXCEPT !.i = @ + 1]
      <4>1. Len(calls) > 0
        BY <2>1
      <4> QED
        BY <2>1, <2>2, <4>1, NextEntryIs
    <3>2. \A l \in 1..(m - 1) : l \in 1..m
      BY <2>1
    <3> QED
      BY <2>1, <2>3, <3>1, <3>2
  <2>9. /\ \A l \in DOMAIN stack : l > m => stack[l].i = Len(tree[stack[l].path].names)
        /\ m <= Len(stack) /\ stack[m].i < Len(tree[stack[m].path].names)
    <3>1. ASSUME NEW l \in DOMAIN stack, l > m
          PROVE  stack[l].i = Len(tree[stack[l].path].names)
      <4>1. l = n
        BY <1>3, <3>1
      <4> QED
        BY <1>1, <1>3, <4>1
    <3> QED
      BY <2>3, <2>4, <3>1
  <2> HIDE DEF m
  <2>10. Advancing(stack, data, tree, m, stack', data, tree)
    BY <1>2, <2>1, <2>8, <2>9 DEF Advancing
  <2>11. \A p \in W : p \in Awaited(stack', tree)
                      \/ p = Append(call.path, tree[call.path].names[call.i + 1])
    BY <2>10, Advanced
  <2>12. LeadsTo(data, tree, Top.addr, Append(call.path, tree[call.path].names[call.i + 1]))
    BY <2>4, <2>7 DEF LeadsTo
  <2> HIDE DEF calls, call, W
  <2>13. Setting(data, tree, W, call, Top.addr, Awaited(stack', tree))
    BY <1>2, <2>4, <2>5, <2>6, <2>7, <2>11, <2>12 DEF Setting
  <2>14. /\ Tree(data', tree, Awaited(stack', tree)) /\ Len(data') = Len(data)
         /\ DOMAIN data' = DOMAIN data
         /\ \A j \in DOMAIN data : data[j].t = "node" => data'[j] = data[j]
    BY <2>2, <2>3, <2>13, EntrySet
  <2>15. Advancing(stack, data, tree, m, stack', data', tree)
    <3>1. \A j \in DOMAIN data : data[j].t = "node" => j \in DOMAIN data' /\ data'[j] = data[j]
      BY <2>14
    <3> QED
      BY <1>2, <2>1, <2>8, <2>9, <3>1 DEF Advancing
  <2>16. Calling(stack', data', tree)
    BY <2>15, Advanced
  <2>17. DirAt(data', 2) /\ data'[2].stat = Root
    BY <1>2, <2>14 DEF DirAt
  <2>18. stage' = "scan"
    BY <1>1, <2>2
  <2> QED
    BY <1>5, <2>14, <2>16, <2>17, <2>18 DEF BuildInv
<1>7. CASE ~(n > 1)
  <2>1. data' = [data EXCEPT ![1] = Header(Len(data))] /\ stack' = << >> /\ stage' = "place"
    BY <1>7 DEF Leave
  <2>2. n = 1
    BY <1>3, <1>7
  <2>3. W = {}
    <3>1. ASSUME NEW p \in W
          PROVE  FALSE
      <4>1. PICK l \in DOMAIN stack : \E k \in (stack[l].i + 1)..Len(tree[stack[l].path].names) :
              p = Append(stack[l].path, tree[stack[l].path].names[k])
        BY <3>1 DEF Awaited
      <4>2. l = n
        BY <1>3, <2>2, <4>1
      <4>3. PICK k : k \in (Top.i + 1)..Len(tree[Top.path].names)
        BY <1>3, <4>1, <4>2
      <4>4. Top.i \in Nat /\ Len(tree[Top.path].names) \in Nat
        BY <1>2, <1>3, <4>2, CallNames
      <4> QED
        BY <1>1, <4>3, <4>4
    <3> QED
      BY <3>1
  <2>4. Awaited(stack', tree') = {}
    BY <2>1 DEF Awaited
  <2> DEFINE x == Header(Len(data))
  <2>5. Touching(data, tree, W, 1, x, data')
    <3>1. x \in Cell /\ x.t = "header"
      BY <1>2 DEF Header, Cell, PlainCell
    <3>2. 1 \in DOMAIN data /\ data[1].t = "header"
      BY <1>2 DEF Tree, Laid
    <3> HIDE DEF x, W
    <3>3. data' = [data EXCEPT ![1] = x]
      BY <2>1 DEF x
    <3> QED
      BY <1>2, <3>1, <3>2, <3>3 DEF Touching
  <2>6. /\ Tree(data', tree, W) /\ Len(data') = Len(data) /\ DOMAIN data' = DOMAIN data
        /\ \A j \in DOMAIN data : j # 1 => data'[j] = data[j]
    BY <2>5, Touched
  <2>7. Calling(stack', data', tree')
    BY <2>1 DEF Calling
  <2>8. DirAt(data', 2) /\ data'[2].stat = Root
    BY <1>2, <2>6 DEF DirAt
  <2>10. Tree(data', tree', Awaited(stack', tree'))
    BY <1>5, <2>3, <2>4, <2>6
  <2> QED
    BY <1>5, <2>1, <2>7, <2>8, <2>10 DEF BuildInv
<1> QED
  BY <1>6, <1>7

(* A file, or the root, is changed in its place.                           *)
LEMMA PlaceTouches ==
  ASSUME BuildInv, stage = "place", NEW i, NEW x, UNCHANGED <<tree, stack, stage>>,
         Bytes', data' = [data EXCEPT ![i] = x],
         i \in DOMAIN data => Touching(data, tree, Awaited(stack, tree), i, x, data')
  PROVE  BuildInv'
<1>1. /\ Tree(data, tree, Awaited(stack, tree))
      /\ DirAt(data, 2) /\ data[2].stat = Root /\ data \in Seq(Cell) /\ stack = << >>
  BY DEF BuildInv, Tree, Laid
<1>2. CASE i \in DOMAIN data
  <2>1. /\ Tree(data', tree, Awaited(stack, tree)) /\ Len(data') = Len(data)
        /\ DOMAIN data' = DOMAIN data
        /\ data'[i] = x /\ \A j \in DOMAIN data : j # i => data'[j] = data[j]
    BY <1>2, Touched
  <2>2. data'[2].t = "node" /\ data'[2].kind = "dir" /\ data'[2].stat = Root
    <3>1. CASE i = 2
      <4>1. /\ x.t = data[i].t
            /\ x.t = "node" => x.stat = data[i].stat /\ x.kind = data[i].kind
        BY <1>2 DEF Touching
      <4> QED
        BY <1>1, <2>1, <3>1, <4>1 DEF DirAt
    <3>2. CASE i # 2
      BY <1>1, <2>1, <3>2 DEF DirAt
    <3> QED
      BY <3>1, <3>2
  <2>3. DirAt(data', 2) /\ data'[2].stat = Root
    BY <1>1, <2>1, <2>2 DEF DirAt
  <2>4. Calling(stack', data', tree')
    BY <1>1 DEF Calling
  <2> QED
    BY <1>1, <2>1, <2>3, <2>4 DEF BuildInv
<1>3. CASE i \notin DOMAIN data
  <2>1. data' = data
    BY <1>1, <1>3
  <2>2. Calling(stack', data', tree')
    BY <1>1, <2>1 DEF Calling
  <2> QED
    BY <1>1, <2>1, <2>2 DEF BuildInv
<1> QED
  BY <1>2, <1>3

LEMMA BytesGrow ==
  ASSUME Bytes, NEW T, NEW t \in Seq(T), blob' = blob \o t
  PROVE  Bytes'
<1>1. PICK S : blob \in Seq(S)
  BY DEF Bytes
<1>2. blob \in Seq(S \cup T) /\ t \in Seq(S \cup T)
  BY <1>1
<1>3. blob' \in Seq(S \cup T)
  BY <1>2
<1> QED
  BY <1>3 DEF Bytes

(* What is read of a file.                                                 *)
LEMMA ContentIs ==
  ASSUME NEW path, NEW n \in Nat
  PROVE  LET t == [k \in 1..n |-> Content(path, k)]
         IN  /\ t \in Seq({t[k] : k \in 1..n}) /\ Len(t) = n
             /\ \A k \in 1..n : t[k] = Content(path, k)
<1> DEFINE t == [k \in 1..n |-> Content(path, k)]
           T == {t[k] : k \in 1..n}
<1>1. \A k \in 1..n : t[k] \in T
  OBVIOUS
<1>2. t = [k \in 1..n |-> t[k]] /\ \A k \in 1..n : t[k] = Content(path, k)
  OBVIOUS
<1> HIDE DEF T, t
<1>3. t \in [1..n -> T]
  BY ONLY <1>1, <1>2
<1>4. t \in Seq(T) /\ Len(t) = n
  BY ONLY <1>3, n \in Nat
<1> QED
  BY <1>2, <1>4 DEF T, t

(* What a vanished entry leads to: nothing, or the root is written over    *)
(* and something may be put into the image.                                *)
LEMMA HeaderWrites ==
  ASSUME BuildInv, PlaceHeader
  PROVE  \/ UNCHANGED <<data, blob>> /\ stage' \in {stage, "dead"}
         \/ \E length \in Int : \E xattrs, n \in Nat :
              SetRoot(length, xattrs) /\ UNCHANGED stage
              /\ blob' = blob \o [k \in 1..n |-> Content(First.path, k)]
<1>1. Wrap - 1 \in Int /\ 0 \in Nat /\ 0..1 \subseteq Nat /\ Lengths \subseteq Nat
  BY CellsAssumption, LengthsAssumption
<1>2. Len(data) + Len(blob) \in Int
  <2>1. PICK S : blob \in Seq(S)
    BY DEF BuildInv, Bytes
  <2>2. data \in Seq(Cell)
    BY DEF BuildInv, Tree, Laid
  <2> QED
    BY <2>1, <2>2
<1>3. CASE UNCHANGED <<data, blob>> /\ stage' \in {stage, "dead"}
  BY <1>3
<1>4. CASE /\ \E n \in 0..1 :
                SetRoot(Wrap - 1, 0) /\ blob' = blob \o [k \in 1..n |-> Content(First.path, k)]
           /\ UNCHANGED stage
  BY <1>1, <1>4
<1>5. CASE /\ \E n \in Lengths :
                /\ SetRoot(Len(data) + Len(blob), n)
                /\ blob' = blob \o [k \in 1..n |-> Content(First.path, k)]
           /\ UNCHANGED stage
  BY <1>1, <1>2, <1>5
<1> QED
  BY <1>3, <1>4, <1>5 DEF PlaceHeader

Overwritten(c, length, xattrs) == [c EXCEPT !.length = length, !.xattrs_count = xattrs]

LEMMA RootTouched ==
  ASSUME NEW W, Tree(data, tree, W), DirAt(data, 2), NEW length \in Int, NEW xattrs \in Nat,
         SetRoot(length, xattrs)
  PROVE  LET x == Overwritten(data[2], length, xattrs)
         IN  /\ data' = [data EXCEPT ![2] = x] /\ Touching(data, tree, W, 2, x, data')
             /\ x.t = "node" /\ x.stat = data[2].stat /\ x.kind = data[2].kind
<1> DEFINE c == data[2]
           x == Overwritten(c, length, xattrs)
<1>1. c \in NodeCell /\ 2 \in DOMAIN data /\ data \in Seq(Cell)
  <2>1. c \in Cell /\ c.t = "node" /\ 2 \in DOMAIN data /\ data \in Seq(Cell)
    BY DEF DirAt, Tree, Laid
  <2> QED
    BY <2>1, CellsDiffer
<1>2. data' = [data EXCEPT ![2] = x]
  BY DEF SetRoot, Overwritten
<1> HIDE DEF c
<1>3. x \in NodeCell /\ x.stat = c.stat /\ x.kind = c.kind /\ x.data_offset = c.data_offset
  BY <1>1 DEF NodeCell, Overwritten
<1> HIDE DEF x
<1>4. x \in Cell /\ x.t = "node" /\ c.t = "node"
  BY <1>1, <1>3 DEF Cell, NodeCell
<1>5. Touching(data, tree, W, 2, x, data')
  BY <1>1, <1>2, <1>3, <1>4 DEF Touching, c
<1> QED
  BY <1>2, <1>3, <1>4, <1>5 DEF c, x

Placed(c, to, length) == [c EXCEPT !.data_offset = to, !.length = length]

LEMMA PlacedIs ==
  ASSUME NEW c \in NodeCell, NEW to \in Int, NEW length \in Int
  PROVE  LET x == Placed(c, to, length)
         IN  x \in NodeCell /\ x.t = "node" /\ x.stat = c.stat /\ x.kind = c.kind
BY DEF NodeCell, Placed

(* What is read of a file: it goes behind the rest, and its node says      *)
(* where, or nothing.                                                      *)
LEMMA PlacedKeeps ==
  ASSUME BuildInv, Turn, Taken.t = "node", Taken.kind = "file",
         NEW to \in Int, NEW length \in Nat, NEW n \in Nat,
         data' = [data EXCEPT ![First.at + 1] = [@ EXCEPT !.data_offset = to, !.length = length]],
         blob' = blob \o [k \in 1..n |-> Content(First.path, k)],
         UNCHANGED <<tree, stack, stage>>
  PROVE  BuildInv'
<1> DEFINE i == First.at + 1
           x == [data[i] EXCEPT !.data_offset = to, !.length = length]
           t == [k \in 1..n |-> Content(First.path, k)]
<1>1. stage = "place" /\ Bytes /\ Tree(data, tree, Awaited(stack, tree)) /\ data \in Seq(Cell)
  BY DEF BuildInv, Turn, Tree, Laid
<1>2. Bytes'
  <2>1. t \in Seq({t[k] : k \in 1..n})
    BY ContentIs
  <2> HIDE DEF t
  <2>2. blob' = blob \o t
    BY DEF t
  <2> QED
    BY <1>1, <2>1, <2>2, BytesGrow
<1>3. data' = [data EXCEPT ![i] = x]
  OBVIOUS
<1>4. ASSUME i \in DOMAIN data
      PROVE  Touching(data, tree, Awaited(stack, tree), i, x, data')
  <2> DEFINE c == data[i]
  <2>1. c \in Cell /\ c.t = "node" /\ c.kind = "file"
    BY <1>1, <1>4 DEF Taken
  <2>2. c \in NodeCell
    BY <2>1, CellsDiffer
  <2> HIDE DEF c
  <2>3. LET y == Placed(c, to, length)
        IN  y \in NodeCell /\ y.t = "node" /\ y.stat = c.stat /\ y.kind = c.kind
    <3>1. to \in Int /\ length \in Int
      OBVIOUS
    <3> QED
      BY ONLY <2>2, <3>1, PlacedIs
  <2>4. x = Placed(c, to, length)
    BY DEF c, Placed
  <2> HIDE DEF x, i
  <2>5. x \in Cell /\ x.t = "node" /\ x.stat = data[i].stat /\ x.kind = data[i].kind
        /\ x.kind = "file" /\ data[i].t = "node"
    BY <2>1, <2>3, <2>4 DEF c, Cell
  <2> QED
    BY <1>1, <1>3, <1>4, <2>5 DEF Touching
<1> HIDE DEF x, i
<1> QED
  BY <1>1, <1>2, <1>3, <1>4, PlaceTouches

LEMMA PlaceKeeps ==
  ASSUME BuildInv, PlaceFile \/ DenyFile
  PROVE  BuildInv'
<1>1. CASE PlaceFile
  <2>1. PICK n \in Lengths :
          /\ data' = [data EXCEPT ![First.at + 1] =
                        [@ EXCEPT !.data_offset = Len(data) + Len(blob), !.length = n]]
          /\ blob' = blob \o [k \in 1..n |-> Content(First.path, k)]
    BY <1>1 DEF PlaceFile
  <2>2. n \in Nat
    BY LengthsAssumption
  <2>3. Len(data) + Len(blob) \in Int
    <3>1. PICK S : blob \in Seq(S)
      BY DEF BuildInv, Bytes
    <3>2. data \in Seq(Cell)
      BY DEF BuildInv, Tree, Laid
    <3> QED
      BY <3>1, <3>2
  <2>4. Turn /\ Taken.t = "node" /\ Taken.kind = "file"
        /\ UNCHANGED <<tree, stack, stage>>
    BY <1>1 DEF PlaceFile
  <2> QED
    BY <2>1, <2>2, <2>3, <2>4, PlacedKeeps
<1>2. CASE DenyFile
  <2>1. PICK n \in 0..1 : blob' = blob \o [k \in 1..n |-> Content(First.path, k)]
    BY <1>2 DEF DenyFile
  <2>2. n \in Nat /\ Wrap - 1 \in Int /\ 0 \in Nat
    BY CellsAssumption
  <2>3. /\ Turn /\ Taken.t = "node" /\ Taken.kind = "file"
        /\ UNCHANGED <<tree, stack, stage>>
        /\ data' = [data EXCEPT ![First.at + 1] =
                      [@ EXCEPT !.data_offset = Wrap - 1, !.length = 0]]
    BY <1>2 DEF DenyFile
  <2> QED
    BY <2>1, <2>2, <2>3, PlacedKeeps
<1> QED
  BY <1>1, <1>2

LEMMA PlaceHeaderKeeps ==
  ASSUME BuildInv, PlaceHeader
  PROVE  BuildInv'
<1>1. /\ stage = "place" /\ Tree(data, tree, Awaited(stack, tree)) /\ DirAt(data, 2)
      /\ Bytes /\ UNCHANGED <<tree, stack>>
  BY DEF BuildInv, PlaceHeader, Turn
<1>2. CASE UNCHANGED <<data, blob>> /\ stage' \in {stage, "dead"}
  <2>1. stack = << >> /\ stage' \in {"place", "dead"} /\ stack' = << >>
    BY <1>1, <1>2 DEF BuildInv
  <2>2. Bytes'
    BY <1>1, <1>2 DEF Bytes
  <2> QED
    BY <1>1, <1>2, <2>1, <2>2 DEF BuildInv
<1>3. ASSUME NEW length \in Int, NEW xattrs \in Nat, NEW n \in Nat,
             SetRoot(length, xattrs), UNCHANGED stage,
             blob' = blob \o [k \in 1..n |-> Content(First.path, k)]
      PROVE  BuildInv'
  <2> DEFINE t == [k \in 1..n |-> Content(First.path, k)]
             x == Overwritten(data[2], length, xattrs)
  <2>1. t \in Seq({t[k] : k \in 1..n})
    BY ContentIs
  <2>2. blob' = blob \o t
    BY <1>3
  <2> HIDE DEF t
  <2>3. Bytes'
    BY <1>1, <2>1, <2>2, BytesGrow
  <2>4. data' = [data EXCEPT ![2] = x] /\ Touching(data, tree, Awaited(stack, tree), 2, x, data')
    BY <1>1, <1>3, RootTouched
  <2> HIDE DEF x
  <2> QED
    BY <1>1, <1>3, <2>3, <2>4, PlaceTouches
<1> QED
  BY <1>2, <1>3, HeaderWrites

LEMMA BuildKeeps ==
  ASSUME BuildInv, BuildNext
  PROVE  BuildInv'
<1>1. CASE PlaceDir \/ PlaceLink
  <2>1. UNCHANGED <<tree, data, stack, blob, stage>>
    BY <1>1 DEF PlaceDir, PlaceLink
  <2> QED
    BY <2>1 DEF BuildInv, Bytes
<1>2. CASE WriteMeta
  <2>1. UNCHANGED <<tree, data, stack, blob>> /\ stage = "place" /\ stage' = "built"
    BY <1>2 DEF WriteMeta
  <2> QED
    BY <2>1 DEF BuildInv, Bytes
<1> QED
  BY <1>1, <1>2, ScanRootKeeps, ScanKeeps, VanishKeeps, LeaveKeeps, PlaceKeeps, PlaceHeaderKeeps
     DEF BuildNext
----------------------------------------------------------------------------
(* What the requests of a mounted file system need of the image besides:   *)
(* every path that was scanned is that of an entry listed in a directory,  *)
(* and so is all that it begins with; no entry leads behind the end; and   *)
(* the header has the length.                                              *)
Begun(p, n) == SubSeq(p, 1, n)

Rooted(tr) ==
  \A p \in DOMAIN tr : \A n \in 0..(Len(p) - 1) :
    /\ Begun(p, n) \in DOMAIN tr
    /\ \E k \in 1..Len(tr[Begun(p, n)].names) : tr[Begun(p, n)].names[k] = p[n + 1]

Inside(cells) ==
  \A j \in DOMAIN cells : cells[j].t = "entry" => cells[j].data_offset < Len(cells)

Measured == stage \notin {"root", "scan"} => data[1] = Header(Len(data))

ImageInv == BuildInv /\ Rooted(tree) /\ Inside(data) /\ Measured

LEMMA Beginnings ==
  ASSUME NEW p \in Seq(Names)
  PROVE  /\ Begun(p, 0) = Root /\ Begun(p, Len(p)) = p
         /\ \A n \in 0..Len(p) : Begun(p, n) \in Seq(Names) /\ Len(Begun(p, n)) = n
         /\ \A n \in 0..(Len(p) - 1) :
              p[n + 1] \in Names /\ Begun(p, n + 1) = Append(Begun(p, n), p[n + 1])
<1>1. Len(p) \in Nat /\ \A j \in 1..Len(p) : p[j] \in Names
  OBVIOUS
<1>2. ASSUME NEW n \in 0..Len(p)
      PROVE  /\ Begun(p, n) \in Seq(Names) /\ Len(Begun(p, n)) = n
             /\ \A j \in 1..n : Begun(p, n)[j] = p[j]
  BY <1>1 DEF Begun
<1>3. ASSUME NEW n \in 0..(Len(p) - 1)
      PROVE  p[n + 1] \in Names /\ Begun(p, n + 1) = Append(Begun(p, n), p[n + 1])
  <2>1. n \in 0..Len(p) /\ n + 1 \in 0..Len(p) /\ n + 1 \in 1..Len(p) /\ n \in Nat
    BY <1>1
  <2> DEFINE q == Begun(p, n)
             r == Begun(p, n + 1)
             m == p[n + 1]
  <2>2. /\ q \in Seq(Names) /\ Len(q) = n /\ \A j \in 1..n : q[j] = p[j]
        /\ r \in Seq(Names) /\ Len(r) = n + 1 /\ \A j \in 1..(n + 1) : r[j] = p[j]
        /\ m \in Names
    BY <1>1, <1>2, <2>1
  <2> HIDE DEF q, r
  <2>3. r = Append(q, m)
    <3>1. /\ Append(q, m) \in Seq(Names) /\ Len(Append(q, m)) = n + 1
          /\ Append(q, m)[n + 1] = m /\ \A j \in 1..n : Append(q, m)[j] = q[j]
      BY <2>2
    <3>2. \A j \in 1..(n + 1) : r[j] = Append(q, m)[j]
      <4>1. \A j \in 1..(n + 1) : j \in 1..n \/ j = n + 1
        BY <2>1
      <4> QED
        BY <2>2, <3>1, <4>1
    <3>3. r = [j \in 1..(n + 1) |-> r[j]] /\ Append(q, m) = [j \in 1..(n + 1) |-> Append(q, m)[j]]
      BY <2>2, <3>1
    <3> QED
      BY <3>2, <3>3
  <2> QED
    BY <2>2, <2>3 DEF q, r
<1>4. Begun(p, 0) = Root
  BY <1>1 DEF Begun, Root
<1>5. Begun(p, Len(p)) = p
  <2> DEFINE q == Begun(p, Len(p))
  <2>1. q \in Seq(Names) /\ Len(q) = Len(p) /\ \A j \in 1..Len(p) : q[j] = p[j]
    BY <1>1, <1>2
  <2> HIDE DEF q
  <2>2. q = [j \in 1..Len(p) |-> q[j]] /\ p = [j \in 1..Len(p) |-> p[j]]
    BY <2>1
  <2>3. q = p
    BY <2>1, <2>2
  <2> QED
    BY <2>3 DEF q
<1> QED
  BY <1>2, <1>3, <1>4, <1>5

LEMMA BegunAppend ==
  ASSUME NEW p \in Seq(Names), NEW m \in Names, NEW n \in 0..Len(p)
  PROVE  /\ Begun(Append(p, m), n) = Begun(p, n)
         /\ n < Len(p) => Append(p, m)[n + 1] = p[n + 1]
         /\ n = Len(p) => Begun(Append(p, m), n) = p /\ Append(p, m)[n + 1] = m
<1> DEFINE q == Append(p, m)
<1>1. /\ q \in Seq(Names) /\ Len(q) = Len(p) + 1 /\ Len(p) \in Nat
      /\ q[Len(p) + 1] = m /\ \A j \in 1..Len(p) : q[j] = p[j]
  OBVIOUS
<1> HIDE DEF q
<1>2. Begun(p, n) = [j \in 1..n |-> p[j]] /\ Begun(q, n) = [j \in 1..n |-> q[j]]
  BY <1>1 DEF Begun
<1>3. \A j \in 1..n : q[j] = p[j]
  BY <1>1
<1>4. Begun(q, n) = Begun(p, n)
  BY <1>2, <1>3
<1>5. n < Len(p) => q[n + 1] = p[n + 1]
  BY <1>1
<1>6. n = Len(p) => Begun(q, n) = p /\ q[n + 1] = m
  BY <1>1, <1>4, Beginnings
<1> QED
  BY <1>4, <1>5, <1>6 DEF q


LEMMA EntrySetInside ==
  ASSUME NEW cells \in Seq(Cell), NEW call, NEW to \in Int, SetEntry(cells, call, to) \in Seq(Cell),
         Inside(cells), to < Len(cells)
  PROVE  Inside(SetEntry(cells, call, to))
<1> DEFINE i == call.dirents + call.i + 1
           cells2 == SetEntry(cells, call, to)
<1>1. cells2 = [cells EXCEPT ![i] = [@ EXCEPT !.data_offset = to]]
  BY DEF SetEntry
<1>2. cells2 \in Seq(Cell)
  OBVIOUS
<1> HIDE DEF i, cells2
<1>3. DOMAIN cells2 = DOMAIN cells /\ Len(cells2) = Len(cells)
  <2>1. DOMAIN cells2 = DOMAIN cells
    BY <1>1
  <2>2. /\ Len(cells) \in Nat /\ DOMAIN cells = 1..Len(cells)
        /\ Len(cells2) \in Nat /\ DOMAIN cells2 = 1..Len(cells2)
    BY <1>2
  <2>3. ASSUME NEW m \in Nat, NEW n \in Nat, 1..m = 1..n
        PROVE  m = n
    <3>1. m > n => m \in 1..m /\ m \notin 1..n
      OBVIOUS
    <3>2. n > m => n \in 1..n /\ n \notin 1..m
      OBVIOUS
    <3> QED
      BY <2>3, <3>1, <3>2
  <2> QED
    BY <2>1, <2>2, <2>3
<1>4. ASSUME NEW j \in DOMAIN cells2, cells2[j].t = "entry"
      PROVE  cells2[j].data_offset < Len(cells2)
  <2>1. CASE j # i
    BY <1>1, <1>3, <1>4, <2>1 DEF Inside
  <2>2. CASE j = i
    <3> DEFINE c == cells[i]
    <3>1. c \in Cell /\ cells2[j] = [c EXCEPT !.data_offset = to]
      BY <1>1, <1>3, <2>2
    <3>2. c \in EntryCell
      <4>1. c.t = "entry"
        BY <1>4, <3>1 DEF Cell, NodeCell, EntryCell, PlainCell
      <4> QED
        BY <3>1, <4>1, CellsDiffer
    <3> HIDE DEF c
    <3>3. cells2[j].data_offset = to
      BY <3>1, <3>2 DEF EntryCell
    <3> QED
      BY <1>3, <3>3
  <2> QED
    BY <2>1, <2>2
<1> QED
  BY <1>4 DEF Inside, cells2

LEMMA AddedInside ==
  ASSUME NEW cells \in Seq(Cell), NEW here \in Seq(Names), NEW s, GoodAnswer(s), Inside(cells)
  PROVE  LET cells2 == cells \o Added(Len(cells), here, s)
         IN  /\ cells2 \in Seq(Cell) /\ Inside(cells2) /\ Len(cells2) > Len(cells)
             /\ \A k \in 1..Len(cells) : cells2[k] = cells[k]
<1> DEFINE L == Len(cells)
           add == Added(L, here, s)
           cells2 == cells \o add
<1>1. L \in Nat /\ DOMAIN cells = 1..L
  OBVIOUS
<1>2. Laying(L, here, s, add)
  BY <1>1, AddedIs
<1>3. Len(s.names) \in Nat /\ Len(s.xattrs) \in Nat
  BY NamesDiffer
<1> HIDE DEF add
<1>4. add \in Seq(Cell) /\ Len(add) \in Nat /\ Len(add) >= 1 + 3 * Len(s.xattrs) + 2 * Len(s.names)
      /\ add[1].t = "node"
      /\ \A k \in 2..Len(add) : add[k].t = "entry" =>
           add[k].data_offset \in {Uninit} \cup L..(L + Len(add) - 1)
  BY <1>2 DEF Laying
<1>5. Len(add) >= 1
  <2> DEFINE n == Len(s.names)
             x == Len(s.xattrs)
             l == Len(add)
  <2>1. n \in Nat /\ x \in Nat /\ l \in Nat /\ l >= 1 + 3 * x + 2 * n
    BY <1>3, <1>4
  <2> HIDE DEF n, x, l
  <2>2. l >= 1
    BY ONLY <2>1
  <2> QED
    BY <2>2 DEF l
<1>6. /\ cells2 \in Seq(Cell) /\ Len(cells2) = L + Len(add)
      /\ \A k \in 1..L : cells2[k] = cells[k]
      /\ \A k \in 1..Len(add) : cells2[L + k] = add[k]
  BY <1>4, Joined
<1> HIDE DEF cells2, L
<1>7. ASSUME NEW j \in DOMAIN cells2, cells2[j].t = "entry"
      PROVE  cells2[j].data_offset < Len(cells2)
  <2>1. j \in 1..(L + Len(add))
    BY <1>6
  <2>2. CASE j \in 1..L
    <3>1. cells[j].t = "entry" /\ cells2[j] = cells[j]
      BY <1>6, <1>7, <2>2
    <3>2. cells[j].data_offset < L /\ cells[j] \in Cell
      BY <1>1, <2>2, <3>1 DEF Inside, L
    <3>3. cells[j].data_offset \in Int
      BY <3>1, <3>2, CellsDiffer DEF EntryCell
    <3> QED
      BY <1>1, <1>4, <1>6, <3>1, <3>2, <3>3
  <2>3. CASE j = L + 1
    BY <1>1, <1>4, <1>5, <1>6, <1>7, <2>3
  <2>4. CASE j \in (L + 2)..(L + Len(add))
    <3>1. j - L \in 2..Len(add) /\ j - L \in 1..Len(add) /\ L + (j - L) = j
      BY <1>1, <1>4, <2>4
    <3>2. cells2[j] = add[j - L]
      BY <1>6, <3>1
    <3>3. cells2[j].data_offset \in {Uninit} \cup L..(L + Len(add) - 1)
      BY <1>4, <1>7, <3>1, <3>2
    <3> QED
      BY <1>1, <1>4, <1>6, <3>3 DEF Uninit
  <2> QED
    BY <1>1, <2>1, <2>2, <2>3, <2>4
<1>8. Len(cells2) > L
  BY <1>1, <1>4, <1>5, <1>6
<1> QED
  BY <1>6, <1>7, <1>8 DEF Inside, cells2, add, L

(* A path below one of the tree is added to it.                            *)
Adding(tr, here, s, tr2) ==
  /\ Rooted(tr) /\ Grown(tr) /\ here \in Seq(Names) /\ here \notin DOMAIN tr
  /\ \/ here = Root
     \/ \E q \in DOMAIN tr : \E i \in 1..Len(tr[q].names) : here = Append(q, tr[q].names[i])
  /\ tr2 = [p \in DOMAIN tr \cup {here} |-> IF p = here THEN s ELSE tr[p]]

LEMMA Rooting ==
  ASSUME NEW tr, NEW here, NEW s, NEW tr2, Adding(tr, here, s, tr2)
  PROVE  Rooted(tr2)
<1>0. /\ Rooted(tr) /\ Grown(tr) /\ here \in Seq(Names) /\ here \notin DOMAIN tr
      /\ \/ here = Root
         \/ \E q \in DOMAIN tr : \E i \in 1..Len(tr[q].names) : here = Append(q, tr[q].names[i])
      /\ tr2 = [p \in DOMAIN tr \cup {here} |-> IF p = here THEN s ELSE tr[p]]
  BY DEF Adding
<1> USE <1>0
<1>1. DOMAIN tr2 = DOMAIN tr \cup {here} /\ \A p \in DOMAIN tr : tr2[p] = tr[p]
  OBVIOUS
<1> DEFINE Below(p, n, t) ==
             /\ Begun(p, n) \in DOMAIN t
             /\ \E k \in 1..Len(t[Begun(p, n)].names) : t[Begun(p, n)].names[k] = p[n + 1]
<1>2. ASSUME NEW p, NEW n, Below(p, n, tr)
      PROVE  Below(p, n, tr2)
  BY <1>1, <1>2
<1>3. \A p \in DOMAIN tr : \A n \in 0..(Len(p) - 1) : Below(p, n, tr)
  BY DEF Rooted
<1>4. ASSUME NEW n \in 0..(Len(here) - 1)
      PROVE  Below(here, n, tr)
  <2>1. CASE here = Root
    BY <1>4, <2>1 DEF Root
  <2>2. CASE here # Root
    <3>1. PICK q \in DOMAIN tr : \E i \in 1..Len(tr[q].names) : here = Append(q, tr[q].names[i])
      BY <2>2
    <3>2. PICK i \in 1..Len(tr[q].names) : here = Append(q, tr[q].names[i])
      BY <3>1
    <3> DEFINE m == tr[q].names[i]
    <3>3. q \in Seq(Names) /\ GoodAnswer(tr[q])
      BY DEF Grown
    <3>4. m \in Names
      BY <3>3, NamesDiffer
    <3>5. here = Append(q, m)
      BY <3>2
    <3>6. \E k \in 1..Len(tr[q].names) : tr[q].names[k] = m
      OBVIOUS
    <3> HIDE DEF m
    <3>7. Len(here) = Len(q) + 1 /\ Len(q) \in Nat /\ n \in 0..Len(q)
      BY <3>3, <3>4, <3>5
    <3>8. CASE n < Len(q)
      <4>1. Begun(here, n) = Begun(q, n) /\ here[n + 1] = q[n + 1]
        BY <3>3, <3>4, <3>5, <3>7, <3>8, BegunAppend
      <4>2. n \in 0..(Len(q) - 1)
        BY <3>7, <3>8
      <4>3. Below(q, n, tr)
        BY <1>3, <4>2
      <4> QED
        BY <4>1, <4>3
    <3>9. CASE n = Len(q)
      <4>1. Begun(here, n) = q /\ here[n + 1] = m
        BY <3>3, <3>4, <3>5, <3>7, <3>9, BegunAppend
      <4> QED
        BY <3>6, <4>1
    <3> QED
      BY <3>7, <3>8, <3>9
  <2> QED
    BY <2>1, <2>2
<1> HIDE DEF Below
<1>5. \A p \in DOMAIN tr2 : \A n \in 0..(Len(p) - 1) : Below(p, n, tr2)
  BY <1>1, <1>2, <1>3, <1>4
<1> QED
  BY <1>5 DEF Rooted, Below

(* Steps of a build keep it.                                               *)
LEMMA ImageInitKeeps == BuildInit => ImageInv
<1> SUFFICES ASSUME BuildInit
             PROVE  ImageInv
  OBVIOUS
<1>1. tree = << >> /\ data = <<Header(Uninit)>> /\ stage = "root"
  BY DEF BuildInit
<1>2. Inside(data)
  BY <1>1 DEF Inside, Header
<1> QED
  BY <1>1, <1>2, BuildInitKeeps DEF ImageInv, Rooted, Measured

LEMMA ScanRootImage ==
  ASSUME ImageInv, ScanRoot
  PROVE  Rooted(tree') /\ Inside(data') /\ Measured'
<1>1. /\ BuildInv /\ Rooted(tree) /\ Inside(data) /\ stage = "root" /\ tree = << >> /\ stage' = "scan"
      /\ data \in Seq(Cell) /\ Grown(tree)
  BY DEF ImageInv, ScanRoot, BuildInv, Tree, Laid
<1>2. PICK s \in Answers : Said(Root, s) /\ data' = data \o Added(Len(data), Root, s)
  BY DEF ScanRoot
<1>3. GoodAnswer(s)
  BY AnswersAreGood
<1>4. Root \in Seq(Names) /\ Root \notin DOMAIN tree
  BY <1>1 DEF Root
<1>5. tree' = [p \in DOMAIN tree \cup {Root} |-> IF p = Root THEN s ELSE tree[p]]
  BY <1>2 DEF Said
<1>6. Rooted(tree')
  <2>1. Adding(tree, Root, s, tree')
    BY <1>1, <1>4, <1>5 DEF Adding
  <2> QED
    BY <2>1, Rooting
<1>7. Inside(data')
  BY <1>1, <1>2, <1>3, <1>4, AddedInside
<1> QED
  BY <1>1, <1>6, <1>7 DEF Measured

LEMMA ScanImage ==
  ASSUME ImageInv, Scan
  PROVE  Rooted(tree') /\ Inside(data') /\ Measured'
<1> DEFINE q == Top.path
           names == tree[q].names
<1>1. /\ BuildInv /\ BuildInv' /\ Rooted(tree) /\ Inside(data) /\ AtEntry /\ UNCHANGED stage
  BY ScanKeeps DEF ImageInv, Scan
<1>2. /\ stage = "scan" /\ Grown(tree) /\ q \in DOMAIN tree /\ Top.i + 1 \in 1..Len(names)
      /\ Child = Append(q, names[Top.i + 1]) /\ Child \in Seq(Names) /\ Child \notin DOMAIN tree
  BY <1>1, AtEntryIs
<1>3. data \in Seq(Cell) /\ data' \in Seq(Cell)
  BY <1>1 DEF BuildInv, Tree, Laid
<1>4. PICK s \in Answers :
        LET cells == data \o Added(Len(data), Child, s)
        IN  /\ Said(Child, s)
            /\ data' = cells \/ data' = SetEntry(cells, Top, Len(data))
  BY DEF Scan
<1>5. GoodAnswer(s)
  BY AnswersAreGood
<1>6. tree' = [p \in DOMAIN tree \cup {Child} |-> IF p = Child THEN s ELSE tree[p]]
  BY <1>4 DEF Said
<1>7. Child = Root \/ \E p \in DOMAIN tree : \E i \in 1..Len(tree[p].names) :
                         Child = Append(p, tree[p].names[i])
  BY <1>2
<1>8. Rooted(tree')
  <2> DEFINE here == Child
  <2>1. /\ here \in Seq(Names) /\ here \notin DOMAIN tree
        /\ here = Root \/ \E p \in DOMAIN tree : \E i \in 1..Len(tree[p].names) :
                             here = Append(p, tree[p].names[i])
        /\ tree' = [p \in DOMAIN tree \cup {here} |-> IF p = here THEN s ELSE tree[p]]
    BY <1>2, <1>6, <1>7
  <2> HIDE DEF here
  <2>2. Adding(tree, here, s, tree')
    BY <1>1, <1>2, <2>1 DEF Adding
  <2> QED
    BY <2>2, Rooting
<1> DEFINE cells == data \o Added(Len(data), Child, s)
<1>9. cells \in Seq(Cell) /\ Inside(cells) /\ Len(cells) > Len(data)
  BY <1>1, <1>2, <1>3, <1>5, AddedInside
<1>10. data' = cells \/ data' = SetEntry(cells, Top, Len(data))
  BY <1>4
<1> HIDE DEF cells
<1>11. Inside(data')
  <2>1. Len(data) \in Int /\ Len(data) < Len(cells)
    BY <1>3, <1>9
  <2>2. CASE data' = SetEntry(cells, Top, Len(data))
    BY <1>3, <1>9, <2>1, <2>2, EntrySetInside
  <2> QED
    BY <1>9, <1>10, <2>2
<1> QED
  BY <1>1, <1>2, <1>8, <1>11 DEF Measured

LEMMA ReturnImage ==
  ASSUME ImageInv, Vanish \/ Leave
  PROVE  Rooted(tree') /\ Inside(data') /\ Measured'
<1>1. /\ BuildInv /\ BuildInv' /\ Rooted(tree) /\ Inside(data) /\ UNCHANGED tree /\ stage = "scan"
  BY VanishKeeps, LeaveKeeps DEF ImageInv, Vanish, Leave, AtEntry
<1>2. data \in Seq(Cell) /\ data' \in Seq(Cell) /\ Len(data) \in Nat /\ Len(data) >= 1
      /\ DOMAIN data = 1..Len(data) /\ Calling(stack, data, tree) /\ Grown(tree)
  BY <1>1 DEF BuildInv, Tree, Laid
<1>3. ASSUME NEW call, NEW to \in Int, to < Len(data), data' = SetEntry(data, call, to)
      PROVE  Inside(data')
  BY <1>1, <1>2, <1>3, EntrySetInside
<1>4. CASE Vanish
  <2>1. data' = SetEntry(data, Top, 0) /\ stage' = stage
    BY <1>4 DEF Vanish
  <2>2. 0 \in Int /\ 0 < Len(data)
    BY <1>2
  <2> QED
    BY <1>1, <1>3, <2>1, <2>2 DEF Measured
<1>5. CASE Leave /\ Len(stack) > 1
  <2>1. data' = SetEntry(data, Front(stack)[Len(Front(stack))], Top.addr) /\ stage' = stage
    BY <1>5 DEF Leave
  <2>2. stack \in Seq(CallRecord)
    BY <1>2 DEF Calling
  <2>3. Len(stack) \in DOMAIN stack /\ Top = stack[Len(stack)]
    BY <1>5, <2>2 DEF Top
  <2>4. InCall(stack, data, tree, Len(stack)) /\ Top.addr \in Nat
    BY <1>2, <2>3, CallNames DEF Calling
  <2>5. Top.addr + 1 \in DOMAIN data
    BY <2>3, <2>4 DEF InCall, DirAt
  <2>6. Top.addr \in Int /\ Top.addr < Len(data)
    BY <1>2, <2>4, <2>5
  <2> QED
    BY <1>1, <1>3, <2>1, <2>6 DEF Measured
<1>6. CASE Leave /\ ~(Len(stack) > 1)
  <2>1. data' = [data EXCEPT ![1] = Header(Len(data))]
    BY <1>6 DEF Leave
  <2>2. Len(data') = Len(data) /\ DOMAIN data' = DOMAIN data /\ data'[1] = Header(Len(data))
    BY <1>2, <2>1
  <2>3. \A j \in DOMAIN data : j = 1 \/ data'[j] = data[j]
    BY <1>2, <2>1
  <2>4. Header(Len(data)).t # "entry"
    BY DEF Header
  <2> QED
    BY <1>1, <2>2, <2>3, <2>4 DEF Inside, Measured
<1> QED
  BY <1>4, <1>5, <1>6

LEMMA PlaceImage ==
  ASSUME ImageInv, BuildNext, stage = "place"
  PROVE  Rooted(tree') /\ Inside(data') /\ Measured'
<1>1. /\ BuildInv /\ Rooted(tree) /\ Inside(data) /\ data[1] = Header(Len(data))
      /\ data \in Seq(Cell) /\ DirAt(data, 2)
  BY DEF ImageInv, Measured, BuildInv, Tree, Laid
<1>2. UNCHANGED tree
  BY DEF BuildNext, ScanRoot, Scan, Vanish, Leave, AtEntry, PlaceFile, DenyFile, PlaceDir,
         PlaceLink, PlaceHeader, WriteMeta
<1>3. \/ data' = data
      \/ \E i, to, n : /\ data[i].t = "node"
                       /\ data' = [data EXCEPT ![i] = [@ EXCEPT !.data_offset = to, !.length = n]]
      \/ \E n, x : data' = [data EXCEPT ![2] = [@ EXCEPT !.length = n, !.xattrs_count = x]]
  <2>1. CASE PlaceFile
    <3>1. data[First.at + 1].t = "node"
      BY <2>1 DEF PlaceFile, Taken
    <3>2. PICK n : data' = [data EXCEPT ![First.at + 1] =
                              [@ EXCEPT !.data_offset = Len(data) + Len(blob), !.length = n]]
      BY <2>1 DEF PlaceFile
    <3> QED
      BY <3>1, <3>2
  <2>2. CASE DenyFile
    <3>1. data[First.at + 1].t = "node"
      BY <2>2 DEF DenyFile, Taken
    <3> QED
      BY <2>2, <3>1 DEF DenyFile
  <2>3. CASE PlaceHeader
    BY <1>1, <2>3, HeaderWrites DEF SetRoot
  <2>4. CASE PlaceDir \/ PlaceLink \/ WriteMeta
    BY <2>4 DEF PlaceDir, PlaceLink, WriteMeta
  <2>5. ~(ScanRoot \/ Scan \/ Vanish \/ Leave)
    BY DEF ScanRoot, Scan, Vanish, Leave, AtEntry
  <2> QED
    BY <2>1, <2>2, <2>3, <2>4, <2>5 DEF BuildNext
<1> DEFINE Touches(i, x) == /\ data[i].t = "node" /\ (i \in DOMAIN data => x.t = "node")
                            /\ data' = data \/ data' = [data EXCEPT ![i] = x]
<1>4. PICK i, x : Touches(i, x)
  <2>1. CASE data' = data
    <3>1. data[2].t = "node" /\ data[2] = data[2]
      BY <1>1 DEF DirAt
    <3> QED
      BY <2>1, <3>1
  <2>2. ASSUME NEW i, NEW to, NEW n, data[i].t = "node",
               data' = [data EXCEPT ![i] = [@ EXCEPT !.data_offset = to, !.length = n]]
        PROVE  \E j, y : Touches(j, y)
    <3> DEFINE x == [data[i] EXCEPT !.data_offset = to, !.length = n]
    <3>1. i \in DOMAIN data => x.t = "node"
      <4>1. i \in DOMAIN data => data[i] \in NodeCell
        BY <1>1, <2>2, CellsDiffer
      <4> QED
        BY <4>1 DEF NodeCell
    <3>2. data' = [data EXCEPT ![i] = x]
      BY <2>2
    <3> HIDE DEF x
    <3> QED
      BY <2>2, <3>1, <3>2
  <2>3. ASSUME NEW n, NEW m,
               data' = [data EXCEPT ![2] = [@ EXCEPT !.length = n, !.xattrs_count = m]]
        PROVE  \E j, y : Touches(j, y)
    <3> DEFINE x == [data[2] EXCEPT !.length = n, !.xattrs_count = m]
    <3>1. data[2].t = "node" /\ x.t = "node"
      <4>1. data[2] \in NodeCell
        BY <1>1, CellsDiffer DEF DirAt
      <4> QED
        BY <4>1 DEF NodeCell
    <3>2. data' = [data EXCEPT ![2] = x]
      BY <2>3
    <3> HIDE DEF x
    <3> QED
      BY <3>1, <3>2
  <2> QED
    BY <1>3, <2>1, <2>2, <2>3
<1>5. data[1].t = "header" /\ 1 \in DOMAIN data
  BY <1>1 DEF BuildInv, Tree, Laid
<1>6. i # 1
  BY <1>4, <1>5
<1>7. CASE data' = data
  BY <1>1, <1>2, <1>7 DEF Inside, Measured
<1>8. CASE data' = [data EXCEPT ![i] = x]
  <2>1. DOMAIN data' = DOMAIN data /\ Len(data') = Len(data)
    BY <1>1, <1>8
  <2>2. \A j \in DOMAIN data : (j = i /\ data'[j] = x) \/ data'[j] = data[j]
    BY <1>8
  <2>3. data'[1] = data[1]
    BY <1>5, <1>6, <1>8
  <2>4. Inside(data')
    <3> SUFFICES ASSUME NEW j \in DOMAIN data', data'[j].t = "entry"
                 PROVE  data'[j].data_offset < Len(data')
      BY DEF Inside
    <3>1. data'[j] = data[j]
      BY <1>4, <2>1, <2>2
    <3> QED
      BY <1>1, <2>1, <3>1 DEF Inside
  <2> QED
    BY <1>1, <1>2, <2>1, <2>3, <2>4 DEF Measured
<1> QED
  BY <1>4, <1>7, <1>8

LEMMA ImageKeeps ==
  ASSUME ImageInv, BuildNext
  PROVE  ImageInv'
<1>1. BuildInv'
  BY BuildKeeps DEF ImageInv
<1>2. \/ ScanRoot \/ Scan \/ Vanish \/ Leave \/ stage = "place"
  BY DEF BuildNext, PlaceFile, DenyFile, PlaceDir, PlaceLink, PlaceHeader, WriteMeta, Turn
<1>3. Rooted(tree') /\ Inside(data') /\ Measured'
  BY <1>2, ScanRootImage, ScanImage, ReturnImage, PlaceImage
<1> QED
  BY <1>1, <1>3 DEF ImageInv

LEMMA ImageIdles ==
  ASSUME ImageInv, UNCHANGED built
  PROVE  ImageInv'
<1>1. BuildInv'
  BY BuildIdles DEF ImageInv
<1> QED
  BY <1>1 DEF ImageInv, Rooted, Inside, Measured, built
----------------------------------------------------------------------------
(* What the attributes of a node, and the reads of a file, need of the     *)
(* image.  Attributes are in the order of their names.                     *)
ByName(table) ==
  \A j, k \in DOMAIN table : j < k => table[j].name < table[k].name

(* A node is followed by the cells that belong to it: the entries of its   *)
(* attributes, in the order of their names, then each name with its value. *)
Span(s) == 1 + 3 * Len(s.xattrs) + 2 * Len(s.names)

Attached(cells, o, xattrs) ==
  LET n == Len(xattrs)
  IN  \A k \in 1..n :
        /\ cells[o + k] = Entry(o + n + 2 * k - 2, o + n + 2 * k - 1)
        /\ cells[o + n + 2 * k - 1] = Name(xattrs[k].name)
        /\ cells[o + n + 2 * k] = Value(Copied(xattrs[k].value))

NodeAt(cells, o) == o \in DOMAIN cells /\ cells[o].t = "node"

Owned(cells, tr, o) ==
  LET s == tr[cells[o].stat]
  IN  /\ o + Span(s) - 1 <= Len(cells)
      /\ o # 2 => cells[o].xattrs_count = Len(s.xattrs)
      /\ ByName(s.xattrs)
      /\ Attached(cells, o, s.xattrs)

(* No two nodes have a path, or a cell, in common.                         *)
Spread(cells, tr) ==
  \A o1, o2 : NodeAt(cells, o1) /\ NodeAt(cells, o2) /\ o1 < o2 =>
    o1 + Span(tr[cells[o1].stat]) <= o2 /\ cells[o1].stat # cells[o2].stat

Owning(cells, tr) == Spread(cells, tr) /\ \A o : NodeAt(cells, o) => Owned(cells, tr, o)

(* Until the root can be overwritten, it is whole; and no file is placed.  *)
FileAt(cells, o) == NodeAt(cells, o) /\ cells[o].kind = "file"

Scanned ==
  stage \in {"root", "scan"} =>
    /\ stage = "scan" => data[2].length = Len(tree[Root].names)
    /\ queue = << >>
    /\ \A o : FileAt(data, o) => data[o].length = Uninit

(* A file that is placed is in the chunks; the others are below one of     *)
(* those in the queue.                                                     *)
Stored(c, cells, bytes) ==
  LET at == c.data_offset - Len(cells)
  IN  /\ c.length \in Nat /\ at \in Nat /\ at + c.length <= Len(bytes)
      /\ \A k \in 1..c.length : bytes[at + k] = Content(c.stat, k)

QueueRecord == [at : Nat, path : Seq(Names)]

Below(p) == \E k \in DOMAIN queue : \E n \in 0..Len(p) : queue[k].path = Begun(p, n)

Placing ==
  /\ queue \in Seq(QueueRecord)
  /\ \A k \in DOMAIN queue : LeadsTo(data, tree, queue[k].at, queue[k].path)
  /\ (\E k \in DOMAIN queue : queue[k].path = Root) =>
       Len(queue) = 1 /\ data[2].length = Len(tree[Root].names)
  /\ \A o : FileAt(data, o) =>
       \/ data[o].length = 0
       \/ data[o].length = Uninit /\ stage # "built" /\ (stage = "place" => Below(data[o].stat))
       \/ Stored(data[o], data, blob)

LayoutInv == Owning(data, tree) /\ Scanned /\ Placing


LEMMA SpanTyped ==
  ASSUME NEW s, GoodAnswer(s)
  PROVE  /\ Len(s.names) \in Nat /\ Len(s.xattrs) \in Nat /\ Span(s) \in Nat
         /\ Span(s) >= 1 + 3 * Len(s.xattrs)
<1> DEFINE n == Len(s.names)
           x == Len(s.xattrs)
<1>1. n \in Nat /\ x \in Nat /\ Span(s) = 1 + 3 * x + 2 * n
  BY NamesDiffer DEF Span
<1> HIDE DEF n, x
<1>2. Span(s) \in Nat /\ Span(s) >= 1 + 3 * x
  BY ONLY <1>1
<1> QED
  BY <1>1, <1>2 DEF n, x

(* The cells of attributes, one by one.                                    *)
LEMMA XattrCellsHave ==
  ASSUME NEW pos \in Nat, NEW xattrs \in XattrSeq, NEW k \in 1..Len(xattrs)
  PROVE  LET cells == XattrCells(pos, xattrs)
             n == Len(xattrs)
         IN  /\ cells[k] = Entry(pos + n + 2 * k - 2, pos + n + 2 * k - 1)
             /\ cells[n + 2 * k - 1] = Name(xattrs[k].name)
             /\ cells[n + 2 * k] = Value(Copied(xattrs[k].value))
<1> DEFINE n == Len(xattrs)
           attr(j) == xattrs[(j - n + 1) \div 2]
           cell(j) == IF j <= n THEN Entry(pos + n + 2 * j - 2, pos + n + 2 * j - 1)
                      ELSE IF (j - n) % 2 = 1 THEN Name(attr(j).name)
                      ELSE Value(Copied(attr(j).value))
<1>1. n \in Nat /\ k \in 1..n
  BY DEF XattrSeq
<1>2. XattrCells(pos, xattrs) = [j \in 1..(3 * n) |-> cell(j)]
  BY DEF XattrCells
<1>3. cell(k) = Entry(pos + n + 2 * k - 2, pos + n + 2 * k - 1)
  BY <1>1
<1>4. cell(n + 2 * k - 1) = Name(xattrs[k].name)
  <2> DEFINE j == n + 2 * k - 1
  <2>1. ~(j <= n) /\ (j - n) % 2 = 1 /\ (j - n + 1) \div 2 = k
    BY <1>1
  <2>2. cell(j) = Name(attr(j).name) /\ attr(j) = xattrs[k]
    BY <2>1
  <2> HIDE DEF j
  <2> QED
    BY <2>2 DEF j
<1>5. cell(n + 2 * k) = Value(Copied(xattrs[k].value))
  <2> DEFINE j == n + 2 * k
  <2>1. ~(j <= n) /\ (j - n) % 2 # 1 /\ (j - n + 1) \div 2 = k
    BY <1>1
  <2>2. cell(j) = Value(Copied(attr(j).value)) /\ attr(j) = xattrs[k]
    BY <2>1
  <2> HIDE DEF j
  <2> QED
    BY <2>2 DEF j
<1>6. k \in 1..(3 * n) /\ n + 2 * k - 1 \in 1..(3 * n) /\ n + 2 * k \in 1..(3 * n)
  BY <1>1
<1> HIDE DEF cell
<1> QED
  BY <1>2, <1>3, <1>4, <1>5, <1>6

(* What add_file, add_link and add_dir have in common.                     *)
LEMMA AddedHas ==
  ASSUME NEW pos \in Nat, NEW here \in Seq(Names), NEW s, GoodAnswer(s)
  PROVE  LET add == Added(pos, here, s)
         IN  /\ \A j \in 1..(3 * Len(s.xattrs)) : add[1 + j] = XattrCells(pos + 1, s.xattrs)[j]
             /\ s.kind = "file" => add[1].length = Uninit
<1> DEFINE xs == XattrCells(pos + 1, s.xattrs)
           n == 3 * Len(s.xattrs)
<1>1. /\ s.kind \in {"file", "link", "dir"} /\ s.size \in {1, Max(Lengths)} /\ s.xattrs \in XattrSeq
      /\ s.names \in Seq(Names) /\ Len(s.xattrs) \in Nat /\ pos + 1 \in Nat
  BY NamesDiffer DEF GoodAnswer
<1>2. xs \in Seq(Cell) /\ Len(xs) = n
  BY ONLY <1>1, XattrCellsAre
<1>n. n \in Nat
  BY ONLY <1>1
<1> HIDE DEF xs, n
<1>3. ASSUME NEW c, NEW rst, NEW S, rst \in Seq(S), NEW j \in 1..n
      PROVE  /\ (<<c>> \o xs)[1 + j] = xs[j] /\ (<<c>> \o xs)[1] = c
             /\ (<<c>> \o xs \o rst)[1 + j] = xs[j]
  <2>1. <<c>> \in Seq(Cell \cup S \cup {c}) /\ xs \in Seq(Cell \cup S \cup {c})
        /\ rst \in Seq(Cell \cup S \cup {c}) /\ Len(<<c>>) = 1
    BY <1>2, <1>n, <1>3
  <2>2. /\ <<c>> \o xs \in Seq(Cell \cup S \cup {c}) /\ Len(<<c>> \o xs) = 1 + n
        /\ \A i \in 1..n : (<<c>> \o xs)[1 + i] = xs[i]
        /\ (<<c>> \o xs)[1] = c
    BY <1>2, <1>n, <2>1
  <2> QED
    BY <1>2, <1>n, <1>3, <2>1, <2>2
<1>4. CASE s.kind = "file"
  <2> DEFINE c == Node(here, "file", s.size, Len(s.xattrs), Uninit, Uninit)
  <2>1. Added(pos, here, s) = <<c>> \o xs
    BY <1>4 DEF Added, AddFile, xs
  <2>2. c.length = Uninit
    BY DEF Node
  <2> HIDE DEF c
  <2>3. (<<c>> \o xs)[1] = c
    BY <1>2
  <2> QED
    BY <1>3, <2>1, <2>2, <2>3 DEF xs, n
<1>5. CASE s.kind = "link"
  <2> DEFINE to == pos + 1 + XattrsLen(s.xattrs)
             c == Node(here, "link", s.size, Len(s.xattrs), Uninit, to)
             rst == <<Target(here)>>
             S == {Target(here)}
  <2>1. Added(pos, here, s) = <<c>> \o xs \o rst
    BY <1>5 DEF Added, AddLink, xs
  <2>2. rst \in Seq(S)
    OBVIOUS
  <2> HIDE DEF c, rst, to, S
  <2>3. ASSUME NEW j \in 1..n
        PROVE  (<<c>> \o xs \o rst)[1 + j] = xs[j]
    <3> DEFINE T == Cell \cup S \cup {c}
               v == <<c>> \o xs
    <3>1. <<c>> \in Seq(T) /\ xs \in Seq(T) /\ rst \in Seq(T) /\ n \in Nat /\ Len(xs) = n
      BY <1>2, <1>n, <2>2
    <3> HIDE DEF T
    <3>2. v \in Seq(T) /\ Len(v) = 1 + n
      BY ONLY <3>1
    <3>3. v[1 + j] = xs[j]
      BY ONLY <3>1, <2>3
    <3> HIDE DEF v
    <3>4. (v \o rst)[1 + j] = v[1 + j]
      BY ONLY <3>1, <3>2, <2>3
    <3> QED
      BY <3>3, <3>4 DEF v
  <2> QED
    BY <1>5, <2>1, <2>3 DEF xs, n
<1>6. CASE s.kind = "dir"
  <2> DEFINE to == pos + 1 + XattrsLen(s.xattrs)
             m == Len(s.names)
             c == Node(here, "dir", s.size, Len(s.xattrs), m, to)
             es == [k \in 1..m |-> Entry(to + m + k - 1, Uninit)]
             ns == [k \in 1..m |-> Name(s.names[k])]
  <2>1. Added(pos, here, s) = ((<<c>> \o xs) \o es) \o ns
    BY <1>6 DEF Added, AddDir, xs
  <2>2. m \in Nat
    BY <1>1
  <2> DEFINE S == {es[k] : k \in 1..m} \cup {ns[k] : k \in 1..m}
  <2>3. es \in Seq(S) /\ ns \in Seq(S)
    <3>1. /\ \A k \in 1..m : es[k] \in S
          /\ \A k \in 1..m : ns[k] \in S
      OBVIOUS
    <3>2. es = [k \in 1..m |-> es[k]] /\ ns = [k \in 1..m |-> ns[k]]
      OBVIOUS
    <3> HIDE DEF es, ns, S, m
    <3>3. es \in [1..m -> S] /\ ns \in [1..m -> S]
      BY ONLY <3>1, <3>2
    <3> QED
      BY ONLY <2>2, <3>3
  <2> HIDE DEF c, es, ns, m, to, S
  <2>4. ASSUME NEW j \in 1..n
        PROVE  (((<<c>> \o xs) \o es) \o ns)[1 + j] = xs[j]
    <3>1. <<c>> \in Seq(Cell \cup S \cup {c}) /\ xs \in Seq(Cell \cup S \cup {c})
          /\ es \in Seq(Cell \cup S \cup {c}) /\ ns \in Seq(Cell \cup S \cup {c})
      BY <1>2, <1>n, <2>3
    <3> DEFINE T == Cell \cup S \cup {c}
               v == <<c>> \o xs
               u == v \o es
    <3> HIDE DEF T
    <3>a. <<c>> \in Seq(T) /\ xs \in Seq(T) /\ es \in Seq(T) /\ ns \in Seq(T)
          /\ n \in Nat /\ Len(xs) = n
      BY <1>2, <1>n, <3>1 DEF T
    <3>b. v \in Seq(T) /\ Len(v) = 1 + n
      BY ONLY <3>a DEF v
    <3>c. v[1 + j] = xs[j]
      BY ONLY <3>a, j \in 1..n DEF v
    <3>2. /\ v \in Seq(T) /\ Len(v) = 1 + n /\ v[1 + j] = xs[j]
          /\ es \in Seq(T) /\ n \in Nat /\ ns \in Seq(T)
      BY ONLY <3>a, <3>b, <3>c
    <3> HIDE DEF v
    <3>3. u \in Seq(T) /\ Len(u) >= 1 + n /\ u[1 + j] = xs[j]
      BY ONLY <3>2, j \in 1..n DEF u
    <3> HIDE DEF u
    <3>4. (u \o ns)[1 + j] = u[1 + j]
      BY ONLY <3>2, <3>3, j \in 1..n
    <3> QED
      BY <3>3, <3>4 DEF u, v
  <2> QED
    BY <1>6, <2>1, <2>4 DEF xs, n
<1> QED
  BY <1>1, <1>4, <1>5, <1>6

LEMMA AttachedKept ==
  ASSUME NEW cells, NEW cells2, NEW o \in Nat, NEW xattrs, Len(xattrs) \in Nat,
         Attached(cells, o, xattrs), \A j \in 1..(3 * Len(xattrs)) : cells2[o + j] = cells[o + j]
  PROVE  Attached(cells2, o, xattrs)
<1> DEFINE n == Len(xattrs)
<1> SUFFICES ASSUME NEW k \in 1..n
             PROVE  /\ cells2[o + k] = cells[o + k]
                    /\ cells2[o + n + 2 * k - 1] = cells[o + n + 2 * k - 1]
                    /\ cells2[o + n + 2 * k] = cells[o + n + 2 * k]
  BY DEF Attached
<1>1. n \in Nat /\ \A j \in 1..(3 * n) : cells2[o + j] = cells[o + j]
  OBVIOUS
<1> HIDE DEF n
<1>2. /\ k \in 1..(3 * n) /\ n + 2 * k - 1 \in 1..(3 * n) /\ n + 2 * k \in 1..(3 * n)
      /\ o + (n + 2 * k - 1) = o + n + 2 * k - 1 /\ o + (n + 2 * k) = o + n + 2 * k
  BY ONLY <1>1, o \in Nat, k \in 1..n
<1> QED
  BY ONLY <1>1, <1>2

LEMMA NodeIs ==
  ASSUME NEW cells, NEW tr, NEW W, Tree(cells, tr, W), NEW o, NodeAt(cells, o)
  PROVE  LET s == tr[cells[o].stat]
         IN  /\ cells \in Seq(Cell) /\ Len(cells) \in Nat /\ DOMAIN cells = 1..Len(cells)
             /\ o \in 1..Len(cells) /\ o \in Nat /\ cells[o] \in NodeCell
             /\ cells[o].stat \in DOMAIN tr /\ cells[o].stat \in Seq(Names)
             /\ cells[o].kind = s.kind /\ GoodAnswer(s)
             /\ Len(s.xattrs) \in Nat /\ Len(s.names) \in Nat
             /\ Span(s) \in Nat /\ Span(s) >= 1 + 3 * Len(s.xattrs)
<1>1. /\ cells \in Seq(Cell) /\ Grown(tr) /\ Statted(cells, tr) /\ o \in DOMAIN cells
      /\ cells[o].t = "node"
  BY DEF Tree, Laid, NodeAt
<1>2. Len(cells) \in Nat /\ DOMAIN cells = 1..Len(cells) /\ cells[o] \in Cell
  BY <1>1
<1>3. cells[o] \in NodeCell
  BY <1>1, <1>2, CellsDiffer
<1>4. cells[o].stat \in DOMAIN tr /\ cells[o].kind = tr[cells[o].stat].kind
  BY <1>1 DEF Statted
<1>5. cells[o].stat \in Seq(Names) /\ GoodAnswer(tr[cells[o].stat])
  BY <1>1, <1>4 DEF Grown
<1> QED
  BY <1>1, <1>2, <1>3, <1>4, <1>5, SpanTyped

LEMMA OwningExtends ==
  ASSUME NEW cells, NEW tr, NEW W, NEW W2, NEW s, NEW here, NEW cells2, NEW tr2,
         Extending(cells, tr, W, here, s, cells2, tr2, W2), Owning(cells, tr), ByName(s.xattrs)
  PROVE  /\ Owning(cells2, tr2)
         /\ \A o : NodeAt(cells2, o) <=> NodeAt(cells, o) \/ o = Len(cells) + 1
         /\ \A o : NodeAt(cells, o) => cells2[o] = cells[o]
         /\ s.kind = "file" => cells2[Len(cells) + 1].length = Uninit
         /\ s.kind = "dir" => cells2[Len(cells) + 1].length = Len(s.names)
<1> DEFINE L == Len(cells)
           add == Added(L, here, s)
           n == Len(s.xattrs)
           m == Len(s.names)
<1>1. /\ Tree(cells, tr, W) /\ GoodAnswer(s) /\ here \in Seq(Names) /\ here \notin DOMAIN tr
      /\ cells2 = cells \o add
      /\ tr2 = [p \in DOMAIN tr \cup {here} |-> IF p = here THEN s ELSE tr[p]]
  BY DEF Extending
<1>2. cells \in Seq(Cell) /\ L \in Nat /\ DOMAIN cells = 1..L
  BY <1>1 DEF Tree, Laid
<1>3. n \in Nat /\ m \in Nat /\ s.xattrs \in XattrSeq /\ Span(s) = 1 + 3 * n + 2 * m
  BY <1>1, SpanTyped DEF GoodAnswer, Span
<1>4. Laying(L, here, s, add)
  BY <1>1, <1>2, AddedIs
<1>5. /\ \A j \in 1..(3 * n) : add[1 + j] = XattrCells(L + 1, s.xattrs)[j]
      /\ s.kind = "file" => add[1].length = Uninit
  BY <1>1, <1>2, AddedHas
<1> HIDE DEF add, L, n, m
<1>6. /\ add \in Seq(Cell) /\ Len(add) \in Nat /\ Len(add) >= 1 + 3 * n + 2 * m
      /\ add[1].t = "node" /\ add[1].stat = here /\ add[1].xattrs_count = n
      /\ s.kind = "dir" => add[1].length = m
      /\ \A k \in 2..Len(add) : add[k].t # "node"
  BY <1>4 DEF Laying, n, m
<1>7. /\ cells2 \in Seq(Cell) /\ Len(cells2) = L + Len(add) /\ DOMAIN cells2 = 1..(L + Len(add))
      /\ \A k \in 1..L : cells2[k] = cells[k]
      /\ \A k \in 1..Len(add) : cells2[L + k] = add[k]
  BY <1>1, <1>2, <1>6, Joined DEF L
<1>8. Len(add) >= 1 /\ L + 1 \in DOMAIN cells2 /\ cells2[L + 1] = add[1]
  BY ONLY <1>2, <1>3, <1>6, <1>7
<1>9. ASSUME NEW o
      PROVE  NodeAt(cells2, o) <=> NodeAt(cells, o) \/ o = L + 1
  <2>1. CASE o \in 1..L
    BY <1>2, <1>7, <2>1 DEF NodeAt
  <2>2. CASE o = L + 1
    BY <1>6, <1>8, <2>2 DEF NodeAt
  <2>3. CASE o \in (L + 2)..(L + Len(add))
    <3>1. o - L \in 2..Len(add) /\ o - L \in 1..Len(add) /\ L + (o - L) = o /\ o \notin 1..L
          /\ o # L + 1
      BY ONLY <1>2, <1>6, <2>3
    <3>2. cells2[o] = add[o - L] /\ add[o - L].t # "node"
      BY <1>6, <1>7, <3>1
    <3> QED
      BY <1>2, <3>1, <3>2 DEF NodeAt
  <2>4. CASE o \notin 1..(L + Len(add))
    <3>1. o \notin 1..L /\ o # L + 1
      BY ONLY <1>2, <1>8, <1>7, <2>4
    <3> QED
      BY <1>2, <1>7, <2>4, <3>1 DEF NodeAt
  <2>5. o \in 1..(L + Len(add)) => o \in 1..L \/ o = L + 1 \/ o \in (L + 2)..(L + Len(add))
    BY ONLY <1>2, <1>6
  <2> QED
    BY <2>1, <2>2, <2>3, <2>4, <2>5
<1>10. ASSUME NEW o, NodeAt(cells, o)
       PROVE  /\ o \in 1..L /\ cells2[o] = cells[o] /\ cells[o].stat # here
              /\ tr2[cells[o].stat] = tr[cells[o].stat] /\ Owned(cells, tr, o)
  <2>1. o \in 1..L /\ cells[o].stat \in DOMAIN tr
    BY <1>1, <1>10, NodeIs DEF L
  <2>2. Owned(cells, tr, o)
    BY <1>10 DEF Owning
  <2> QED
    BY <1>1, <1>7, <2>1, <2>2
<1>11. cells2[L + 1].stat = here /\ tr2[here] = s
  BY <1>1, <1>6, <1>8
<1>12. Owned(cells2, tr2, L + 1)
  <2> DEFINE o == L + 1
  <2>1. o + Span(s) - 1 <= Len(cells2)
    BY ONLY <1>2, <1>3, <1>6, <1>7
  <2>2. Attached(cells2, o, s.xattrs)
    <3>1. ASSUME NEW k \in 1..n
          PROVE  /\ cells2[o + k] = Entry(o + n + 2 * k - 2, o + n + 2 * k - 1)
                 /\ cells2[o + n + 2 * k - 1] = Name(s.xattrs[k].name)
                 /\ cells2[o + n + 2 * k] = Value(Copied(s.xattrs[k].value))
      <4> DEFINE xs == XattrCells(o, s.xattrs)
      <4>1. /\ xs[k] = Entry(o + n + 2 * k - 2, o + n + 2 * k - 1)
            /\ xs[n + 2 * k - 1] = Name(s.xattrs[k].name)
            /\ xs[n + 2 * k] = Value(Copied(s.xattrs[k].value))
        <5>1. o \in Nat
          BY <1>2
        <5> HIDE DEF o
        <5> QED
          BY <1>3, <5>1, XattrCellsHave DEF n
      <4>2. \A j \in 1..(3 * n) : add[1 + j] = xs[j]
        BY <1>5
      <4> HIDE DEF xs
      <4>3. \A j \in 1..(3 * n) : cells2[o + j] = xs[j]
        <5> SUFFICES ASSUME NEW j \in 1..(3 * n)
                     PROVE  cells2[o + j] = xs[j]
          OBVIOUS
        <5>1. 1 + j \in 1..Len(add) /\ L + (1 + j) = o + j
          BY ONLY <1>2, <1>3, <1>6, j \in 1..(3 * n)
        <5> QED
          BY <1>7, <4>2, <5>1
      <4>4. /\ k \in 1..(3 * n) /\ n + 2 * k - 1 \in 1..(3 * n) /\ n + 2 * k \in 1..(3 * n)
            /\ o + (n + 2 * k - 1) = o + n + 2 * k - 1 /\ o + (n + 2 * k) = o + n + 2 * k
        BY ONLY <1>2, <1>3, k \in 1..n
      <4> HIDE DEF o
      <4> QED
        BY ONLY <4>1, <4>3, <4>4
    <3> HIDE DEF o
    <3> QED
      BY <3>1 DEF Attached, n
  <2>3. cells2[o].xattrs_count = n
    BY <1>6, <1>8
  <2> HIDE DEF o
  <2> QED
    BY <1>11, <2>1, <2>2, <2>3 DEF Owned, n, o
<1>13. ASSUME NEW o, NodeAt(cells, o)
       PROVE  Owned(cells2, tr2, o)
  <2> DEFINE r == tr[cells[o].stat]
  <2>1. /\ Len(r.xattrs) \in Nat /\ Span(r) \in Nat /\ Span(r) >= 1 + 3 * Len(r.xattrs) /\ o \in Nat
        /\ o \in 1..L
    BY <1>1, <1>13, NodeIs DEF L
  <2>2. /\ o + Span(r) - 1 <= L /\ (o # 2 => cells[o].xattrs_count = Len(r.xattrs))
        /\ ByName(r.xattrs) /\ Attached(cells, o, r.xattrs)
    BY <1>10, <1>13 DEF Owned, L
  <2>3. cells2[o] = cells[o] /\ tr2[cells2[o].stat] = r
    BY <1>10, <1>13
  <2> HIDE DEF r
  <2>4. Attached(cells2, o, r.xattrs)
    <3>1. \A j \in 1..(3 * Len(r.xattrs)) : o + j \in 1..L
      BY ONLY <1>2, <2>1, <2>2
    <3>2. \A j \in 1..(3 * Len(r.xattrs)) : cells2[o + j] = cells[o + j]
      BY <1>7, <3>1
    <3> QED
      BY <2>1, <2>2, <3>2, AttachedKept
  <2>5. o + Span(r) - 1 <= Len(cells2)
    BY ONLY <1>2, <1>6, <1>7, <2>1, <2>2
  <2> QED
    BY <2>2, <2>3, <2>4, <2>5 DEF Owned
<1>14. ASSUME NEW o1, NEW o2, NodeAt(cells2, o1), NodeAt(cells2, o2), o1 < o2
       PROVE  o1 + Span(tr2[cells2[o1].stat]) <= o2 /\ cells2[o1].stat # cells2[o2].stat
  <2>1. CASE NodeAt(cells, o1) /\ NodeAt(cells, o2)
    BY <1>10, <1>14, <2>1 DEF Owning, Spread
  <2>2. CASE NodeAt(cells, o1) /\ o2 = L + 1
    <3>1. o1 + Span(tr[cells[o1].stat]) - 1 <= L /\ o1 \in Nat /\ Span(tr[cells[o1].stat]) \in Nat
      BY <1>1, <1>10, <2>2, NodeIs DEF Owned, L
    <3>2. o1 + Span(tr[cells[o1].stat]) <= o2
      BY ONLY <1>2, <2>2, <3>1
    <3> QED
      BY <1>10, <1>11, <2>2, <3>2
  <2>3. CASE o1 = L + 1
    <3>1. NodeAt(cells, o2) \/ o2 = L + 1
      BY <1>9, <1>14
    <3>2. NodeAt(cells, o2) => o2 \in 1..L
      BY <1>10
    <3> QED
      BY ONLY <1>2, <1>14, <2>3, <3>1, <3>2
  <2> QED
    BY <1>9, <1>14, <2>1, <2>2, <2>3
<1>15. Owning(cells2, tr2)
  BY <1>9, <1>12, <1>13, <1>14 DEF Owning, Spread
<1> QED
  BY <1>5, <1>6, <1>8, <1>9, <1>10, <1>15 DEF L, m

(* A cell is replaced: that of a node, which keeps its path and the number *)
(* of its attributes, or one that no attribute has.                        *)
Replacing(cells, tr, W, i, x, cells2) ==
  /\ Tree(cells, tr, W) /\ Owning(cells, tr) /\ i \in DOMAIN cells /\ x \in Cell
  /\ cells2 = [cells EXCEPT ![i] = x]
  /\ x.t = cells[i].t
  /\ x.t = "node" => /\ x.stat = cells[i].stat
                     /\ i # 2 => x.xattrs_count = cells[i].xattrs_count
  /\ \A o : NodeAt(cells, o) =>
       \A j \in 1..(3 * Len(tr[cells[o].stat].xattrs)) : i # o + j

LEMMA OwningReplaced ==
  ASSUME NEW cells, NEW tr, NEW W, NEW i, NEW x, NEW cells2, Replacing(cells, tr, W, i, x, cells2)
  PROVE  /\ Owning(cells2, tr)
         /\ \A o : NodeAt(cells2, o) <=> NodeAt(cells, o)
         /\ \A o : NodeAt(cells, o) => (o = i /\ cells2[o] = x) \/ cells2[o] = cells[o]
<1>0. /\ Tree(cells, tr, W) /\ Owning(cells, tr) /\ i \in DOMAIN cells /\ x \in Cell
      /\ cells2 = [cells EXCEPT ![i] = x] /\ x.t = cells[i].t
      /\ x.t = "node" => x.stat = cells[i].stat /\ (i # 2 => x.xattrs_count = cells[i].xattrs_count)
      /\ \A o : NodeAt(cells, o) =>
           \A j \in 1..(3 * Len(tr[cells[o].stat].xattrs)) : i # o + j
  BY DEF Replacing
<1>1. cells \in Seq(Cell) /\ Len(cells) \in Nat /\ DOMAIN cells = 1..Len(cells)
  BY <1>0 DEF Tree, Laid
<1>2. /\ cells2 \in Seq(Cell) /\ Len(cells2) = Len(cells) /\ DOMAIN cells2 = DOMAIN cells
      /\ cells2[i] = x /\ \A j \in DOMAIN cells : j # i => cells2[j] = cells[j]
  BY <1>0, <1>1, Replaced
<1>3. ASSUME NEW o
      PROVE  NodeAt(cells2, o) <=> NodeAt(cells, o)
  BY <1>0, <1>2 DEF NodeAt
<1>4. ASSUME NEW o, NodeAt(cells, o)
      PROVE  /\ cells2[o].stat = cells[o].stat
             /\ o # 2 => cells2[o].xattrs_count = cells[o].xattrs_count
             /\ (o = i /\ cells2[o] = x) \/ cells2[o] = cells[o]
  BY <1>0, <1>2, <1>4 DEF NodeAt
<1>5. ASSUME NEW o, NodeAt(cells, o)
      PROVE  Owned(cells2, tr, o)
  <2> DEFINE s == tr[cells[o].stat]
             n == Len(s.xattrs)
  <2>1. /\ n \in Nat /\ Span(s) \in Nat /\ Span(s) >= 1 + 3 * n /\ o \in Nat /\ o \in 1..Len(cells)
    BY <1>0, <1>5, NodeIs
  <2>2. Owned(cells, tr, o)
    BY <1>0, <1>5 DEF Owning
  <2>3. /\ o + Span(s) - 1 <= Len(cells) /\ (o # 2 => cells[o].xattrs_count = n)
        /\ ByName(s.xattrs) /\ Attached(cells, o, s.xattrs)
    BY <2>2 DEF Owned
  <2>4. \A j \in 1..(3 * n) : i # o + j
    BY <1>0, <1>5
  <2>5. cells2[o].stat = cells[o].stat /\ (o # 2 => cells2[o].xattrs_count = cells[o].xattrs_count)
    BY <1>4, <1>5
  <2> HIDE DEF s
  <2>6. \A j \in 1..(3 * n) : o + j \in DOMAIN cells
    <3> HIDE DEF n
    <3> QED
      BY ONLY <1>1, <2>1, <2>3
  <2>7. \A j \in 1..(3 * n) : cells2[o + j] = cells[o + j]
    BY <1>2, <2>4, <2>6
  <2>8. Attached(cells2, o, s.xattrs)
    BY <2>1, <2>3, <2>7, AttachedKept
  <2> QED
    BY <1>2, <2>3, <2>5, <2>8 DEF Owned, s
<1>6. Spread(cells2, tr)
  <2>1. Spread(cells, tr)
    BY <1>0 DEF Owning
  <2>2. \A o : NodeAt(cells2, o) => NodeAt(cells, o) /\ cells2[o].stat = cells[o].stat
    BY <1>3, <1>4
  <2> QED
    BY ONLY <2>1, <2>2 DEF Spread
<1> QED
  BY <1>3, <1>4, <1>5, <1>6 DEF Owning

(* The cells of attributes are none of nodes, nor of the header.           *)
LEMMA AttachedAre ==
  ASSUME NEW cells, NEW tr, NEW W, Tree(cells, tr, W), Owning(cells, tr), NEW o, NodeAt(cells, o),
         NEW j \in 1..(3 * Len(tr[cells[o].stat].xattrs))
  PROVE  o + j # 1 /\ o + j \in DOMAIN cells /\ cells[o + j].t # "node"
<1> DEFINE s == tr[cells[o].stat]
           n == Len(s.xattrs)
<1>1. /\ n \in Nat /\ Span(s) \in Nat /\ Span(s) >= 1 + 3 * n /\ o \in Nat /\ o \in 1..Len(cells)
      /\ DOMAIN cells = 1..Len(cells) /\ Len(cells) \in Nat
  BY NodeIs
<1>2. o + Span(s) - 1 <= Len(cells) /\ Attached(cells, o, s.xattrs)
  BY DEF Owning, Owned
<1> HIDE DEF s
<1>3. o + j # 1 /\ o + j \in DOMAIN cells
  <2> HIDE DEF n
  <2>1. j \in 1..(3 * n)
    BY DEF n, s
  <2> QED
    BY ONLY <1>1, <1>2, <2>1
<1>4. \A k \in 1..n :
        /\ cells[o + k].t = "entry" /\ cells[o + n + 2 * k - 1].t = "name"
        /\ cells[o + n + 2 * k].t = "value"
  <2>1. \A k \in 1..n :
          /\ cells[o + k] = Entry(o + n + 2 * k - 2, o + n + 2 * k - 1)
          /\ cells[o + n + 2 * k - 1] = Name(s.xattrs[k].name)
          /\ cells[o + n + 2 * k] = Value(Copied(s.xattrs[k].value))
    BY <1>2 DEF Attached
  <2>2. /\ \A u, v : Entry(u, v).t = "entry"
        /\ \A u : Name(u).t = "name"
        /\ \A u : Value(u).t = "value"
    BY DEF Entry, Name, Value
  <2> HIDE DEF n
  <2> QED
    BY ONLY <2>1, <2>2
<1> HIDE DEF n
<1>5. \/ \E k \in 1..n : o + j = o + k
      \/ \E k \in 1..n : o + j = o + n + 2 * k - 1
      \/ \E k \in 1..n : o + j = o + n + 2 * k
  <2>1. j \in 1..(3 * n) /\ n \in Nat /\ o \in Nat
    BY <1>1 DEF n, s
  <2>2. CASE j <= n
    BY ONLY <2>1, <2>2
  <2>3. CASE j > n /\ (j - n) % 2 = 1
    <3> DEFINE k == (j - n + 1) \div 2
    <3>1. k \in 1..n /\ o + j = o + n + 2 * k - 1
      BY ONLY <2>1, <2>3
    <3> HIDE DEF k
    <3> QED
      BY ONLY <3>1
  <2>4. CASE j > n /\ (j - n) % 2 # 1
    <3> DEFINE k == (j - n) \div 2
    <3>1. k \in 1..n /\ o + j = o + n + 2 * k
      BY ONLY <2>1, <2>4
    <3> HIDE DEF k
    <3> QED
      BY ONLY <3>1
  <2> QED
    BY ONLY <2>1, <2>2, <2>3, <2>4
<1>6. cells[o + j].t \in {"entry", "name", "value"}
  BY ONLY <1>4, <1>5
<1> QED
  BY <1>3, <1>6

(* An entry of a directory is set.                                         *)
AtEntryOf(cells, tr, call) ==
  /\ call.i \in Nat /\ call.i + 1 \in 1..Len(tr[call.path].names)
  /\ DirAt(cells, call.addr + 1) /\ cells[call.addr + 1].stat = call.path
  /\ cells[call.addr + 1].data_offset = call.dirents

LEMMA OwningSet ==
  ASSUME NEW cells, NEW tr, NEW W, NEW call, NEW to \in Nat, Tree(cells, tr, W),
         AtEntryOf(cells, tr, call), Owning(cells, tr)
  PROVE  LET cells2 == SetEntry(cells, call, to)
         IN  /\ Owning(cells2, tr)
             /\ \A o : NodeAt(cells2, o) <=> NodeAt(cells, o)
             /\ \A o : NodeAt(cells, o) => cells2[o] = cells[o]
<1> DEFINE o == call.addr + 1
           k == call.i + 1
           s == tr[cells[o].stat]
           n == Len(s.xattrs)
           i == call.dirents + call.i + 1
           x == [cells[i] EXCEPT !.data_offset = to]
           cells2 == SetEntry(cells, call, to)
<1>1. /\ Tree(cells, tr, W) /\ call.i \in Nat /\ k \in 1..Len(s.names)
      /\ DirAt(cells, o) /\ cells[o].data_offset = call.dirents /\ to \in Nat
  BY DEF AtEntryOf
<1>2. NodeAt(cells, o)
  BY <1>1 DEF DirAt, NodeAt
<1>3. /\ Tabled(cells, tr, o) /\ Owned(cells, tr, o)
      /\ n \in Nat /\ Len(s.names) \in Nat /\ o \in Nat /\ cells \in Seq(Cell)
  BY <1>1, <1>2, NodeIs DEF Tree, Owning
<1>4. /\ cells[o].data_offset = o + 3 * n
      /\ cells[o].data_offset + k \in DOMAIN cells
      /\ cells[cells[o].data_offset + k].t = "entry"
  BY <1>1, <1>3 DEF Tabled
<1>5. i = o + 3 * n + k
  <2> DEFINE d == call.dirents
             l == call.i
  <2>1. d = o + 3 * n /\ l \in Nat
    BY <1>1, <1>4
  <2> HIDE DEF d, l, o, n
  <2>2. d + l + 1 = o + 3 * n + (l + 1)
    BY ONLY <2>1, <1>3
  <2> QED
    BY <2>2 DEF d, l
<1>6. i \in DOMAIN cells /\ cells[i].t = "entry"
  BY <1>4, <1>5
<1>7. cells2 = [cells EXCEPT ![i] = x]
  BY <1>6 DEF SetEntry
<1>8. x \in Cell /\ x.t = cells[i].t /\ x.t # "node"
  <2>1. cells[i] \in EntryCell
    BY <1>3, <1>6, CellsDiffer
  <2>2. to \in Int
    BY <1>1
  <2> DEFINE c == cells[i]
  <2>3. c \in EntryCell /\ x = [c EXCEPT !.data_offset = to] /\ c.t = "entry"
    BY <1>6, <2>1
  <2> HIDE DEF c, x
  <2>4. x \in EntryCell /\ x.t = "entry"
    BY ONLY <2>2, <2>3 DEF EntryCell
  <2> QED
    BY <1>6, <2>4 DEF Cell
<1>9. ASSUME NEW p, NodeAt(cells, p), NEW j \in 1..(3 * Len(tr[cells[p].stat].xattrs))
      PROVE  i # p + j
  <2> DEFINE r == tr[cells[p].stat]
             m == Len(r.xattrs)
  <2>1. /\ m \in Nat /\ Span(r) \in Nat /\ Span(r) >= 1 + 3 * m /\ p \in Nat /\ j \in 1..(3 * m)
    BY <1>1, <1>9, NodeIs
  <2>2. Span(s) = 1 + 3 * n + 2 * Len(s.names)
    BY DEF Span
  <2> DEFINE l == Len(s.names)
  <2>3. k \in 1..l /\ l \in Nat /\ n \in Nat /\ o \in Nat /\ Span(s) = 1 + 3 * n + 2 * l
    BY <1>1, <1>3, <2>2
  <2>4. /\ p < o => p + Span(r) <= o
        /\ o < p => o + Span(s) <= p
        /\ p = o => m = n
    BY <1>2, <1>9 DEF Owning, Spread
  <2> HIDE DEF s, r, n, m, l, k, o, i
  <2> QED
    BY ONLY <1>5, <2>1, <2>3, <2>4
<1> HIDE DEF x, i, o, k, cells2
<1>10. Replacing(cells, tr, W, i, x, cells2)
  BY <1>1, <1>6, <1>7, <1>8, <1>9 DEF Replacing
<1>11. /\ Owning(cells2, tr) /\ \A p : NodeAt(cells2, p) <=> NodeAt(cells, p)
       /\ \A p : NodeAt(cells, p) => (p = i /\ cells2[p] = x) \/ cells2[p] = cells[p]
  BY <1>10, OwningReplaced
<1>12. \A p : NodeAt(cells, p) => p # i
  BY <1>6 DEF NodeAt
<1> QED
  BY <1>11, <1>12 DEF cells2

(* A node is placed or overwritten, or the header is set.                  *)
LEMMA OwningTouched ==
  ASSUME NEW cells, NEW tr, NEW W, NEW i, NEW x, NEW cells2, Touching(cells, tr, W, i, x, cells2),
         Owning(cells, tr), i # 2 /\ x.t = "node" => x.xattrs_count = cells[i].xattrs_count,
         x.t = "header" => i = 1
  PROVE  /\ Owning(cells2, tr)
         /\ \A o : NodeAt(cells2, o) <=> NodeAt(cells, o)
         /\ \A o : NodeAt(cells, o) => (o = i /\ cells2[o] = x) \/ cells2[o] = cells[o]
<1>1. /\ Tree(cells, tr, W) /\ i \in DOMAIN cells /\ x \in Cell /\ cells2 = [cells EXCEPT ![i] = x]
      /\ cells[i].t \in {"header", "node"} /\ x.t = cells[i].t
      /\ x.t = "node" => x.stat = cells[i].stat
  BY DEF Touching
<1>2. ASSUME NEW o, NodeAt(cells, o), NEW j \in 1..(3 * Len(tr[cells[o].stat].xattrs))
      PROVE  i # o + j
  <2>1. o + j # 1 /\ cells[o + j].t # "node"
    BY <1>1, <1>2, AttachedAre
  <2> QED
    BY <1>1, <2>1
<1>3. Replacing(cells, tr, W, i, x, cells2)
  BY <1>1, <1>2 DEF Replacing
<1> QED
  BY <1>3, OwningReplaced
----------------------------------------------------------------------------
(* Steps of a build keep it: those of the scan ...                         *)
LEMMA AnswersByName ==
  ASSUME NEW s \in Answers
  PROVE  ByName(s.xattrs)
<1>2. ASSUME NEW max, NEW lost, NEW x \in XattrLists(max, lost)
      PROVE  ByName(x)
  <2>1. PICK l \in Lists(DOMAIN Values, max), gone \in SUBSET (1..max) :
          x = [k \in DOMAIN l |->
                 [name |-> l[k], value |-> IF k \in gone THEN << >> ELSE Values[l[k]]]]
    BY <1>2 DEF XattrLists
  <2>2. InOrder(l)
    BY ListsAre
  <2>3. DOMAIN x = DOMAIN l /\ \A k \in DOMAIN l : x[k].name = l[k]
    BY <2>1
  <2> QED
    BY ONLY <2>2, <2>3 DEF ByName, InOrder
<1> QED
  BY <1>2 DEF Answers

LEMMA ScannedLayout ==
  ASSUME queue' = << >>, stage' = "scan", Owning(data', tree'),
         data'[2].length = Len(tree'[Root].names),
         \A o : FileAt(data', o) => data'[o].length = Uninit
  PROVE  LayoutInv'
<1>1. Scanned'
  BY DEF Scanned
<1>2. Placing'
  <2>1. queue' \in Seq(QueueRecord) /\ DOMAIN queue' = {}
    OBVIOUS
  <2> QED
    BY <2>1 DEF Placing
<1> QED
  BY <1>1, <1>2 DEF LayoutInv

LEMMA ScanRootLayout ==
  ASSUME ImageInv, LayoutInv, ScanRoot
  PROVE  LayoutInv'
<1> DEFINE W == Awaited(stack, tree)
<1>1. /\ BuildInv /\ Owning(data, tree) /\ stage = "root" /\ stage' = "scan" /\ tree = << >>
      /\ data = <<Header(Uninit)>> /\ Tree(data, tree, W) /\ UNCHANGED queue
  BY DEF ImageInv, LayoutInv, BuildInv, ScanRoot
<1>2. PICK s \in Answers :
        /\ s.kind = "dir" /\ Said(Root, s) /\ data' = data \o Added(Len(data), Root, s)
  BY DEF ScanRoot
<1>3. GoodAnswer(s) /\ ByName(s.xattrs)
  BY AnswersAreGood, AnswersByName
<1>4. tree' = [p \in DOMAIN tree \cup {Root} |-> IF p = Root THEN s ELSE tree[p]]
  BY <1>2 DEF Said
<1>5. Root \in Seq(Names) /\ Root \notin DOMAIN tree
      /\ \A p \in Seq(Names), m \in Names : Root = Append(p, m) => p \in DOMAIN tree
  <2>1. Root \in Seq(Names)
    BY DEF Root
  <2>2. \A p \in Seq(Names), m \in Names : Root # Append(p, m)
    BY Appended
  <2> QED
    BY <1>1, <2>1, <2>2
<1> DEFINE W2 == W \cup {Append(Root, s.names[k]) : k \in 1..Len(s.names)}
<1>6. Extending(data, tree, W, Root, s, data', tree', W2)
  <2>1. W \subseteq W2 /\ \A k \in 1..Len(s.names) : Append(Root, s.names[k]) \in W2
    OBVIOUS
  <2> HIDE DEF W, W2
  <2> QED
    BY ONLY <1>1, <1>2, <1>3, <1>4, <1>5, <2>1 DEF Extending
<1> HIDE DEF W, W2
<1>7. /\ Owning(data', tree')
      /\ \A o : NodeAt(data', o) <=> NodeAt(data, o) \/ o = Len(data) + 1
      /\ s.kind = "file" => data'[Len(data) + 1].length = Uninit
      /\ s.kind = "dir" => data'[Len(data) + 1].length = Len(s.names)
  <2>1. Owning(data, tree) /\ ByName(s.xattrs)
    BY <1>1, <1>3
  <2> QED
    BY ONLY <1>6, <2>1, OwningExtends
<1>8. data'[Len(data) + 1].kind = s.kind
  BY ONLY <1>6, Extended
<1>9. Len(data) = 1 /\ \A o : ~NodeAt(data, o)
  BY <1>1 DEF NodeAt, Header
<1>10. data'[2].length = Len(tree'[Root].names)
  <2>1. data'[Len(data) + 1].length = Len(s.names)
    BY <1>2, <1>7
  <2>2. Len(data) + 1 = 2
    BY <1>9
  <2>3. tree'[Root] = s
    BY <1>4
  <2> QED
    BY ONLY <2>1, <2>2, <2>3
<1>11. \A o : FileAt(data', o) => data'[o].length = Uninit
  BY <1>7, <1>8, <1>9 DEF FileAt
<1>12. queue' = << >>
  BY <1>1 DEF LayoutInv, Scanned
<1> QED
  BY <1>1, <1>7, <1>10, <1>11, <1>12, ScannedLayout

LEMMA ScanLayout ==
  ASSUME ImageInv, LayoutInv, Scan
  PROVE  LayoutInv'
<1> DEFINE W == Awaited(stack, tree)
           L == Len(data)

<1>1. AtEntry /\ UNCHANGED <<queue, stage>> /\ BuildInv
  BY DEF Scan, ImageInv
<1>2. /\ stage = "scan" /\ Top.path \in DOMAIN tree /\ Top.i \in Nat
      /\ Top.i + 1 \in 1..Len(tree[Top.path].names)
      /\ Child \in Seq(Names) /\ Child \notin DOMAIN tree /\ Child # Root /\ Child \in W
      /\ \A p \in Seq(Names), m \in Names : Child = Append(p, m) => p \in DOMAIN tree
      /\ DirAt(data, Top.addr + 1) /\ data[Top.addr + 1].stat = Top.path
      /\ data[Top.addr + 1].data_offset = Top.dirents
  BY <1>1, AtEntryIs
<1>3. /\ Tree(data, tree, W) /\ DirAt(data, 2) /\ data[2].stat = Root /\ L \in Nat
      /\ Owning(data, tree) /\ queue = << >> /\ data[2].length = Len(tree[Root].names)
      /\ \A o : FileAt(data, o) => data[o].length = Uninit
  BY <1>1, <1>2 DEF BuildInv, Tree, Laid, LayoutInv, Scanned
<1>4. PICK s \in Answers :
        /\ Said(Child, s)
        /\ \/ data' = data \o Added(L, Child, s)
           \/ s.kind # "dir" /\ data' = SetEntry(data \o Added(L, Child, s), Top, L)
  BY DEF Scan
<1> DEFINE cells2 == data \o Added(L, Child, s)
           W2 == W \cup {Append(Child, s.names[k]) : k \in 1..Len(s.names)}
<1>5. GoodAnswer(s) /\ ByName(s.xattrs)
  BY AnswersAreGood, AnswersByName
<1>6. tree' = [p \in DOMAIN tree \cup {Child} |-> IF p = Child THEN s ELSE tree[p]]
  BY <1>4 DEF Said
<1>7. Extending(data, tree, W, Child, s, cells2, tree', W2)
  <2>1. /\ W \subseteq W2 /\ \A k \in 1..Len(s.names) : Append(Child, s.names[k]) \in W2
        /\ cells2 = data \o Added(Len(data), Child, s)
    OBVIOUS
  <2> HIDE DEF W, W2, cells2
  <2>2. Tree(data, tree, W) /\ GoodAnswer(s)
    BY <1>3, <1>5 DEF W
  <2>3. Child \in W
    BY <1>2 DEF W
  <2> DEFINE here == Child
  <2>4. /\ here \in Seq(Names) /\ here \notin DOMAIN tree /\ here # Root /\ here \in W
        /\ \A p \in Seq(Names), m \in Names : here = Append(p, m) => p \in DOMAIN tree
        /\ cells2 = data \o Added(Len(data), here, s)
        /\ tree' = [p \in DOMAIN tree \cup {here} |-> IF p = here THEN s ELSE tree[p]]
        /\ W \subseteq W2 /\ \A k \in 1..Len(s.names) : Append(here, s.names[k]) \in W2
    <3>1. /\ here \in Seq(Names) /\ here \notin DOMAIN tree /\ here # Root
          /\ \A p \in Seq(Names), m \in Names : here = Append(p, m) => p \in DOMAIN tree
      BY <1>2
    <3>2. tree' = [p \in DOMAIN tree \cup {here} |-> IF p = here THEN s ELSE tree[p]]
      BY <1>6
    <3>3. /\ cells2 = data \o Added(Len(data), here, s)
          /\ W \subseteq W2 /\ \A k \in 1..Len(s.names) : Append(here, s.names[k]) \in W2
      BY ONLY <2>1 DEF here
    <3> QED
      BY ONLY <2>3, <3>1, <3>2, <3>3 DEF here
  <2> HIDE DEF here
  <2>5. Extending(data, tree, W, here, s, cells2, tree', W2)
    BY ONLY <2>2, <2>4 DEF Extending
  <2> QED
    BY <2>5 DEF here
<1>8. data' = cells2 \/ data' = SetEntry(cells2, Top, L)
  BY <1>4
<1> HIDE DEF W, W2, cells2
<1>9. /\ Owning(cells2, tree')
      /\ \A o : NodeAt(cells2, o) <=> NodeAt(data, o) \/ o = L + 1
      /\ \A o : NodeAt(data, o) => cells2[o] = data[o]
      /\ s.kind = "file" => cells2[L + 1].length = Uninit
  BY ONLY <1>3, <1>5, <1>7, OwningExtends
<1>10. Tree(cells2, tree', W2) /\ cells2[L + 1].kind = s.kind
  BY ONLY <1>7, Extended
<1>11. /\ Owning(data', tree')
       /\ \A o : NodeAt(data', o) <=> NodeAt(cells2, o)
       /\ \A o : NodeAt(cells2, o) => data'[o] = cells2[o]
  <2>1. CASE data' = cells2
    BY <1>9, <2>1
  <2>2. CASE data' = SetEntry(cells2, Top, L)
    <3>1. tree'[Top.path] = tree[Top.path]
      BY <1>2, <1>6
    <3>2. DirAt(cells2, Top.addr + 1) /\ cells2[Top.addr + 1] = data[Top.addr + 1]
      <4>1. NodeAt(data, Top.addr + 1)
        BY <1>2 DEF DirAt, NodeAt
      <4>2. NodeAt(cells2, Top.addr + 1) /\ cells2[Top.addr + 1] = data[Top.addr + 1]
        BY <1>9, <4>1
      <4> QED
        BY <1>2, <4>2 DEF DirAt, NodeAt
    <3>3. AtEntryOf(cells2, tree', Top)
      BY <1>2, <3>1, <3>2 DEF AtEntryOf
    <3> QED
      BY <1>3, <1>9, <1>10, <2>2, <3>3, OwningSet
  <2> QED
    BY <1>8, <2>1, <2>2
<1>12. data'[2].length = Len(tree'[Root].names)
  <2>1. NodeAt(data, 2)
    BY <1>3 DEF DirAt, NodeAt
  <2>2. data'[2] = data[2]
    BY <1>9, <1>11, <2>1
  <2>3. Root \in DOMAIN tree
    BY <1>3, <2>1, NodeIs
  <2>4. tree'[Root] = tree[Root]
    BY <1>2, <1>6, <2>3
  <2> QED
    BY <1>3, <2>2, <2>4
<1>13. ASSUME NEW o, FileAt(data', o)
       PROVE  data'[o].length = Uninit
  <2>1. NodeAt(cells2, o) /\ data'[o] = cells2[o] /\ cells2[o].kind = "file"
    BY <1>11, <1>13 DEF FileAt
  <2>2. CASE NodeAt(data, o)
    BY <1>3, <1>9, <2>1, <2>2 DEF FileAt
  <2>3. CASE o = L + 1
    BY <1>9, <1>10, <2>1, <2>3
  <2> QED
    BY <1>9, <2>1, <2>2, <2>3
<1>14. queue' = << >> /\ stage' = "scan"
  BY <1>1, <1>2, <1>3
<1> QED
  BY <1>11, <1>12, <1>13, <1>14, ScannedLayout

LEMMA SetLayout ==
  ASSUME ImageInv, LayoutInv, stage = "scan", UNCHANGED <<tree, queue, stage>>,
         NEW call, NEW to \in Nat, AtEntryOf(data, tree, call), data' = SetEntry(data, call, to)
  PROVE  LayoutInv'
<1>1. /\ Tree(data, tree, Awaited(stack, tree)) /\ Owning(data, tree) /\ queue = << >>
      /\ data[2].length = Len(tree[Root].names) /\ NodeAt(data, 2)
      /\ \A o : FileAt(data, o) => data[o].length = Uninit
  BY DEF ImageInv, BuildInv, LayoutInv, Scanned, DirAt, NodeAt
<1>2. /\ Owning(data', tree) /\ \A o : NodeAt(data', o) <=> NodeAt(data, o)
      /\ \A o : NodeAt(data, o) => data'[o] = data[o]
  BY <1>1, OwningSet
<1>3. \A o : FileAt(data', o) => data'[o].length = Uninit
  BY <1>1, <1>2 DEF FileAt
<1>4. data'[2].length = Len(tree'[Root].names)
  BY <1>1, <1>2
<1> QED
  BY <1>1, <1>2, <1>3, <1>4, ScannedLayout

LEMMA VanishLayout ==
  ASSUME ImageInv, LayoutInv, Vanish
  PROVE  LayoutInv'
<1>1. /\ AtEntry /\ BuildInv /\ UNCHANGED <<tree, queue, stage>> /\ data' = SetEntry(data, Top, 0)
  BY DEF Vanish, ImageInv
<1>2. stage = "scan" /\ AtEntryOf(data, tree, Top)
  BY <1>1, AtEntryIs DEF AtEntryOf
<1> QED
  BY <1>1, <1>2, SetLayout

LEMMA LeaveLayout ==
  ASSUME ImageInv, LayoutInv, Leave
  PROVE  LayoutInv'
<1> DEFINE n == Len(stack)
           W == Awaited(stack, tree)
<1>1. /\ stage = "scan" /\ stack # << >> /\ UNCHANGED <<tree, blob>> /\ BuildInv
  BY DEF Leave, ImageInv
<1>2. /\ Tree(data, tree, W) /\ Calling(stack, data, tree)
      /\ DirAt(data, 2) /\ data[2].stat = Root /\ Grown(tree) /\ data \in Seq(Cell)
  BY <1>1 DEF BuildInv, Tree, Laid
<1>3. stack \in Seq(CallRecord) /\ n \in Nat \ {0} /\ DOMAIN stack = 1..n /\ stack[n] = Top
  BY <1>1, <1>2 DEF Calling, Top
<1>4. \A l \in 1..n : InCall(stack, data, tree, l)
  BY <1>2, <1>3 DEF Calling
<1>5. CASE n > 1
  <2> DEFINE m == n - 1
             call == stack[m]
  <2>1. /\ Front(stack)[Len(Front(stack))] = stack[m] /\ m \in 1..n /\ m < n /\ m \in DOMAIN stack
        /\ n \in DOMAIN stack /\ m < Len(stack)
    <3>1. /\ Len(Front(stack)) = Len(stack) - 1
          /\ \A l \in 1..(Len(stack) - 1) : Front(stack)[l] = stack[l]
      BY <1>3, <1>5, FrontIs
    <3> QED
      BY <1>3, <1>5, <3>1
  <2>2. data' = SetEntry(data, call, Top.addr) /\ UNCHANGED <<queue, stage>>
    BY <1>5, <2>1 DEF Leave
  <2>3. InCall(stack, data, tree, m) /\ call.i \in Nat /\ Len(tree[call.path].names) \in Nat
    <3> HIDE DEF m
    <3> QED
      BY <1>2, <1>4, <2>1, CallNames
  <2>4. /\ DirAt(data, call.addr + 1) /\ data[call.addr + 1].stat = call.path
        /\ data[call.addr + 1].data_offset = call.dirents
        /\ call.i < Len(tree[call.path].names)
    <3> HIDE DEF m
    <3> QED
      BY <2>1, <2>3 DEF InCall
  <2>5. Top.addr \in Nat
    BY <1>2, <1>3, <2>1, CallNames
  <2>6. call.i + 1 \in 1..Len(tree[call.path].names)
    BY <2>3, <2>4
  <2> HIDE DEF call
  <2>7. AtEntryOf(data, tree, call)
    BY <2>3, <2>4, <2>6 DEF AtEntryOf
  <2> QED
    BY <1>1, <2>2, <2>5, <2>7, SetLayout
<1>6. CASE ~(n > 1)
  <2> DEFINE x == Header(Len(data))
  <2>1. data' = [data EXCEPT ![1] = x] /\ queue' = <<[at |-> 1, path |-> Root]>> /\ stage' = "place"
    BY <1>6 DEF Leave
  <2>2. Owning(data, tree) /\ data[2].length = Len(tree[Root].names)
        /\ \A o : FileAt(data, o) => data[o].length = Uninit
    BY <1>1 DEF LayoutInv, Scanned
  <2>3. x \in Cell /\ x.t = "header" /\ 1 \in DOMAIN data /\ data[1].t = "header"
    BY <1>2 DEF Header, Cell, PlainCell, Tree, Laid
  <2> HIDE DEF x, W
  <2>4. Touching(data, tree, W, 1, x, data')
    BY <1>2, <2>1, <2>3 DEF Touching
  <2>5. /\ Owning(data', tree)
        /\ \A o : NodeAt(data', o) <=> NodeAt(data, o)
        /\ \A o : NodeAt(data, o) => (o = 1 /\ data'[o] = x) \/ data'[o] = data[o]
    BY <2>2, <2>3, <2>4, OwningTouched
  <2>6. /\ \A o : NodeAt(data, o) => data'[o] = data[o]
    BY <2>3, <2>5 DEF NodeAt
  <2>7. NodeAt(data, 2)
    BY <1>2 DEF DirAt, NodeAt
  <2>8. /\ Len(queue') = 1 /\ DOMAIN queue' = {1} /\ queue'[1].path = Root /\ queue'[1].at = 1
    BY <2>1
  <2>9. data'[2] = data[2] /\ NodeAt(data', 2)
    BY <2>5, <2>6, <2>7
  <2>10. LeadsTo(data', tree', 1, Root) /\ queue' \in Seq(QueueRecord)
    <3>1. Root \in DOMAIN tree /\ Root \in Seq(Names)
      BY <1>2, <2>7, NodeIs
    <3>2. LeadsTo(data', tree', 1, Root)
      BY <1>1, <1>2, <2>9, <3>1 DEF LeadsTo, NodeAt
    <3>3. [at |-> 1, path |-> Root] \in QueueRecord
      BY <3>1 DEF QueueRecord
    <3> QED
      BY <2>1, <3>2, <3>3
  <2>11. ASSUME NEW o, FileAt(data', o)
         PROVE  data'[o].length = Uninit /\ Below(data[o].stat)'
    <3>1. NodeAt(data, o) /\ data'[o] = data[o] /\ FileAt(data, o)
      BY <2>5, <2>6, <2>11 DEF FileAt
    <3>2. data'[o].stat \in Seq(Names)
      BY <1>2, <3>1, NodeIs
    <3>3. Begun(data'[o].stat, 0) = Root /\ 0 \in 0..Len(data'[o].stat)
      BY <3>2, Beginnings
    <3>4. Below(data[o].stat)'
      BY <2>8, <3>3 DEF Below
    <3> QED
      BY <2>2, <3>1, <3>4
  <2>12. Placing'
    <3>1. \A k \in DOMAIN queue' : LeadsTo(data', tree', queue'[k].at, queue'[k].path)
      BY <2>8, <2>10
    <3>2. Len(queue') = 1 /\ data'[2].length = Len(tree'[Root].names)
      BY <1>1, <2>2, <2>8, <2>9
    <3> QED
      BY <2>1, <2>10, <2>11, <3>1, <3>2 DEF Placing
  <2>13. Scanned'
    BY <2>1 DEF Scanned
  <2> QED
    BY <1>1, <2>5, <2>12, <2>13 DEF LayoutInv
<1> QED
  BY <1>5, <1>6

(* ... and those that place the files.                                     *)
LEMMA TailIs ==
  ASSUME NEW S, NEW q \in Seq(S), q # << >>, NEW r \in Seq(S)
  PROVE  /\ 1 \in DOMAIN q /\ Len(q) \in Nat /\ Len(q) >= 1 /\ DOMAIN q = 1..Len(q)
         /\ Tail(q) \in Seq(S) /\ DOMAIN Tail(q) = 1..(Len(q) - 1)
         /\ \A k \in 1..(Len(q) - 1) : Tail(q)[k] = q[k + 1]
         /\ Tail(q) \o r \in Seq(S) /\ DOMAIN (Tail(q) \o r) = 1..(Len(q) - 1 + Len(r))
         /\ \A k \in 1..(Len(q) - 1) : (Tail(q) \o r)[k] = q[k + 1]
         /\ \A k \in 1..Len(r) : (Tail(q) \o r)[Len(q) - 1 + k] = r[k]
<1>1. 1 \in DOMAIN q /\ Len(q) \in Nat /\ Len(q) >= 1 /\ DOMAIN q = 1..Len(q)
  OBVIOUS
<1> DEFINE t == Tail(q)
<1>2. t \in Seq(S) /\ Len(t) = Len(q) - 1 /\ \A k \in 1..(Len(q) - 1) : t[k] = q[k + 1]
  OBVIOUS
<1> HIDE DEF t
<1>3. /\ t \o r \in Seq(S) /\ Len(t \o r) = Len(t) + Len(r)
      /\ \A k \in 1..Len(t) : (t \o r)[k] = t[k]
      /\ \A k \in 1..Len(r) : (t \o r)[Len(t) + k] = r[k]
  <2>1. r \in Seq(S) /\ t \in Seq(S)
    BY <1>2
  <2> QED
    BY ONLY <2>1, Concatenated
<1>4. DOMAIN t = 1..Len(t) /\ DOMAIN (t \o r) = 1..Len(t \o r)
  BY <1>2, <1>3
<1> QED
  BY <1>1, <1>2, <1>3, <1>4 DEF t

(* What is taken of the queue.                                             *)
LEMMA FirstIs ==
  ASSUME ImageInv, LayoutInv, Turn
  PROVE  /\ stage = "place" /\ queue \in Seq(QueueRecord) /\ queue # << >>
         /\ Tree(data, tree, {}) /\ Awaited(stack, tree) = {} /\ Owning(data, tree) /\ Rooted(tree)
         /\ data \in Seq(Cell)
         /\ 1 \in DOMAIN queue /\ First \in QueueRecord
         /\ NodeAt(data, 2) /\ data[2].kind = "dir" /\ data[2].stat = Root
         /\ First.path \in DOMAIN tree => Taken.t = "node"
         /\ Taken.t = "node" =>
              /\ NodeAt(data, First.at + 1) /\ Taken.stat = First.path /\ Taken \in NodeCell
              /\ First.path \in DOMAIN tree
<1>1. /\ stage = "place" /\ queue # << >> /\ BuildInv /\ Rooted(tree) /\ Owning(data, tree)
      /\ queue \in Seq(QueueRecord)
      /\ \A k \in DOMAIN queue : LeadsTo(data, tree, queue[k].at, queue[k].path)
  BY DEF ImageInv, LayoutInv, Turn, Placing
<1>2. stack = << >> /\ Tree(data, tree, Awaited(stack, tree)) /\ DirAt(data, 2) /\ data[2].stat = Root
  BY <1>1 DEF BuildInv
<1>3. Awaited(stack, tree) = {}
  BY <1>2 DEF Awaited
<1>4. Tree(data, tree, {}) /\ data \in Seq(Cell) /\ data[1].t = "header" /\ 1 \in DOMAIN data
  BY <1>2, <1>3 DEF Tree, Laid
<1>5. 1 \in DOMAIN queue /\ First \in QueueRecord
  BY <1>1 DEF First
<1>6. LeadsTo(data, tree, First.at, First.path)
  BY <1>1, <1>5 DEF First
<1>7. NodeAt(data, 2) /\ data[2].kind = "dir"
  BY <1>2 DEF DirAt, NodeAt
<1>8. CASE First.path \in DOMAIN tree
  <2>1. NodeAt(data, First.at + 1) /\ Taken.t = "node" /\ Taken.stat = First.path
    BY <1>6, <1>8 DEF LeadsTo, NodeAt, Taken
  <2>2. Taken \in NodeCell
    BY <1>2, <2>1, NodeIs DEF Taken
  <2> QED
    BY <1>1, <1>2, <1>3, <1>4, <1>5, <1>7, <1>8, <2>1, <2>2
<1>9. CASE First.path \notin DOMAIN tree
  <2>1. First.at + 1 = 1
    BY <1>6, <1>9 DEF LeadsTo
  <2>2. Taken.t = "header"
    BY <1>4, <2>1 DEF Taken
  <2> QED
    BY <1>1, <1>2, <1>3, <1>4, <1>5, <1>7, <1>9, <2>2
<1> QED
  BY <1>8, <1>9

(* A file that waits goes on waiting for another of the queue, or for one  *)
(* in the directory that is taken.                                         *)
Later(p) ==
  \E k \in 2..Len(queue) : \E n \in 0..Len(p) : queue[k].path = Begun(p, n)

InTaken(p) ==
  /\ First.path \in DOMAIN tree /\ tree[First.path].kind = "dir"
  /\ \E j \in 1..Len(tree[First.path].names) : \E n \in 0..Len(p) :
       Append(First.path, tree[First.path].names[j]) = Begun(p, n)

LEMMA Waiting ==
  ASSUME ImageInv, LayoutInv, Turn, NEW p \in DOMAIN tree, p \in Seq(Names), Below(p),
         First.path # p
  PROVE  Later(p) \/ InTaken(p)
<1>1. /\ queue \in Seq(QueueRecord) /\ Rooted(tree) /\ Tree(data, tree, {}) /\ queue # << >>
  BY FirstIs
<1>2. PICK k \in DOMAIN queue : \E n \in 0..Len(p) : queue[k].path = Begun(p, n)
  BY DEF Below
<1>3. k = 1 \/ k \in 2..Len(queue)
  BY <1>1
<1>4. CASE k = 1
  <2>1. PICK n \in 0..Len(p) : First.path = Begun(p, n)
    BY <1>2, <1>4 DEF First
  <2>2. Len(p) \in Nat /\ Begun(p, Len(p)) = p
    BY Beginnings
  <2>3. n # Len(p)
    BY <2>1, <2>2
  <2>4. n \in 0..(Len(p) - 1) /\ n + 1 \in 0..Len(p)
    BY <2>2, <2>3
  <2>5. /\ Begun(p, n) \in DOMAIN tree
        /\ \E j \in 1..Len(tree[Begun(p, n)].names) : tree[Begun(p, n)].names[j] = p[n + 1]
    BY <1>1, <2>4 DEF Rooted
  <2>6. PICK j \in 1..Len(tree[First.path].names) : tree[First.path].names[j] = p[n + 1]
    BY <2>1, <2>5
  <2>7. Begun(p, n + 1) = Append(First.path, tree[First.path].names[j])
    BY <2>1, <2>4, <2>6, Beginnings
  <2>8. tree[First.path].kind = "dir"
    <3>1. GoodAnswer(tree[First.path])
      BY <1>1, <2>1, <2>5 DEF Tree, Grown
    <3>2. tree[First.path].names # << >>
      BY <2>6
    <3> QED
      BY <3>1, <3>2 DEF GoodAnswer
  <2> QED
    BY <2>1, <2>4, <2>5, <2>6, <2>7, <2>8 DEF InTaken
<1>5. CASE k \in 2..Len(queue)
  BY <1>2, <1>5 DEF Later
<1> QED
  BY <1>3, <1>4, <1>5

(* A file waits for none of the same path but itself.                      *)
LEMMA OneNode ==
  ASSUME NEW cells, NEW tr, NEW W, Tree(cells, tr, W), Owning(cells, tr),
         NEW o1, NodeAt(cells, o1), NEW o2, NodeAt(cells, o2), cells[o1].stat = cells[o2].stat
  PROVE  o1 = o2
<1>1. o1 \in Nat /\ o2 \in Nat
  BY NodeIs
<1>2. ~(o1 < o2) /\ ~(o2 < o1)
  BY DEF Owning, Spread
<1> QED
  BY ONLY <1>1, <1>2

LEMMA LeadsKept ==
  ASSUME NEW cells, NEW tr, NEW cells2, NEW to, NEW p, LeadsTo(cells, tr, to, p),
         \A o : NodeAt(cells, o) => NodeAt(cells2, o) /\ cells2[o].stat = cells[o].stat
  PROVE  LeadsTo(cells2, tr, to, p)
  BY DEF LeadsTo, NodeAt

(* Two sequences, whatever they are of.                                    *)
LEMMA PutBehind ==
  ASSUME NEW S, NEW T, NEW s \in Seq(S), NEW t \in Seq(T)
  PROVE  /\ Len(s) \in Nat /\ Len(t) \in Nat /\ Len(s \o t) = Len(s) + Len(t)
         /\ \A k \in 1..Len(s) : (s \o t)[k] = s[k]
         /\ \A k \in 1..Len(t) : (s \o t)[Len(s) + k] = t[k]
<1> DEFINE D == S \cup T
<1>1. s \in Seq(D) /\ t \in Seq(D)
  OBVIOUS
<1> HIDE DEF D
<1>2. /\ Len(s \o t) = Len(s) + Len(t)
      /\ \A k \in 1..Len(s) : (s \o t)[k] = s[k]
      /\ \A k \in 1..Len(t) : (s \o t)[Len(s) + k] = t[k]
  BY ONLY <1>1, Concatenated
<1> QED
  BY ONLY <1>1, <1>2

LEMMA StoredStays ==
  ASSUME NEW bytes, NEW S, bytes \in Seq(S), NEW T, NEW t \in Seq(T), NEW bytes2, bytes2 = bytes \o t,
         NEW cells, NEW cells2, Len(cells2) = Len(cells), NEW c, Stored(c, cells, bytes)
  PROVE  Stored(c, cells2, bytes2)
<1>1. /\ Len(bytes) \in Nat /\ Len(t) \in Nat /\ Len(bytes2) = Len(bytes) + Len(t)
      /\ \A k \in 1..Len(bytes) : bytes2[k] = bytes[k]
  BY PutBehind
<1> DEFINE at == c.data_offset - Len(cells)
<1>2. /\ c.length \in Nat /\ at \in Nat /\ at + c.length <= Len(bytes)
      /\ \A k \in 1..c.length : bytes[at + k] = Content(c.stat, k)
  BY DEF Stored
<1>3. at = c.data_offset - Len(cells2)
  OBVIOUS
<1> HIDE DEF at
<1>4. at + c.length <= Len(bytes2)
  BY ONLY <1>1, <1>2
<1>5. \A k \in 1..c.length : at + k \in 1..Len(bytes)
  BY ONLY <1>1, <1>2
<1>6. \A k \in 1..c.length : bytes2[at + k] = Content(c.stat, k)
  BY ONLY <1>1, <1>2, <1>5
<1> QED
  BY <1>2, <1>3, <1>4, <1>6 DEF Stored

(* The first of the queue has been dealt with.                             *)
Passing ==
  /\ UNCHANGED <<tree, stack>> /\ queue' = Tail(queue) /\ stage' \in {"place", "dead"}
  /\ Owning(data', tree)
  /\ \A o : NodeAt(data', o) <=> NodeAt(data, o)
  /\ \A o : NodeAt(data, o) => data'[o].stat = data[o].stat /\ data'[o].kind = data[o].kind
  /\ \A o : FileAt(data, o) =>
       \/ data'[o].length = 0
       \/ Stored(data'[o], data', blob')
       \/ data[o].length = Uninit /\ data'[o].length = Uninit /\ data[o].stat # First.path

LEMMA Passed ==
  ASSUME ImageInv, LayoutInv, Turn, Passing,
         First.path \in DOMAIN tree => tree[First.path].kind # "dir"
  PROVE  LayoutInv'
<1>1. /\ stage = "place" /\ queue \in Seq(QueueRecord) /\ queue # << >> /\ Tree(data, tree, {})
      /\ \A k \in DOMAIN queue : LeadsTo(data, tree, queue[k].at, queue[k].path)
      /\ (\E k \in DOMAIN queue : queue[k].path = Root) => Len(queue) = 1
      /\ \A o : FileAt(data, o) =>
           \/ data[o].length = 0
           \/ data[o].length = Uninit /\ Below(data[o].stat)
           \/ Stored(data[o], data, blob)
  <2>1. stage = "place" /\ queue # << >> /\ Tree(data, tree, {})
    BY FirstIs
  <2>2. /\ queue \in Seq(QueueRecord)
        /\ \A k \in DOMAIN queue : LeadsTo(data, tree, queue[k].at, queue[k].path)
        /\ (\E k \in DOMAIN queue : queue[k].path = Root) => Len(queue) = 1
    BY DEF LayoutInv, Placing
  <2>3. ASSUME NEW o, FileAt(data, o)
        PROVE  \/ data[o].length = 0
               \/ data[o].length = Uninit /\ Below(data[o].stat)
               \/ Stored(data[o], data, blob)
    BY <2>1, <2>3 DEF LayoutInv, Placing
  <2> QED
    BY ONLY <2>1, <2>2, <2>3
<1>2. << >> \in Seq(QueueRecord)
  OBVIOUS
<1>3. /\ Len(queue) \in Nat /\ Len(queue) >= 1 /\ DOMAIN queue = 1..Len(queue)
      /\ queue' \in Seq(QueueRecord) /\ DOMAIN queue' = 1..(Len(queue) - 1)
      /\ \A k \in 1..(Len(queue) - 1) : queue'[k] = queue[k + 1]
  BY <1>1, <1>2, TailIs DEF Passing
<1>4. \A k \in DOMAIN queue' : LeadsTo(data', tree', queue'[k].at, queue'[k].path)
  <2> SUFFICES ASSUME NEW k \in DOMAIN queue'
               PROVE  LeadsTo(data', tree, queue'[k].at, queue'[k].path)
    BY DEF Passing
  <2>1. k + 1 \in DOMAIN queue /\ queue'[k] = queue[k + 1]
    BY <1>3
  <2>2. LeadsTo(data, tree, queue'[k].at, queue'[k].path)
    BY <1>1, <2>1
  <2> QED
    BY <2>2, LeadsKept DEF Passing
<1>5. \A k \in DOMAIN queue' : queue'[k].path # Root
  <2> SUFFICES ASSUME NEW k \in DOMAIN queue', queue'[k].path = Root
               PROVE  FALSE
    OBVIOUS
  <2>1. k + 1 \in DOMAIN queue /\ queue'[k] = queue[k + 1]
    BY <1>3
  <2>2. Len(queue) = 1
    BY <1>1, <2>1
  <2> QED
    BY <1>3, <2>2
<1>6. ASSUME NEW o, FileAt(data', o)
      PROVE  \/ data'[o].length = 0
             \/ data'[o].length = Uninit /\ Below(data[o].stat)'
             \/ Stored(data'[o], data', blob')
  <2>1. NodeAt(data, o) /\ FileAt(data, o) /\ data'[o].stat = data[o].stat
    BY <1>6 DEF Passing, FileAt
  <2>2. CASE /\ data[o].length = Uninit /\ data'[o].length = Uninit /\ data[o].stat # First.path
    <3> DEFINE p == data[o].stat
    <3>1. p \in DOMAIN tree /\ p \in Seq(Names)
      BY <1>1, <2>1, NodeIs
    <3>2. data[o].length # 0 /\ ~Stored(data[o], data, blob)
      BY <2>2 DEF Uninit, Stored
    <3>3. Below(p)
      BY <1>1, <2>1, <3>2
    <3>4. Later(p) \/ InTaken(p)
      BY <2>2, <3>1, <3>3, Waiting
    <3>5. Later(p)
      BY <3>4 DEF InTaken
    <3>6. p = data'[o].stat
      BY <2>1
    <3> HIDE DEF p
    <3>7. PICK k \in 2..Len(queue) : \E n \in 0..Len(p) : queue[k].path = Begun(p, n)
      BY <3>5 DEF Later
    <3>8. k - 1 \in DOMAIN queue' /\ queue'[k - 1] = queue[k]
      BY <1>3
    <3>9. Below(data[o].stat)'
      BY <3>6, <3>7, <3>8 DEF Below
    <3> QED
      BY <2>2, <3>9
  <2>3. \/ data'[o].length = 0
        \/ Stored(data'[o], data', blob')
        \/ data[o].length = Uninit /\ data'[o].length = Uninit /\ data[o].stat # First.path
    BY <2>1 DEF Passing
  <2> QED
    BY <2>2, <2>3
<1>7. Placing'
  BY <1>3, <1>4, <1>5, <1>6 DEF Placing, Passing
<1>8. Scanned'
  BY DEF Scanned, Passing
<1> QED
  BY <1>7, <1>8 DEF LayoutInv, Passing

LEMMA PlacedLayout ==
  ASSUME ImageInv, LayoutInv, Turn, Taken.t = "node", Taken.kind = "file",
         NEW to \in Int, NEW length \in Nat, NEW n \in Nat,
         data' = [data EXCEPT ![First.at + 1] = [@ EXCEPT !.data_offset = to, !.length = length]],
         blob' = blob \o [k \in 1..n |-> Content(First.path, k)],
         length = 0 \/ (to = Len(data) + Len(blob) /\ length = n),
         queue' = Tail(queue), UNCHANGED <<tree, stack, stage>>
  PROVE  LayoutInv'
<1> DEFINE i == First.at + 1
           x == Placed(Taken, to, length)
           t == [k \in 1..n |-> Content(First.path, k)]
<1>1. /\ stage = "place" /\ Tree(data, tree, {}) /\ Owning(data, tree) /\ data \in Seq(Cell)
      /\ NodeAt(data, i) /\ Taken.stat = First.path /\ Taken \in NodeCell /\ Taken = data[i]
      /\ First.path \in DOMAIN tree /\ NodeAt(data, 2) /\ data[2].kind = "dir"
  BY FirstIs DEF Taken
<1>2. x \in NodeCell /\ x.t = "node" /\ x.stat = Taken.stat /\ x.kind = Taken.kind
      /\ x.xattrs_count = Taken.xattrs_count /\ x.data_offset = to /\ x.length = length
  <2> DEFINE c == Taken
  <2>1. c \in NodeCell /\ length \in Int
    BY <1>1
  <2> HIDE DEF c
  <2>2. LET y == Placed(c, to, length)
        IN  y \in NodeCell /\ y.t = "node" /\ y.stat = c.stat /\ y.kind = c.kind
            /\ y.xattrs_count = c.xattrs_count /\ y.data_offset = to /\ y.length = length
    BY ONLY <2>1, to \in Int DEF NodeCell, Placed
  <2> QED
    BY <2>2 DEF c
<1>3. data' = [data EXCEPT ![i] = x]
  BY DEF Placed, Taken
<1> HIDE DEF x, i
<1>4. Touching(data, tree, {}, i, x, data')
  <2>1. x \in Cell
    BY <1>2 DEF Cell
  <2>2. i \in DOMAIN data /\ data[i].t = "node"
    BY <1>1 DEF NodeAt
  <2> QED
    BY <1>1, <1>2, <1>3, <2>1, <2>2 DEF Touching
<1>5. /\ Owning(data', tree)
      /\ \A o : NodeAt(data', o) <=> NodeAt(data, o)
      /\ \A o : NodeAt(data, o) => (o = i /\ data'[o] = x) \/ data'[o] = data[o]
  <2>1. /\ i # 2 /\ x.t = "node" => x.xattrs_count = data[i].xattrs_count
        /\ x.t = "header" => i = 1
    BY <1>1, <1>2
  <2> DEFINE W == {}
  <2>2. Touching(data, tree, W, i, x, data') /\ Owning(data, tree)
    BY <1>1, <1>4
  <2> HIDE DEF W
  <2> QED
    BY ONLY <2>1, <2>2, OwningTouched
<1>6. Len(data') = Len(data) /\ data'[i] = x
  BY ONLY <1>4, Touched
<1>7. t \in Seq({t[k] : k \in 1..n}) /\ Len(t) = n /\ \A k \in 1..n : t[k] = Content(First.path, k)
  BY ContentIs
<1>8. PICK S : blob \in Seq(S)
  BY DEF ImageInv, BuildInv, Bytes
<1> HIDE DEF t
<1>9. blob' = blob \o t
  BY DEF t
<1>10. length # 0 => Stored(x, data', blob')
  <2> SUFFICES ASSUME length # 0
               PROVE  Stored(x, data', blob')
    OBVIOUS
  <2>1. to = Len(data) + Len(blob) /\ length = n
    OBVIOUS
  <2>3. /\ Len(blob') = Len(blob) + n /\ Len(blob) \in Nat
        /\ \A k \in 1..n : blob'[Len(blob) + k] = t[k]
    <3>1. PICK T : t \in Seq(T)
      BY ONLY <1>7
    <3>2. /\ Len(blob) \in Nat /\ Len(blob \o t) = Len(blob) + Len(t)
          /\ \A k \in 1..Len(t) : (blob \o t)[Len(blob) + k] = t[k]
      BY ONLY <1>8, <3>1, PutBehind
    <3> QED
      BY ONLY <1>7, <1>9, <3>2
  <2>4. Len(data) \in Nat
    BY <1>1
  <2>5. x.data_offset - Len(data') = Len(blob)
    BY <1>2, <1>6, <2>1, <2>3, <2>4
  <2> QED
    <3>1. x.length = n /\ x.stat = First.path
      BY <1>1, <1>2, <2>1
    <3>2. /\ Len(blob) + n <= Len(blob')
          /\ \A k \in 1..n : blob'[Len(blob) + k] = Content(First.path, k)
      BY ONLY <1>7, <2>3, n \in Nat
    <3> QED
      BY ONLY <2>3, <2>5, <3>1, <3>2, n \in Nat DEF Stored
<1>11. ASSUME NEW o, FileAt(data, o)
       PROVE  \/ data'[o].length = 0
              \/ Stored(data'[o], data', blob')
              \/ data[o].length = Uninit /\ data'[o].length = Uninit /\ data[o].stat # First.path
  <2>1. NodeAt(data, o)
    BY <1>11 DEF FileAt
  <2>2. CASE o = i
    BY <1>2, <1>6, <1>10, <2>2
  <2>3. CASE o # i
    <3>1. data'[o] = data[o]
      BY <1>5, <2>1, <2>3
    <3>2. data[o].stat # First.path
      BY <1>1, <2>1, <2>3, OneNode
    <3>3. ASSUME Stored(data[o], data, blob)
          PROVE  Stored(data'[o], data', blob')
      <4> DEFINE c == data[o]
      <4>1. Stored(c, data, blob) /\ data'[o] = c
        BY <3>1, <3>3
      <4> HIDE DEF c
      <4> DEFINE T == {t[k] : k \in 1..n}
      <4>2. t \in Seq(T)
        BY <1>7
      <4> HIDE DEF T
      <4>3. Len(data') = Len(data)
        BY <1>6
      <4>4. Stored(c, data', blob')
        BY ONLY <1>8, <1>9, <4>1, <4>2, <4>3, StoredStays
      <4> QED
        BY <4>1, <4>4
    <3>4. data[o].length = 0 \/ data[o].length = Uninit \/ Stored(data[o], data, blob)
      BY <1>11 DEF LayoutInv, Placing
    <3> QED
      BY <3>1, <3>2, <3>3, <3>4
  <2> QED
    BY <2>2, <2>3
<1>12. \A o : NodeAt(data, o) => data'[o].stat = data[o].stat /\ data'[o].kind = data[o].kind
  BY <1>1, <1>2, <1>5
<1>13. Passing
  BY <1>1, <1>5, <1>11, <1>12 DEF Passing
<1>14. tree[First.path].kind # "dir"
  <2>1. data[i].kind = tree[data[i].stat].kind
    BY <1>1, NodeIs
  <2> QED
    BY <1>1, <2>1
<1> QED
  BY <1>13, <1>14, Passed

LEMMA PlaceLayout ==
  ASSUME ImageInv, LayoutInv, PlaceFile \/ DenyFile
  PROVE  LayoutInv'
<1>1. CASE PlaceFile
  <2>1. PICK n \in Lengths :
          /\ data' = [data EXCEPT ![First.at + 1] =
                        [@ EXCEPT !.data_offset = Len(data) + Len(blob), !.length = n]]
          /\ blob' = blob \o [k \in 1..n |-> Content(First.path, k)]
    BY <1>1 DEF PlaceFile
  <2>2. n \in Nat
    BY LengthsAssumption
  <2>3. Len(data) + Len(blob) \in Int
    <3>1. PICK S : blob \in Seq(S)
      BY DEF ImageInv, BuildInv, Bytes
    <3>2. data \in Seq(Cell)
      BY DEF ImageInv, BuildInv, Tree, Laid
    <3> QED
      BY <3>1, <3>2
  <2>4. Turn /\ Taken.t = "node" /\ Taken.kind = "file" /\ queue' = Tail(queue)
        /\ UNCHANGED <<tree, stack, stage>>
    BY <1>1 DEF PlaceFile
  <2> QED
    BY <2>1, <2>2, <2>3, <2>4, PlacedLayout
<1>2. CASE DenyFile
  <2>1. PICK n \in 0..1 : blob' = blob \o [k \in 1..n |-> Content(First.path, k)]
    BY <1>2 DEF DenyFile
  <2>2. n \in Nat /\ Wrap - 1 \in Int /\ 0 \in Nat
    BY CellsAssumption
  <2>3. /\ Turn /\ Taken.t = "node" /\ Taken.kind = "file" /\ queue' = Tail(queue)
        /\ UNCHANGED <<tree, stack, stage>>
        /\ data' = [data EXCEPT ![First.at + 1] =
                      [@ EXCEPT !.data_offset = Wrap - 1, !.length = 0]]
    BY <1>2 DEF DenyFile
  <2> QED
    BY <2>1, <2>2, <2>3, PlacedLayout
<1> QED
  BY <1>1, <1>2

(* No file is taken.                                                       *)
LEMMA SkippedLayout ==
  ASSUME ImageInv, LayoutInv, Turn, UNCHANGED <<tree, stack>>, queue' = Tail(queue),
         \A c : Stored(c, data, blob) => Stored(c, data', blob'),
         stage' \in {"place", "dead"}, Owning(data', tree), Len(data') = Len(data),
         \A o : NodeAt(data', o) <=> NodeAt(data, o),
         \A o : NodeAt(data, o) => data'[o].stat = data[o].stat /\ data'[o].kind = data[o].kind,
         \A o : FileAt(data, o) => data'[o] = data[o] /\ data[o].stat # First.path,
         First.path \in DOMAIN tree => tree[First.path].kind # "dir"
  PROVE  LayoutInv'
<1>1. ASSUME NEW o, FileAt(data, o)
      PROVE  \/ data'[o].length = 0
             \/ Stored(data'[o], data', blob')
             \/ data[o].length = Uninit /\ data'[o].length = Uninit /\ data[o].stat # First.path
  <2>1. data'[o] = data[o] /\ data[o].stat # First.path
    BY <1>1
  <2>2. data[o].length = 0 \/ data[o].length = Uninit \/ Stored(data[o], data, blob)
    BY <1>1 DEF LayoutInv, Placing
  <2>3. Stored(data[o], data, blob) => Stored(data'[o], data', blob')
    BY <2>1
  <2> QED
    BY <2>1, <2>2, <2>3
<1>2. Passing
  BY <1>1 DEF Passing
<1> QED
  BY <1>2, Passed

LEMMA PlaceLinkLayout ==
  ASSUME ImageInv, LayoutInv, PlaceLink
  PROVE  LayoutInv'
<1>1. /\ Turn /\ Taken.t = "node" /\ Taken.kind = "link" /\ queue' = Tail(queue)
      /\ UNCHANGED <<tree, data, stack, blob, stage>>
  BY DEF PlaceLink
<1>2. /\ stage = "place" /\ Tree(data, tree, {}) /\ Owning(data, tree)
      /\ NodeAt(data, First.at + 1) /\ Taken.stat = First.path /\ Taken = data[First.at + 1]
  BY <1>1, FirstIs DEF Taken
<1>3. ASSUME NEW o, FileAt(data, o)
      PROVE  data[o].stat # First.path
  <2>1. NodeAt(data, o) /\ o # First.at + 1
    BY <1>1, <1>2, <1>3 DEF FileAt
  <2> QED
    BY <1>2, <2>1, OneNode
<1>4. tree[First.path].kind # "dir"
  BY <1>1, <1>2, NodeIs
<1>5. \A c : Stored(c, data, blob) => Stored(c, data', blob')
  BY <1>1 DEF Stored
<1> QED
  BY <1>1, <1>2, <1>3, <1>4, <1>5, SkippedLayout

LEMMA PlaceHeaderLayout ==
  ASSUME ImageInv, LayoutInv, PlaceHeader
  PROVE  LayoutInv'
<1>1. /\ Turn /\ Taken.t = "header" /\ queue' = Tail(queue) /\ UNCHANGED <<tree, stack>>
  BY DEF PlaceHeader
<1>2. /\ stage = "place" /\ Tree(data, tree, {}) /\ Owning(data, tree) /\ data \in Seq(Cell)
      /\ NodeAt(data, 2) /\ data[2].kind = "dir" /\ First.path \notin DOMAIN tree
  BY <1>1, FirstIs
<1>3. \A o : FileAt(data, o) => o # 2 /\ data[o].stat # First.path
  BY <1>2, NodeIs DEF FileAt
<1>4. CASE UNCHANGED <<data, blob>> /\ stage' \in {stage, "dead"}
  <2>1. stage' \in {"place", "dead"}
    BY <1>2, <1>4
  <2>2. \A c : Stored(c, data, blob) => Stored(c, data', blob')
    BY <1>4 DEF Stored
  <2> QED
    BY <1>1, <1>2, <1>3, <1>4, <2>1, <2>2, SkippedLayout
<1>5. ASSUME NEW length \in Int, NEW xattrs \in Nat, NEW n \in Nat,
             SetRoot(length, xattrs), UNCHANGED stage,
             blob' = blob \o [k \in 1..n |-> Content(First.path, k)]
      PROVE  LayoutInv'
  <2> DEFINE W == {}
             t == [k \in 1..n |-> Content(First.path, k)]
             x == Overwritten(data[2], length, xattrs)
  <2>1. DirAt(data, 2)
    BY <1>2 DEF DirAt, NodeAt
  <2>2. /\ Touching(data, tree, W, 2, x, data')
        /\ x.t = "node" /\ x.stat = data[2].stat /\ x.kind = data[2].kind
    BY <1>2, <1>5, <2>1, RootTouched
  <2>3. t \in Seq({t[k] : k \in 1..n})
    BY ContentIs
  <2>4. blob' = blob \o t
    BY <1>5
  <2> HIDE DEF t, x, W
  <2>5. Owning(data, tree) /\ (2 # 2 /\ x.t = "node" => x.xattrs_count = data[2].xattrs_count)
        /\ (x.t = "header" => 2 = 1)
    BY <1>2, <2>2
  <2>7. /\ Owning(data', tree)
        /\ \A o : NodeAt(data', o) <=> NodeAt(data, o)
        /\ \A o : NodeAt(data, o) => (o = 2 /\ data'[o] = x) \/ data'[o] = data[o]
    BY ONLY <2>2, <2>5, OwningTouched
  <2>8. Len(data') = Len(data)
    BY ONLY <2>2, Touched
  <2>9. ASSUME NEW o, NodeAt(data, o)
        PROVE  data'[o].stat = data[o].stat /\ data'[o].kind = data[o].kind
    BY <2>2, <2>7, <2>9
  <2>10. ASSUME NEW o, FileAt(data, o)
         PROVE  data'[o] = data[o] /\ data[o].stat # First.path
    BY <1>3, <2>7, <2>10 DEF FileAt
  <2>11. stage' \in {"place", "dead"}
    BY <1>2, <1>5
  <2>12. PICK S : blob \in Seq(S)
    BY DEF ImageInv, BuildInv, Bytes
  <2>13. ASSUME NEW c, Stored(c, data, blob)
         PROVE  Stored(c, data', blob')
    <3> DEFINE T == {t[k] : k \in 1..n}
    <3>1. t \in Seq(T)
      BY <2>3
    <3> HIDE DEF T
    <3> QED
      BY ONLY <2>4, <2>8, <2>12, <2>13, <3>1, StoredStays
  <2> QED
    BY <1>1, <1>2, <2>7, <2>8, <2>9, <2>10, <2>11, <2>13, SkippedLayout
<1> QED
  BY <1>4, <1>5, HeaderWrites DEF ImageInv

(* What the entries of a directory put in the queue.                       *)
LEMMA TakenNames ==
  ASSUME ImageInv, LayoutInv, Turn, Taken.t = "node", Taken.kind = "dir"
  PROVE  LET names == tree[First.path].names
             child(k) == [at |-> data[Taken.data_offset + k].data_offset,
                          path |-> Append(First.path, data[data[Taken.data_offset + k].name_offset + 1].is)]
         IN  /\ Taken.length = Len(names) /\ Len(names) \in Nat
             /\ \A k \in 1..Len(names) :
                  /\ child(k) \in QueueRecord /\ child(k).path = Append(First.path, names[k])
                  /\ child(k).path # Root /\ LeadsTo(data, tree, child(k).at, child(k).path)
<1> DEFINE o == First.at + 1
           names == tree[First.path].names
<1>1. /\ Tree(data, tree, {}) /\ NodeAt(data, o) /\ Taken.stat = First.path /\ Taken = data[o]
      /\ First.path \in DOMAIN tree /\ 1 \in DOMAIN queue
  BY FirstIs DEF Taken
<1>2. DirAt(data, o)
  BY <1>1 DEF DirAt, NodeAt
<1>3. Tabled(data, tree, o) /\ Linked(data, tree, {}, o)
  BY <1>1, <1>2 DEF Tree
<1>4. First.path \in Seq(Names) /\ GoodAnswer(tree[First.path])
  BY <1>1, NodeIs
<1>5. Len(names) \in Nat /\ \A k \in 1..Len(names) : names[k] \in Names
  BY <1>4, NamesDiffer
<1>6. Taken.length = Len(names)
  <2>1. CASE o # 2
    BY <1>1, <1>3, <2>1 DEF Tabled
  <2>2. CASE o = 2
    <3>1. First.path = Root
      BY <1>1, <2>2 DEF ImageInv, BuildInv, Turn
    <3>2. data[2].length = Len(tree[Root].names)
      BY <1>1, <3>1 DEF LayoutInv, Placing, First
    <3> QED
      BY <1>1, <2>2, <3>1, <3>2
  <2> QED
    BY <2>1, <2>2
<1>7. ASSUME NEW k \in 1..Len(names)
      PROVE  LET e == data[Taken.data_offset + k]
                 p == Append(First.path, data[e.name_offset + 1].is)
             IN  /\ p = Append(First.path, names[k]) /\ p \in Seq(Names) /\ p # Root
                 /\ e.data_offset \in Nat /\ LeadsTo(data, tree, e.data_offset, p)
  <2> DEFINE e == data[Taken.data_offset + k]
             p == Append(First.path, names[k])
  <2>1. data[e.name_offset + 1] = Name(names[k])
    BY <1>1, <1>3 DEF Tabled
  <2>2. LeadsTo(data, tree, e.data_offset, p)
    BY <1>1, <1>3 DEF Linked
  <2>3. e.data_offset \in Nat
    BY <2>2 DEF LeadsTo
  <2>4. p \in Seq(Names) /\ p # Root
    BY <1>4, <1>5, Appended
  <2>5. data[e.name_offset + 1].is = names[k]
    BY <2>1 DEF Name
  <2> QED
    BY <2>2, <2>3, <2>4, <2>5
<1> HIDE DEF o
<1> QED
  BY <1>5, <1>6, <1>7 DEF QueueRecord

LEMMA PlaceDirLayout ==
  ASSUME ImageInv, LayoutInv, PlaceDir
  PROVE  LayoutInv'
<1> DEFINE names == tree[First.path].names
           child(k) == [at |-> data[Taken.data_offset + k].data_offset,
                        path |-> Append(First.path, data[data[Taken.data_offset + k].name_offset + 1].is)]
           r == [k \in 1..Taken.length |-> child(k)]
           n == Len(queue)
<1>1. /\ Turn /\ Taken.t = "node" /\ Taken.kind = "dir" /\ queue' = Tail(queue) \o r
      /\ UNCHANGED <<tree, data, stack, blob, stage>>
  BY DEF PlaceDir
<1>2. /\ stage = "place" /\ queue \in Seq(QueueRecord) /\ queue # << >> /\ Tree(data, tree, {})
      /\ Owning(data, tree) /\ First.path \in DOMAIN tree
      /\ NodeAt(data, First.at + 1) /\ Taken.stat = First.path /\ Taken = data[First.at + 1]
  BY <1>1, FirstIs DEF Taken
<1>3. /\ Taken.length = Len(names) /\ Len(names) \in Nat
      /\ \A k \in 1..Len(names) :
           /\ child(k) \in QueueRecord /\ child(k).path = Append(First.path, names[k])
           /\ child(k).path # Root /\ LeadsTo(data, tree, child(k).at, child(k).path)
  BY <1>1, TakenNames
<1> HIDE DEF child
<1>4. r \in Seq(QueueRecord) /\ Len(r) = Len(names) /\ \A k \in 1..Len(names) : r[k] = child(k)
  <2> DEFINE m == Len(names)
  <2>1. r = [k \in 1..m |-> child(k)] /\ m \in Nat /\ \A k \in 1..m : child(k) \in QueueRecord
    BY <1>3
  <2> HIDE DEF r, m
  <2>2. r \in [1..m -> QueueRecord]
    BY ONLY <2>1
  <2>3. r \in Seq(QueueRecord) /\ Len(r) = m
    BY ONLY <2>1, <2>2
  <2> QED
    BY <2>1, <2>3 DEF m
<1> HIDE DEF r
<1>5. /\ n \in Nat /\ n >= 1 /\ DOMAIN queue = 1..n
      /\ queue' \in Seq(QueueRecord) /\ DOMAIN queue' = 1..(n - 1 + Len(names))
      /\ \A k \in 1..(n - 1) : queue'[k] = queue[k + 1]
      /\ \A k \in 1..Len(names) : queue'[n - 1 + k] = child(k)
  <2>1. /\ n \in Nat /\ n >= 1 /\ DOMAIN queue = 1..n
        /\ Tail(queue) \o r \in Seq(QueueRecord) /\ DOMAIN (Tail(queue) \o r) = 1..(n - 1 + Len(r))
        /\ \A k \in 1..(n - 1) : (Tail(queue) \o r)[k] = queue[k + 1]
        /\ \A k \in 1..Len(r) : (Tail(queue) \o r)[n - 1 + k] = r[k]
    <3>1. queue \in Seq(QueueRecord) /\ queue # << >> /\ r \in Seq(QueueRecord)
      BY <1>2, <1>4
    <3> QED
      BY ONLY <3>1, TailIs
  <2>2. queue' = Tail(queue) \o r /\ Len(r) = Len(names)
    BY <1>1, <1>4
  <2> HIDE DEF n, names
  <2> QED
    BY ONLY <1>4, <2>1, <2>2
<1>6. /\ \A k \in DOMAIN queue : LeadsTo(data, tree, queue[k].at, queue[k].path)
      /\ (\E k \in DOMAIN queue : queue[k].path = Root) => n = 1
  BY DEF LayoutInv, Placing
<1>7. ASSUME NEW k \in DOMAIN queue'
      PROVE  \/ k + 1 \in DOMAIN queue /\ queue'[k] = queue[k + 1] /\ n # 1
             \/ \E j \in 1..Len(names) : queue'[k] = child(j)
  <2> HIDE DEF n, names
  <2>1. CASE k <= n - 1
    <3>1. k \in 1..(n - 1) /\ k + 1 \in 1..n /\ n # 1
      BY ONLY <1>5, <1>3, <1>7, <2>1
    <3> QED
      BY <1>5, <3>1
  <2>2. CASE ~(k <= n - 1)
    <3>1. k - (n - 1) \in 1..Len(names) /\ n - 1 + (k - (n - 1)) = k
      BY ONLY <1>5, <1>3, <1>7, <2>2
    <3> QED
      BY <1>5, <3>1
  <2> QED
    BY <2>1, <2>2
<1> HIDE DEF n
<1>8. \A k \in DOMAIN queue' : LeadsTo(data', tree', queue'[k].at, queue'[k].path) /\ queue'[k].path # Root
  <2> SUFFICES ASSUME NEW k \in DOMAIN queue'
               PROVE  LeadsTo(data, tree, queue'[k].at, queue'[k].path) /\ queue'[k].path # Root
    BY <1>1
  <2>1. CASE k + 1 \in DOMAIN queue /\ queue'[k] = queue[k + 1] /\ n # 1
    BY <1>6, <2>1
  <2>2. CASE \E j \in 1..Len(names) : queue'[k] = child(j)
    BY <1>3, <2>2
  <2> QED
    BY <1>7, <2>1, <2>2
<1>9. ASSUME NEW o, FileAt(data', o)
      PROVE  \/ data'[o].length = 0
             \/ data'[o].length = Uninit /\ Below(data[o].stat)'
             \/ Stored(data'[o], data', blob')
  <2>1. NodeAt(data, o) /\ FileAt(data, o) /\ data' = data /\ blob' = blob
    BY <1>1, <1>9 DEF FileAt, NodeAt
  <2>2. CASE data[o].length = Uninit /\ Below(data[o].stat)
    <3> DEFINE p == data[o].stat
    <3>1. p \in DOMAIN tree /\ p \in Seq(Names) /\ tree[p].kind = "file"
      BY <1>2, <2>1, NodeIs DEF FileAt
    <3>2. tree[First.path].kind = "dir"
      BY <1>1, <1>2, NodeIs
    <3>3. Later(p) \/ InTaken(p)
      BY <1>1, <2>2, <3>1, <3>2, Waiting
    <3>4. p = data'[o].stat
      BY <2>1
    <3> HIDE DEF p
    <3>5. \E k \in DOMAIN queue' : \E l \in 0..Len(p) : queue'[k].path = Begun(p, l)
      <4>1. CASE Later(p)
        <5>1. PICK k \in 2..Len(queue) : \E l \in 0..Len(p) : queue[k].path = Begun(p, l)
          BY <4>1 DEF Later
        <5>2. k \in 2..n
          BY <5>1 DEF n
        <5>3. k - 1 \in 1..(n - 1) /\ k - 1 \in 1..(n - 1 + Len(names)) /\ k - 1 + 1 = k
          BY ONLY <5>2, <1>5, <1>3
        <5>4. k - 1 \in DOMAIN queue' /\ queue'[k - 1] = queue[k]
          BY <1>5, <5>3
        <5> QED
          BY <5>1, <5>4
      <4>2. CASE InTaken(p)
        <5>1. PICK j \in 1..Len(names) : \E l \in 0..Len(p) : Append(First.path, names[j]) = Begun(p, l)
          BY <4>2 DEF InTaken
        <5>2. n - 1 + j \in 1..(n - 1 + Len(names))
          BY ONLY <5>1, <1>5, <1>3
        <5>3. n - 1 + j \in DOMAIN queue' /\ queue'[n - 1 + j] = child(j)
          BY <1>5, <5>1, <5>2
        <5>4. queue'[n - 1 + j].path = Append(First.path, names[j])
          BY <1>3, <5>1, <5>3
        <5> QED
          BY <5>1, <5>3, <5>4
      <4> QED
        BY <3>3, <4>1, <4>2
    <3>6. Below(data[o].stat)'
      BY <3>4, <3>5 DEF Below
    <3> QED
      BY <2>1, <2>2, <3>6
  <2>3. \/ data[o].length = 0
        \/ data[o].length = Uninit /\ Below(data[o].stat)
        \/ Stored(data[o], data, blob)
    BY <1>2, <2>1 DEF LayoutInv, Placing
  <2> QED
    BY <2>1, <2>2, <2>3
<1>10. stage' = "place"
  BY <1>1, <1>2
<1>11. Placing'
  BY <1>5, <1>8, <1>9, <1>10 DEF Placing
<1>12. Scanned'
  BY <1>10 DEF Scanned
<1> QED
  BY <1>1, <1>2, <1>11, <1>12 DEF LayoutInv

(* Every file is in the image when the queue is empty.                     *)
LEMMA WriteMetaLayout ==
  ASSUME ImageInv, LayoutInv, WriteMeta
  PROVE  LayoutInv'
<1>1. /\ stage = "place" /\ queue = << >> /\ stage' = "built"
      /\ UNCHANGED <<tree, data, queue, blob>>
  BY DEF WriteMeta
<1>2. \A p : ~Below(p)
  BY <1>1 DEF Below
<1>3. ASSUME NEW o, FileAt(data, o)
      PROVE  data[o].length = 0 \/ Stored(data[o], data, blob)
  BY <1>1, <1>2, <1>3 DEF LayoutInv, Placing
<1>4. Placing'
  <2>1. DOMAIN queue' = {} /\ queue' \in Seq(QueueRecord)
    BY <1>1
  <2> QED
    BY <1>1, <1>3, <2>1 DEF Placing
<1>5. Scanned'
  BY <1>1 DEF Scanned
<1>6. Owning(data', tree')
  BY <1>1 DEF LayoutInv
<1> QED
  BY <1>4, <1>5, <1>6 DEF LayoutInv

LEMMA LayoutInit == BuildInit => LayoutInv
<1> SUFFICES ASSUME BuildInit
             PROVE  LayoutInv
  OBVIOUS
<1>1. data = <<Header(Uninit)>> /\ queue = << >> /\ stage = "root"
  BY DEF BuildInit
<1>2. \A o : ~NodeAt(data, o)
  BY <1>1 DEF NodeAt, Header
<1>3. Owning(data, tree)
  BY <1>2 DEF Owning, Spread
<1>4. \A o : ~FileAt(data, o)
  BY <1>2 DEF FileAt
<1>5. Scanned
  BY <1>1, <1>4 DEF Scanned
<1>6. Placing
  <2>1. DOMAIN queue = {} /\ queue \in Seq(QueueRecord)
    BY <1>1
  <2> QED
    BY <1>4, <2>1 DEF Placing
<1> QED
  BY <1>3, <1>5, <1>6 DEF LayoutInv

LEMMA LayoutIdles ==
  ASSUME LayoutInv, UNCHANGED built
  PROVE  LayoutInv'
<1>1. UNCHANGED <<tree, data, queue, blob, stage>>
  BY DEF built
<1>2. Placing'
  BY <1>1 DEF LayoutInv, Placing, Below
<1>3. Scanned'
  BY <1>1 DEF LayoutInv, Scanned
<1> QED
  BY <1>1, <1>2, <1>3 DEF LayoutInv

LEMMA LayoutKeeps ==
  ASSUME ImageInv, LayoutInv, BuildNext \/ UNCHANGED built
  PROVE  LayoutInv'
<1>1. CASE BuildNext
  BY <1>1, ScanRootLayout, ScanLayout, VanishLayout, LeaveLayout, PlaceLayout, PlaceDirLayout,
     PlaceLinkLayout, PlaceHeaderLayout, WriteMetaLayout DEF BuildNext
<1> QED
  BY <1>1, LayoutIdles
----------------------------------------------------------------------------
(* The buffer.  What is summed up for n strings or pairs of them: the sum  *)
(* so far begins with 0 and grows by an entry at least with each.          *)
Summing(s, n) ==
  /\ s \in Seq(Nat) /\ Len(s) \in 1..(n + 1) /\ s[1] = 0
  /\ \A j \in 1..Len(s) : s[j] + SizeOfEntry * (Len(s) - j) <= s[Len(s)]

NameSums ==
  \A k \in 1..(Len(lens) - 1) : lens[k + 1] = lens[k] + adding.names[k] + 1 + SizeOfEntry

XattrSums ==
  \A k \in 1..(Len(sums) - 1) :
    sums[k + 1] = sums[k] + adding.xattrs[k].name + 1 + adding.xattrs[k].value + 1
                  + SizeOfEntry + SizeOfWord

AddingTyped(a) ==
  /\ a.names \in Seq(Nat) /\ a.xattrs \in Seq([name : Nat, value : Nat]) /\ a.target \in Nat

(* While the attributes are written, and while the entries are: what is    *)
(* left of the sum is what is still to be written.                         *)
XattrsFit ==
  LET n == Len(adding.xattrs)
  IN  /\ Summed /\ entries \in Nat /\ turn \in 0..n
      /\ current_pos = entries + SizeOfEntry * n + sums[turn + 1] - SizeOfEntry * turn
      /\ entries + Last(sums) + Last(lens) + Strlen <= data_size

NamesFit ==
  LET n == Len(adding.names)
  IN  /\ Summed /\ entries \in Nat /\ turn \in 0..n
      /\ current_pos = entries + SizeOfEntry * n + lens[turn + 1] - SizeOfEntry * turn
      /\ entries + Last(lens) <= data_size

(* What was written before is in front of current_pos.                     *)
Behind ==
  /\ \A n \in starts : n \in Nat /\ n + SizeOfNode <= current_pos
  /\ \A d \in tables : d.at \in Nat /\ d.count \in Nat /\ d.at + SizeOfEntry * d.count <= current_pos

Written == (starts = {} /\ tables = {}) \/ current_pos <= data_size

BufferInv ==
  /\ data_size \in Nat /\ current_pos \in Nat /\ writes \subseteq Nat
  /\ phase \in {"scan", "sum", "xattrs", "names", "place"}
  /\ AddingTyped(adding)
  /\ Summing(lens, Len(adding.names)) /\ NameSums
  /\ Summing(sums, Len(adding.xattrs)) /\ XattrSums
  /\ Behind
  /\ phase \in {"scan", "sum", "place"} => Written
  /\ phase = "place" => starts # {}
  /\ phase = "xattrs" => XattrsFit
  /\ phase = "names" => NamesFit
  /\ Reserved

LEMMA Sizes == SizeOfNode = 72 /\ SizeOfEntry = 16 /\ SizeOfWord = 8
BY DEF SizeOfNode, SizeOfEntry, SizeOfWord

LEMMA SumBegins ==
  ASSUME NEW n \in Nat
  PROVE  Summing(<<0>>, n)
<1>1. <<0>> \in Seq(Nat) /\ Len(<<0>>) = 1 /\ <<0>>[1] = 0 /\ 1 \in 1..(n + 1)
  OBVIOUS
<1>2. \A j \in 1..1 : 0 + 16 * (1 - j) <= 0
  OBVIOUS
<1>3. \A j \in 1..1 : <<0>>[j] = 0
  OBVIOUS
<1> DEFINE s == <<0>>
<1>4. \A j \in 1..1 : s[j] + 16 * (1 - j) <= s[1]
  BY <1>1, <1>2, <1>3
<1> HIDE DEF s
<1> QED
  BY <1>1, <1>4, Sizes DEF Summing, s

LEMMA SumGrows ==
  ASSUME NEW n \in Nat, NEW s, Summing(s, n), Len(s) <= n, NEW c \in Nat, c >= SizeOfEntry
  PROVE  LET s2 == Append(s, s[Len(s)] + c)
         IN  /\ Summing(s2, n) /\ Len(s2) = Len(s) + 1 /\ s2[Len(s) + 1] = s[Len(s)] + c
             /\ \A j \in 1..Len(s) : s2[j] = s[j]
<1> DEFINE l == Len(s)
           s2 == Append(s, s[l] + c)
<1>1. /\ s \in Seq(Nat) /\ l \in 1..(n + 1) /\ s[1] = 0
      /\ \A j \in 1..l : s[j] + 16 * (l - j) <= s[l]
  BY Sizes DEF Summing
<1>2. l \in Nat /\ l >= 1 /\ l <= n /\ s[l] \in Nat /\ \A j \in 1..l : s[j] \in Nat
  BY <1>1
<1>3. /\ s2 \in Seq(Nat) /\ Len(s2) = l + 1 /\ s2[l + 1] = s[l] + c
      /\ \A j \in 1..l : s2[j] = s[j]
  BY <1>1, <1>2
<1> HIDE DEF s2, l
<1>4. ASSUME NEW j \in 1..(l + 1)
      PROVE  s2[j] + 16 * (l + 1 - j) <= s2[l + 1]
  <2>1. CASE j = l + 1
    <3>1. s2[l + 1] \in Nat /\ 16 * (l + 1 - (l + 1)) = 0
      BY <1>2, <1>3
    <3> QED
      BY <2>1, <3>1
  <2>2. CASE j \in 1..l
    <3> DEFINE x == s[j]
               y == s[l]
    <3>1. x \in Nat /\ y \in Nat /\ x + 16 * (l - j) <= y /\ c >= 16
      BY <1>1, <1>2, <2>2, Sizes
    <3>2. s2[j] = x /\ s2[l + 1] = y + c
      BY <1>3, <2>2
    <3> HIDE DEF x, y
    <3>3. x + 16 * (l + 1 - j) <= y + c
      BY ONLY <1>2, <2>2, <3>1, c \in Nat
    <3> QED
      BY <3>2, <3>3
  <2> QED
    BY <1>2, <2>1, <2>2
<1>5. l + 1 \in 1..(n + 1) /\ s2[1] = 0
  BY <1>1, <1>2, <1>3
<1> QED
  BY <1>3, <1>4, <1>5, Sizes DEF Summing, s2, l

LEMMA SumWhole ==
  ASSUME NEW n \in Nat, NEW s, Summing(s, n), Len(s) > n
  PROVE  /\ Len(s) = n + 1 /\ Last(s) = s[n + 1] /\ Last(s) \in Nat /\ s[1] = 0
         /\ \A t \in 0..n : s[t + 1] \in Nat /\ s[t + 1] + 16 * (n - t) <= Last(s)
<1>1. /\ s \in Seq(Nat) /\ Len(s) \in 1..(n + 1) /\ s[1] = 0
      /\ \A j \in 1..Len(s) : s[j] + 16 * (Len(s) - j) <= s[Len(s)]
  BY Sizes DEF Summing
<1>2. Len(s) = n + 1 /\ Last(s) = s[n + 1]
  BY <1>1 DEF Last
<1>3. ASSUME NEW t \in 0..n
      PROVE  s[t + 1] \in Nat /\ s[t + 1] + 16 * (n - t) <= s[n + 1]
  <2>1. t + 1 \in 1..(n + 1) /\ (n + 1) - (t + 1) = n - t
    OBVIOUS
  <2>2. s[t + 1] \in Nat /\ s[t + 1] + 16 * ((n + 1) - (t + 1)) <= s[n + 1]
    BY <1>1, <1>2, <2>1
  <2> QED
    BY <2>1, <2>2
<1>4. s[n + 1] \in Nat
  BY <1>1, <1>2
<1> QED
  BY <1>1, <1>2, <1>3, <1>4

LEMMA AddableTyped ==
  ASSUME NEW a \in Addable \cup {NoNode}
  PROVE  /\ AddingTyped(a) /\ Len(a.names) \in Nat /\ Len(a.xattrs) \in Nat
<1> DEFINE X == [name : Nat, value : Nat]
<1>1. /\ \A x \in SomeXattrs : x \in Seq(X)
      /\ \A x \in Strings(Lens \ {0}) : x \in Seq(Nat)
  <2>1. ASSUME NEW S, NEW T, S \subseteq T, NEW x \in Strings(S)
        PROVE  x \in Seq(T)
    BY <2>1 DEF Strings
  <2>2. [name : Lens \ {0}, value : Lens] \subseteq X /\ Lens \ {0} \subseteq Nat
    BY LensAssumption
  <2> QED
    BY <2>1, <2>2 DEF SomeXattrs
<1>2. << >> \in Seq(Nat) /\ << >> \in Seq([name : Nat, value : Nat])
  OBVIOUS
<1> HIDE DEF X
<1>3. a.names \in Seq(Nat) /\ a.xattrs \in Seq(X) /\ a.target \in Nat
  <2>1. CASE a = NoNode
    BY <1>2, <2>1 DEF NoNode, X
  <2>2. CASE a \in Addable
    <3> DEFINE S == SomeXattrs
               N == Strings(Lens \ {0})
               E == {<< >>}
    <3>a. \/ a \in [kind : {"file"}, xattrs : S, names : E, target : {0}]
          \/ a \in [kind : {"link"}, xattrs : S, names : E, target : Lens]
          \/ a \in [kind : {"dir"}, xattrs : S, names : N, target : {0}]
      BY <2>2 DEF Addable
    <3> HIDE DEF S, N, E
    <3>b. a.xattrs \in S /\ a.target \in Lens \cup {0} /\ a.names \in E \cup N
      BY <3>a
    <3>1. /\ a.xattrs \in SomeXattrs /\ a.target \in Lens \cup {0}
          /\ a.names = << >> \/ a.names \in Strings(Lens \ {0})
      BY <3>b DEF S, N, E
    <3>c. \A y \in Lens \cup {0} : y \in Nat
      BY LensAssumption
    <3>2. a.target \in Nat
      BY <3>1, <3>c
    <3>3. a.xattrs \in Seq(X)
      BY <1>1, <3>1
    <3>4. a.names \in Seq(Nat)
      BY <1>1, <1>2, <3>1
    <3> QED
      BY <3>2, <3>3, <3>4
  <2> QED
    BY <2>1, <2>2
<1> QED
  BY <1>3 DEF AddingTyped, X

LEMMA BufferInitKeeps == BufferInit => BufferInv
<1> SUFFICES ASSUME BufferInit
             PROVE  BufferInv
  OBVIOUS
<1>1. /\ data_size \in Nat /\ current_pos \in Nat /\ writes = {} /\ phase = "scan"
      /\ adding = NoNode /\ lens = <<0>> /\ sums = <<0>> /\ starts = {} /\ tables = {}
  BY BufferSizeAssumption, Sizes DEF BufferInit
<1>2. AddingTyped(adding) /\ Len(adding.names) \in Nat /\ Len(adding.xattrs) \in Nat
  BY <1>1, AddableTyped
<1>3. Summing(lens, Len(adding.names)) /\ Summing(sums, Len(adding.xattrs))
  BY <1>1, <1>2, SumBegins
<1>4. NameSums /\ XattrSums
  BY <1>1 DEF NameSums, XattrSums
<1> QED
  BY <1>1, <1>2, <1>3, <1>4 DEF BufferInv, Behind, Written, Reserved

(* A call of add_file, add_link or add_dir begins, or has returned.        *)
LEMMA CallKeeps ==
  ASSUME BufferInv, adding' \in Addable \cup {NoNode}, lens' = << 0 >>, sums' = << 0 >>,
         writes' \in SUBSET Nat, \A end \in writes' : end <= data_size,
         UNCHANGED data_size, current_pos' \in Nat, phase' \in {"scan", "sum"},
         Behind', Written'
  PROVE  BufferInv'
<1>1. data_size' \in Nat /\ Reserved'
  BY DEF BufferInv, Reserved
<1>2. AddingTyped(adding') /\ Len(adding'.names) \in Nat /\ Len(adding'.xattrs) \in Nat
  BY AddableTyped
<1>3. Summing(lens', Len(adding'.names)) /\ Summing(sums', Len(adding'.xattrs))
  BY <1>2, SumBegins
<1>4. NameSums' /\ XattrSums'
  BY DEF NameSums, XattrSums
<1>5. phase' \in {"scan", "sum", "xattrs", "names", "place"} /\ phase' \notin {"xattrs", "names", "place"}
  OBVIOUS
<1> QED
  BY <1>1, <1>2, <1>3, <1>4, <1>5 DEF BufferInv

LEMMA AddsKeeps ==
  ASSUME BufferInv, Adds
  PROVE  BufferInv'
<1>1. /\ phase = "scan" /\ adding' \in Addable /\ phase' = "sum" /\ lens' = <<0>> /\ sums' = <<0>>
      /\ writes' = {} /\ UNCHANGED <<data_size, current_pos, starts, tables>>
  BY DEF Adds, space, known
<1>2. Behind' /\ Written' /\ current_pos' \in Nat
  BY <1>1 DEF BufferInv, Behind, Written
<1> QED
  BY <1>1, <1>2, CallKeeps

LEMMA SumKeeps ==
  ASSUME BufferInv, SumName \/ SumXattr
  PROVE  BufferInv'
<1>1. /\ phase = "sum" /\ AddingTyped(adding)
      /\ UNCHANGED <<data_size, current_pos, adding, phase, entries, turn, starts, tables, writes>>
  BY DEF BufferInv, SumName, SumXattr, space, known, loop
<1>2. BufferInv => /\ Summing(lens, Len(adding.names)) /\ NameSums
                   /\ Summing(sums, Len(adding.xattrs)) /\ XattrSums
  BY DEF BufferInv
<1>3. Len(adding.names) \in Nat /\ Len(adding.xattrs) \in Nat
  BY <1>1 DEF AddingTyped
<1>4. ASSUME Summing(lens', Len(adding.names)), NameSums',
             Summing(sums', Len(adding.xattrs)), XattrSums'
      PROVE  BufferInv'
  BY <1>1, <1>4 DEF BufferInv, Behind, Written, Reserved
<1>5. CASE SumName
  <2> DEFINE k == Len(lens)
             c == adding.names[k] + 1 + SizeOfEntry
  <2>1. k <= Len(adding.names) /\ lens' = Append(lens, lens[k] + adding.names[k] + 1 + SizeOfEntry)
        /\ UNCHANGED sums
    BY <1>5 DEF SumName
  <2>2. lens \in Seq(Nat) /\ k \in 1..(Len(adding.names) + 1)
    BY <1>2 DEF Summing
  <2>3. k \in 1..Len(adding.names) /\ k \in Nat
    BY <1>3, <2>1, <2>2
  <2>4. adding.names[k] \in Nat /\ lens[k] \in Nat
    BY <1>1, <2>2, <2>3 DEF AddingTyped
  <2>5. c \in Nat /\ c >= SizeOfEntry /\ lens[k] + c = lens[k] + adding.names[k] + 1 + SizeOfEntry
    BY <2>4, Sizes
  <2>6. lens' = Append(lens, lens[Len(lens)] + c)
    BY <2>1, <2>5
  <2> HIDE DEF c
  <2>7. /\ Summing(lens', Len(adding.names)) /\ Len(lens') = k + 1 /\ lens'[k + 1] = lens[k] + c
        /\ \A j \in 1..k : lens'[j] = lens[j]
    BY <1>2, <1>3, <2>1, <2>5, <2>6, SumGrows
  <2>8. NameSums'
    <3> SUFFICES ASSUME NEW j \in 1..(Len(lens') - 1)
                 PROVE  lens'[j + 1] = lens'[j] + adding.names[j] + 1 + SizeOfEntry
      BY <1>1 DEF NameSums
    <3>1. j \in 1..k
      BY <2>3, <2>7
    <3>2. CASE j = k
      BY <2>5, <2>7, <3>1, <3>2
    <3>3. CASE j # k
      <4>1. j \in 1..(Len(lens) - 1) /\ j + 1 \in 1..k
        BY <2>3, <3>1, <3>3
      <4> QED
        BY <1>2, <2>7, <3>1, <4>1 DEF NameSums
    <3> QED
      BY <3>2, <3>3
  <2>9. XattrSums'
    BY <1>1, <1>2, <2>1 DEF XattrSums
  <2> QED
    BY <1>2, <1>4, <2>1, <2>7, <2>8, <2>9
<1>6. CASE SumXattr
  <2> DEFINE k == Len(sums)
             x == adding.xattrs[k]
             c == x.name + 1 + x.value + 1 + SizeOfEntry + SizeOfWord
  <2>1. /\ k <= Len(adding.xattrs) /\ UNCHANGED lens
        /\ sums' = Append(sums, sums[k] + x.name + 1 + x.value + 1 + SizeOfEntry + SizeOfWord)
    BY <1>6 DEF SumXattr
  <2>2. sums \in Seq(Nat) /\ k \in 1..(Len(adding.xattrs) + 1)
    BY <1>2 DEF Summing
  <2>3. k \in 1..Len(adding.xattrs) /\ k \in Nat
    BY <1>3, <2>1, <2>2
  <2>4. x.name \in Nat /\ x.value \in Nat /\ sums[k] \in Nat
    <3> DEFINE X == [name : Nat, value : Nat]
    <3>1. adding.xattrs \in Seq(X)
      BY <1>1 DEF AddingTyped
    <3> HIDE DEF X
    <3>2. x \in X
      BY <2>3, <3>1
    <3> QED
      BY <2>2, <3>2 DEF X
  <2> HIDE DEF x
  <2>5. c \in Nat /\ c >= SizeOfEntry
        /\ sums[k] + c = sums[k] + x.name + 1 + x.value + 1 + SizeOfEntry + SizeOfWord
    <3>1. \A u, v, w \in Nat :
            /\ u + 1 + v + 1 + 16 + 8 \in Nat /\ u + 1 + v + 1 + 16 + 8 >= 16
            /\ w + (u + 1 + v + 1 + 16 + 8) = w + u + 1 + v + 1 + 16 + 8
      OBVIOUS
    <3> QED
      BY ONLY <2>4, <3>1, Sizes
  <2>6. sums' = Append(sums, sums[Len(sums)] + c)
    BY <2>1, <2>5
  <2> HIDE DEF c
  <2>7. /\ Summing(sums', Len(adding.xattrs)) /\ Len(sums') = k + 1 /\ sums'[k + 1] = sums[k] + c
        /\ \A j \in 1..k : sums'[j] = sums[j]
    BY <1>2, <1>3, <2>1, <2>5, <2>6, SumGrows
  <2>8. XattrSums'
    <3> SUFFICES ASSUME NEW j \in 1..(Len(sums') - 1)
                 PROVE  sums'[j + 1] = sums'[j] + adding.xattrs[j].name + 1 + adding.xattrs[j].value + 1
                                       + SizeOfEntry + SizeOfWord
      BY <1>1 DEF XattrSums
    <3>1. j \in 1..k
      BY <2>3, <2>7
    <3>2. CASE j = k
      BY <2>5, <2>7, <3>1, <3>2 DEF x
    <3>3. CASE j # k
      <4>1. j \in 1..(Len(sums) - 1) /\ j + 1 \in 1..k
        BY <2>3, <3>1, <3>3
      <4> QED
        BY <1>2, <2>7, <3>1, <4>1 DEF XattrSums
    <3> QED
      BY <3>2, <3>3
  <2>9. NameSums'
    BY <1>1, <1>2, <2>1 DEF NameSums
  <2> QED
    BY <1>2, <1>4, <2>1, <2>7, <2>8, <2>9
<1> QED
  BY <1>5, <1>6

LEMMA DoubleKeeps ==
  ASSUME BufferInv, Double
  PROVE  BufferInv'
<1>1. /\ phase = "sum" /\ data_size' = 2 * data_size
      /\ UNCHANGED <<current_pos, adding, phase, lens, sums, entries, turn, starts, tables, writes>>
  BY DEF Double, loop, known
<1>2. data_size \in Nat /\ current_pos \in Nat /\ writes \subseteq Nat /\ Written /\ Reserved
  BY <1>1 DEF BufferInv
<1>3. data_size' \in Nat /\ data_size' >= data_size
  BY <1>1, <1>2
<1>4. Reserved'
  <2> SUFFICES ASSUME NEW end \in writes
               PROVE  end <= data_size'
    BY <1>1 DEF Reserved
  <2>1. end \in Nat /\ end <= data_size
    BY <1>2 DEF Reserved
  <2> QED
    BY <1>2, <1>3, <2>1
<1>5. Written'
  <2>1. CASE current_pos <= data_size
    BY <1>1, <1>2, <1>3, <2>1 DEF Written
  <2> QED
    BY <1>1, <1>2, <2>1 DEF Written
<1> QED
  BY <1>1, <1>3, <1>4, <1>5 DEF BufferInv, Behind, NameSums, XattrSums

(* What is summed up when a node is written.                               *)
LEMMA SummedIs ==
  ASSUME BufferInv, Summed
  PROVE  /\ Len(adding.names) \in Nat /\ Len(adding.xattrs) \in Nat
         /\ Last(lens) \in Nat /\ Last(sums) \in Nat /\ Strlen \in Nat
         /\ Strlen = IF adding.kind = "link" THEN adding.target + 1 ELSE 0
         /\ adding.target \in Nat /\ lens[1] = 0 /\ sums[1] = 0
         /\ lens[Len(adding.names) + 1] = Last(lens) /\ sums[Len(adding.xattrs) + 1] = Last(sums)
         /\ Len(lens) = Len(adding.names) + 1 /\ Len(sums) = Len(adding.xattrs) + 1
         /\ \A t \in 0..Len(adding.names) :
              lens[t + 1] \in Nat /\ lens[t + 1] + 16 * (Len(adding.names) - t) <= Last(lens)
         /\ \A t \in 0..Len(adding.xattrs) :
              sums[t + 1] \in Nat /\ sums[t + 1] + 16 * (Len(adding.xattrs) - t) <= Last(sums)
<1>1. /\ Summing(lens, Len(adding.names)) /\ Summing(sums, Len(adding.xattrs))
      /\ AddingTyped(adding)
  BY DEF BufferInv
<1>2. Len(adding.names) \in Nat /\ Len(adding.xattrs) \in Nat /\ adding.target \in Nat
  BY <1>1 DEF AddingTyped
<1>3. Len(lens) > Len(adding.names) /\ Len(sums) > Len(adding.xattrs)
  BY DEF Summed
<1>4. Strlen \in Nat
  BY <1>2 DEF Strlen
<1> QED
  BY <1>1, <1>2, <1>3, <1>4, SumWhole DEF Strlen

LEMMA AddNodeKeeps ==
  ASSUME BufferInv, AddNode
  PROVE  BufferInv'
<1> DEFINE n == Len(adding.xattrs)
           L == Last(lens)
           S == Last(sums)
<1>1. /\ Summed /\ data_size >= Reserving + current_pos
      /\ writes' = {current_pos + SizeOfNode} /\ starts' = starts \cup {current_pos}
      /\ entries' = current_pos + SizeOfNode
      /\ current_pos' = current_pos + SizeOfNode + SizeOfEntry * n
      /\ turn' = 0 /\ phase' = "xattrs" /\ UNCHANGED <<data_size, adding, lens, sums, tables>>
  BY DEF AddNode
<1>2. /\ n \in Nat /\ L \in Nat /\ S \in Nat /\ Strlen \in Nat /\ sums[1] = 0
  BY <1>1, SummedIs
<1>3. Reserving = 72 + L + Strlen + S /\ data_size \in Nat /\ current_pos \in Nat
  BY Sizes DEF Reserving, BufferInv
<1> HIDE DEF n, L, S
<1>4. /\ entries' = current_pos + 72 /\ current_pos' = current_pos + 72 + 16 * n
      /\ entries' \in Nat /\ current_pos' \in Nat /\ writes' = {entries'} /\ writes' \subseteq Nat
  BY <1>1, <1>2, <1>3, Sizes
<1>5. entries' + S + L + Strlen <= data_size /\ entries' <= data_size
  BY ONLY <1>1, <1>2, <1>3, <1>4
<1>6. Reserved'
  BY <1>1, <1>4, <1>5 DEF Reserved
<1>7. Behind'
  <2>1. ASSUME NEW m \in starts'
        PROVE  m \in Nat /\ m + 72 <= current_pos'
    <3>1. CASE m = current_pos
      BY <1>2, <1>3, <1>4, <3>1
    <3>2. CASE m \in starts
      <4>1. m \in Nat /\ m + 72 <= current_pos
        BY <3>2, Sizes DEF BufferInv, Behind
      <4> QED
        BY <1>2, <1>3, <1>4, <4>1
    <3> QED
      BY <1>1, <2>1, <3>1, <3>2
  <2>2. ASSUME NEW d \in tables
        PROVE  d.at \in Nat /\ d.count \in Nat /\ d.at + 16 * d.count <= current_pos'
    <3>1. d.at \in Nat /\ d.count \in Nat /\ d.at + 16 * d.count <= current_pos
      BY Sizes DEF BufferInv, Behind
    <3> QED
      BY <1>2, <1>3, <1>4, <3>1
  <2> QED
    BY <1>1, <2>1, <2>2, Sizes DEF Behind
<1>8. XattrsFit'
  <2>1. Summed' /\ Strlen' = Strlen
    BY <1>1 DEF Summed, Strlen
  <2>2. current_pos' = entries' + 16 * n + sums[0 + 1] - 16 * 0
    BY <1>2, <1>3, <1>4
  <2>3. 0 \in 0..n
    BY <1>2
  <2> QED
    BY <1>1, <1>4, <1>5, <2>1, <2>2, <2>3, Sizes DEF XattrsFit, n, L, S
<1> QED
  BY <1>1, <1>4, <1>6, <1>7, <1>8 DEF BufferInv, NameSums, XattrSums

(* current_pos only grows: what is behind it stays there.                  *)
LEMMA BehindKept ==
  ASSUME BufferInv, UNCHANGED <<starts, tables>>, current_pos' \in Nat, current_pos' >= current_pos
  PROVE  Behind'
<1>0. current_pos \in Nat
  BY DEF BufferInv
<1>1. ASSUME NEW m \in starts
      PROVE  m \in Nat /\ m + 72 <= current_pos'
  <2>1. m \in Nat /\ m + 72 <= current_pos
    BY Sizes DEF BufferInv, Behind
  <2> QED
    BY <1>0, <2>1
<1>2. ASSUME NEW d \in tables
      PROVE  d.at \in Nat /\ d.count \in Nat /\ d.at + 16 * d.count <= current_pos'
  <2>1. d.at \in Nat /\ d.count \in Nat /\ d.at + 16 * d.count <= current_pos
    BY Sizes DEF BufferInv, Behind
  <2> QED
    BY <1>0, <2>1
<1> QED
  BY <1>1, <1>2, Sizes DEF Behind

LEMMA AddXattrKeeps ==
  ASSUME BufferInv, AddXattr
  PROVE  BufferInv'
<1> DEFINE n == Len(adding.xattrs)
           x == adding.xattrs[turn + 1]
           a == x.name
           v == x.value
           value == current_pos + a + 1
           end == value + SizeOfWord + v + 1
           L == Last(lens)
           S == Last(sums)
           s1 == sums[turn + 1]
           s2 == sums[(turn + 1) + 1]
<1>1. /\ phase = "xattrs" /\ turn < n /\ current_pos' = end /\ turn' = turn + 1
      /\ writes' = {entries + SizeOfEntry * (turn + 1), value, value + SizeOfWord, end}
      /\ UNCHANGED <<data_size, adding, phase, lens, sums, entries, starts, tables>>
  BY DEF AddXattr, known
<1>2. /\ Summed /\ entries \in Nat /\ turn \in 0..n
      /\ current_pos = entries + 16 * n + s1 - 16 * turn
      /\ entries + S + L + Strlen <= data_size /\ data_size \in Nat /\ current_pos \in Nat
  BY <1>1, Sizes DEF BufferInv, XattrsFit
<1>3. /\ n \in Nat /\ L \in Nat /\ S \in Nat /\ Strlen \in Nat /\ Len(sums) = n + 1
      /\ s1 \in Nat /\ sums[1] = 0 /\ sums[0 + 1] + 16 * (n - 0) <= S
      /\ \A t \in 0..n : sums[t + 1] \in Nat /\ sums[t + 1] + 16 * (n - t) <= S
  <2>1. 0 \in 0..n /\ n \in Nat
    BY <1>2, SummedIs
  <2> QED
    BY <1>2, <2>1, SummedIs
<1>4. turn + 1 \in 0..n /\ turn + 1 \in 1..n /\ turn \in Nat
  BY <1>1, <1>2, <1>3
<1>5. a \in Nat /\ v \in Nat
  <2> DEFINE X == [name : Nat, value : Nat]
  <2>1. adding.xattrs \in Seq(X)
    BY DEF BufferInv, AddingTyped
  <2> HIDE DEF X
  <2>2. x \in X
    BY <1>4, <2>1
  <2> QED
    BY <2>2 DEF X
<1>6. s2 \in Nat /\ s2 + 16 * (n - (turn + 1)) <= S
  BY <1>3, <1>4
<1>7. s2 = s1 + a + 1 + v + 1 + 16 + 8
  <2>1. turn + 1 \in 1..(Len(sums) - 1)
    BY <1>3, <1>4
  <2> QED
    BY <2>1, Sizes DEF BufferInv, XattrSums
<1>v. value = current_pos + a + 1 /\ end = current_pos + a + 1 + 8 + v + 1
  BY <1>2, <1>5, Sizes
<1> HIDE DEF n, x, a, v, L, S, s1, s2, value, end
<1>8. end = entries + 16 * n + s2 - 16 * (turn + 1) /\ end \in Nat /\ end >= current_pos
  BY ONLY <1>2, <1>3, <1>4, <1>5, <1>6, <1>7, <1>v
<1>9. end <= entries + S /\ entries + S <= data_size
  BY ONLY <1>2, <1>3, <1>4, <1>6, <1>8
<1>10. /\ entries + 16 * (turn + 1) \in Nat /\ entries + 16 * (turn + 1) <= data_size
       /\ value \in Nat /\ value <= end /\ value + 8 \in Nat /\ value + 8 <= end
  <2>1. 16 * n <= S
    BY ONLY <1>3
  <2> QED
    BY ONLY <1>2, <1>3, <1>4, <1>5, <1>8, <1>9, <1>v, <2>1
<1>11. \A w \in writes' : w \in Nat /\ w <= data_size
  <2>1. value <= data_size /\ value + 8 <= data_size /\ end <= data_size
    BY ONLY <1>2, <1>3, <1>8, <1>9, <1>10
  <2>2. writes' = {entries + 16 * (turn + 1), value, value + 8, end}
    BY <1>1, Sizes
  <2> QED
    BY <1>8, <1>10, <2>1, <2>2
<1>12. Reserved' /\ writes' \subseteq Nat
  BY <1>1, <1>11 DEF Reserved
<1>13. Behind'
  BY <1>1, <1>8, BehindKept
<1>14. XattrsFit'
  <2>1. Summed' /\ Strlen' = Strlen
    BY <1>1, <1>2 DEF Summed, Strlen
  <2> QED
    BY <1>1, <1>2, <1>4, <1>8, <2>1, Sizes DEF XattrsFit, n, s2, L, S
<1>15. phase' = "xattrs" /\ current_pos' \in Nat
  BY <1>1, <1>8
<1> QED
  BY <1>1, <1>12, <1>13, <1>14, <1>15 DEF BufferInv, NameSums, XattrSums

(* The attributes have been written: what is left is for what follows.     *)
LEMMA XattrsDoneIs ==
  ASSUME BufferInv, XattrsDone
  PROVE  /\ Summed /\ current_pos \in Nat /\ data_size \in Nat /\ entries \in Nat
         /\ Last(lens) \in Nat /\ Strlen \in Nat
         /\ current_pos + Last(lens) + Strlen <= data_size
<1> DEFINE n == Len(adding.xattrs)
           L == Last(lens)
           S == Last(sums)
           s1 == sums[n + 1]
<1>1. /\ Summed /\ turn = n /\ entries \in Nat /\ current_pos \in Nat /\ data_size \in Nat
      /\ current_pos = entries + 16 * n + s1 - 16 * n
      /\ entries + S + L + Strlen <= data_size
  BY Sizes DEF XattrsDone, BufferInv, XattrsFit
<1>2. n \in Nat /\ L \in Nat /\ S \in Nat /\ Strlen \in Nat /\ s1 = S
  BY <1>1, SummedIs
<1> HIDE DEF n, L, S, s1
<1>3. current_pos + L + Strlen <= data_size
  BY ONLY <1>1, <1>2
<1> QED
  BY <1>1, <1>2, <1>3 DEF L

LEMMA FileDoneKeeps ==
  ASSUME BufferInv, FileDone
  PROVE  BufferInv'
<1>1. /\ XattrsDone /\ writes' = {} /\ phase' = "scan" /\ adding' = NoNode
      /\ lens' = <<0>> /\ sums' = <<0>> /\ UNCHANGED <<data_size, current_pos, starts, tables>>
  BY DEF FileDone, Finished, space, known
<1>2. current_pos \in Nat /\ current_pos <= data_size
  <2>1. /\ current_pos \in Nat /\ data_size \in Nat /\ Last(lens) \in Nat /\ Strlen \in Nat
        /\ current_pos + Last(lens) + Strlen <= data_size
    BY <1>1, XattrsDoneIs
  <2> QED
    BY <2>1
<1>3. Behind' /\ Written' /\ current_pos' \in Nat
  BY <1>1, <1>2 DEF BufferInv, Behind, Written
<1> QED
  BY <1>1, <1>3, CallKeeps

LEMMA AddTargetKeeps ==
  ASSUME BufferInv, AddTarget
  PROVE  BufferInv'
<1> DEFINE end == current_pos + adding.target + 1
<1>1. /\ XattrsDone /\ adding.kind = "link" /\ writes' = {end} /\ current_pos' = end
      /\ phase' = "scan" /\ adding' = NoNode /\ lens' = <<0>> /\ sums' = <<0>>
      /\ UNCHANGED <<data_size, starts, tables>>
  BY DEF AddTarget, Finished, known
<1>2. /\ current_pos \in Nat /\ data_size \in Nat /\ Last(lens) \in Nat /\ Strlen \in Nat
      /\ current_pos + Last(lens) + Strlen <= data_size /\ Summed
  BY <1>1, XattrsDoneIs
<1>3. Strlen = adding.target + 1 /\ adding.target \in Nat
  BY <1>1, <1>2, SummedIs
<1>4. end \in Nat /\ end >= current_pos /\ end <= data_size
  BY <1>2, <1>3
<1> HIDE DEF end
<1>5. Behind'
  BY <1>1, <1>4, BehindKept
<1>6. Written' /\ writes' \in SUBSET Nat /\ \A w \in writes' : w <= data_size
  BY <1>1, <1>4 DEF Written
<1> QED
  BY <1>1, <1>4, <1>5, <1>6, CallKeeps

LEMMA AddEntriesKeeps ==
  ASSUME BufferInv, AddEntries
  PROVE  BufferInv'
<1> DEFINE n == Len(adding.names)
           L == Last(lens)
<1>1. /\ XattrsDone /\ entries' = current_pos /\ current_pos' = current_pos + SizeOfEntry * n
      /\ turn' = 0 /\ phase' = "names" /\ writes' = {}
      /\ UNCHANGED <<data_size, adding, lens, sums, starts, tables>>
  BY DEF AddEntries, known
<1>2. /\ Summed /\ current_pos \in Nat /\ data_size \in Nat /\ L \in Nat /\ Strlen \in Nat
      /\ current_pos + L + Strlen <= data_size
  BY <1>1, XattrsDoneIs
<1>3. n \in Nat /\ lens[1] = 0
  BY <1>2, SummedIs
<1> HIDE DEF n, L
<1>4. /\ current_pos' \in Nat /\ current_pos' >= current_pos /\ entries' + L <= data_size
      /\ current_pos' = entries' + 16 * n + 0 - 16 * 0
  BY <1>1, <1>2, <1>3, Sizes
<1>5. Behind'
  BY <1>1, <1>4, BehindKept
<1>6. NamesFit'
  <2>1. Summed' /\ entries' \in Nat
    BY <1>1, <1>2 DEF Summed
  <2>2. 0 \in 0..n /\ lens[0 + 1] = 0
    BY <1>3
  <2> QED
    BY <1>1, <1>4, <2>1, <2>2, Sizes DEF NamesFit, n, L
<1>7. Reserved' /\ writes' \subseteq Nat
  BY <1>1 DEF Reserved
<1> QED
  BY <1>1, <1>4, <1>5, <1>6, <1>7 DEF BufferInv, NameSums, XattrSums

LEMMA AddNameKeeps ==
  ASSUME BufferInv, AddName
  PROVE  BufferInv'
<1> DEFINE n == Len(adding.names)
           a == adding.names[turn + 1]
           end == current_pos + a + 1
           L == Last(lens)
           s1 == lens[turn + 1]
           s2 == lens[(turn + 1) + 1]
<1>1. /\ phase = "names" /\ turn < n /\ current_pos' = end /\ turn' = turn + 1
      /\ writes' = {entries + SizeOfEntry * (turn + 1), end}
      /\ UNCHANGED <<data_size, adding, phase, lens, sums, entries, starts, tables>>
  BY DEF AddName, known
<1>2. /\ Summed /\ entries \in Nat /\ turn \in 0..n
      /\ current_pos = entries + 16 * n + s1 - 16 * turn
      /\ entries + L <= data_size /\ data_size \in Nat /\ current_pos \in Nat
  BY <1>1, Sizes DEF BufferInv, NamesFit
<1>3. /\ n \in Nat /\ L \in Nat /\ Len(lens) = n + 1
      /\ s1 \in Nat /\ lens[1] = 0 /\ lens[0 + 1] + 16 * (n - 0) <= L
      /\ \A t \in 0..n : lens[t + 1] \in Nat /\ lens[t + 1] + 16 * (n - t) <= L
  <2>1. 0 \in 0..n /\ n \in Nat
    BY <1>2, SummedIs
  <2> QED
    BY <1>2, <2>1, SummedIs
<1>4. turn + 1 \in 0..n /\ turn + 1 \in 1..n /\ turn \in Nat
  BY <1>1, <1>2, <1>3
<1>5. a \in Nat
  BY <1>4 DEF BufferInv, AddingTyped
<1>6. s2 \in Nat /\ s2 + 16 * (n - (turn + 1)) <= L
  BY <1>3, <1>4
<1>7. s2 = s1 + a + 1 + 16
  <2>1. turn + 1 \in 1..(Len(lens) - 1)
    BY <1>3, <1>4
  <2> QED
    BY <2>1, Sizes DEF BufferInv, NameSums
<1>v. end = current_pos + a + 1
  OBVIOUS
<1> HIDE DEF n, a, L, s1, s2, end
<1>8. end = entries + 16 * n + s2 - 16 * (turn + 1) /\ end \in Nat /\ end >= current_pos
  BY ONLY <1>2, <1>3, <1>4, <1>5, <1>6, <1>7, <1>v
<1>9. end <= data_size
  BY ONLY <1>2, <1>3, <1>4, <1>6, <1>8
<1>10. entries + 16 * (turn + 1) \in Nat /\ entries + 16 * (turn + 1) <= data_size
  <2>1. 16 * n <= L
    BY ONLY <1>3
  <2> QED
    BY ONLY <1>2, <1>3, <1>4, <2>1
<1>11. Reserved' /\ writes' \subseteq Nat
  BY <1>1, <1>8, <1>9, <1>10, Sizes DEF Reserved
<1>12. Behind'
  BY <1>1, <1>8, BehindKept
<1>13. NamesFit'
  <2>1. Summed'
    BY <1>1, <1>2 DEF Summed
  <2> QED
    BY <1>1, <1>2, <1>4, <1>8, <2>1, Sizes DEF NamesFit, n, s2, L
<1>14. phase' = "names" /\ current_pos' \in Nat
  BY <1>1, <1>8
<1> QED
  BY <1>1, <1>11, <1>12, <1>13, <1>14 DEF BufferInv, NameSums, XattrSums

LEMMA DirDoneKeeps ==
  ASSUME BufferInv, DirDone
  PROVE  BufferInv'
<1> DEFINE n == Len(adding.names)
           L == Last(lens)
           s1 == lens[n + 1]
           new == [at |-> entries, count |-> n]
<1>1. /\ phase = "names" /\ turn = n /\ tables' = tables \cup {new} /\ writes' = {}
      /\ phase' = "scan" /\ adding' = NoNode /\ lens' = <<0>> /\ sums' = <<0>>
      /\ UNCHANGED <<data_size, current_pos, starts>>
  BY DEF DirDone, Finished, space
<1>2. /\ Summed /\ entries \in Nat /\ current_pos = entries + 16 * n + s1 - 16 * n
      /\ entries + L <= data_size /\ data_size \in Nat /\ current_pos \in Nat
  BY <1>1, Sizes DEF BufferInv, NamesFit
<1>3. n \in Nat /\ L \in Nat /\ s1 = L /\ lens[1] = 0 /\ lens[0 + 1] + 16 * (n - 0) <= L
  <2>1. 0 \in 0..n /\ n \in Nat
    BY <1>2, SummedIs
  <2> QED
    BY <1>2, <2>1, SummedIs
<1>4. new.at = entries /\ new.count = n
  OBVIOUS
<1> HIDE DEF n, L, s1, new
<1>5. current_pos <= data_size /\ entries + 16 * n <= current_pos
  BY ONLY <1>2, <1>3
<1>6. Behind'
  <2>1. ASSUME NEW d \in tables'
        PROVE  d.at \in Nat /\ d.count \in Nat /\ d.at + 16 * d.count <= current_pos
    <3>1. CASE d = new
      BY <1>2, <1>3, <1>4, <1>5, <3>1
    <3>2. CASE d \in tables
      BY <3>2, Sizes DEF BufferInv, Behind
    <3> QED
      BY <1>1, <2>1, <3>1, <3>2
  <2> QED
    BY <1>1, <2>1, Sizes DEF BufferInv, Behind
<1>7. Written' /\ current_pos' \in Nat
  BY <1>1, <1>2, <1>5 DEF Written
<1> QED
  BY <1>1, <1>6, <1>7, CallKeeps

(* Fields of what was written before.                                      *)
LEMMA FieldsKeep ==
  ASSUME BufferInv, SetOffset \/ WriteLength \/ SetFields
  PROVE  BufferInv'
<1>1. /\ UNCHANGED <<data_size, current_pos, adding, lens, sums, starts, tables>>
      /\ phase \in {"scan", "place"} /\ phase' \in {"scan", "place"}
      /\ phase' = "place" => starts # {}
  BY DEF SetOffset, WriteLength, SetFields, BufferInv, space, known
<1>2. data_size \in Nat /\ current_pos \in Nat /\ Behind /\ Written
  BY <1>1 DEF BufferInv
<1>3. ASSUME NEW m \in starts
      PROVE  m \in Nat /\ m + 72 <= data_size /\ current_pos <= data_size
  <2>1. m \in Nat /\ m + 72 <= current_pos /\ current_pos <= data_size
    BY <1>2, Sizes DEF Behind, Written
  <2> QED
    BY <1>2, <2>1
<1>4. ASSUME NEW w \in writes'
      PROVE  w \in Nat /\ w <= data_size
  <2>1. CASE SetOffset
    <3>1. PICK d \in tables : \E k \in 1..d.count : writes' = {d.at + SizeOfEntry * k}
      BY <2>1 DEF SetOffset
    <3>2. PICK k \in 1..d.count : w = d.at + 16 * k
      BY <1>4, <3>1, Sizes
    <3>3. /\ d.at \in Nat /\ d.count \in Nat /\ d.at + 16 * d.count <= current_pos
          /\ current_pos <= data_size
      BY <1>2, Sizes DEF Behind, Written
    <3> DEFINE a == d.at
               c == d.count
    <3>4. a \in Nat /\ c \in Nat /\ a + 16 * c <= current_pos /\ w = a + 16 * k /\ k \in 1..c
          /\ current_pos <= data_size
      BY <3>2, <3>3
    <3> HIDE DEF a, c
    <3> QED
      BY ONLY <1>2, <3>4
  <2>2. CASE WriteLength
    <3>1. PICK m : m \in starts
      BY <2>2 DEF WriteLength
    <3>2. w = 8
      BY <1>4, <2>2, Sizes DEF WriteLength
    <3> QED
      BY <1>2, <1>3, <3>1, <3>2
  <2>3. CASE SetFields
    <3>1. PICK m \in starts \cup {0} : w = m + 72
      BY <1>4, <2>3, Sizes DEF SetFields
    <3>2. PICK m2 : m2 \in starts
      BY <2>3 DEF SetFields, BufferInv
    <3> QED
      BY <1>2, <1>3, <3>1, <3>2
  <2> QED
    BY <2>1, <2>2, <2>3
<1>5. Reserved' /\ writes' \subseteq Nat
  BY <1>1, <1>4 DEF Reserved
<1>6. Behind' /\ Written'
  BY <1>1, <1>2 DEF Behind, Written
<1> QED
  BY <1>1, <1>5, <1>6 DEF BufferInv, NameSums, XattrSums

(* Nothing is written behind the end of the buffer, whatever nodes are     *)
(* added, in whatever order, with whatever names, attributes and targets:  *)
(* lines 18-26, 38-51, 53-105, 158-160 and 181-187 of metafs_builder.cc.   *)
THEOREM ReservedHolds == BufferSpec => []Reserved
<1>1. BufferInit => BufferInv
  BY BufferInitKeeps
<1>2. BufferInv /\ [BufferNext]_buffer_vars => BufferInv'
  <2> SUFFICES ASSUME BufferInv, [BufferNext]_buffer_vars
               PROVE  BufferInv'
    OBVIOUS
  <2>1. CASE UNCHANGED buffer_vars
    <3>1. UNCHANGED <<data_size, current_pos, adding, phase, lens, sums, turn, entries,
                      starts, tables, writes>>
      BY <2>1 DEF buffer_vars, space, loop, known
    <3> QED
      BY <3>1 DEF BufferInv, NameSums, XattrSums, Behind, Written, XattrsFit, NamesFit, Summed,
                  Strlen, Reserved
  <2>2. CASE BufferNext
    BY <2>2, AddsKeeps, SumKeeps, DoubleKeeps, AddNodeKeeps, AddXattrKeeps, FileDoneKeeps,
       AddTargetKeeps, AddEntriesKeeps, AddNameKeeps, DirDoneKeeps, FieldsKeep DEF BufferNext
  <2> QED
    BY <2>1, <2>2
<1>3. BufferInv => Reserved
  BY DEF BufferInv
<1> QED
  BY <1>1, <1>2, <1>3, PTL DEF BufferSpec
=============================================================================
