-------------------------------- MODULE Mount --------------------------------
(***************************************************************************)
(* What a mounted file system answers: MetaFileSystem                      *)
(* (meta/meta_file_system.{h,cc}) over the metadata of MetaBuilder, the    *)
(* handlers of fuse/fuse_main.cc, and the loop of data/data_provider.cc    *)
(* that reads from the chunks.  The handlers only read what they share, so *)
(* one request at a time is enough.                                        *)
(*                                                                         *)
(* A request resolves its path first; then one of the handlers goes on.    *)
(* Where the code takes for an Entry or a Node what is none, or reads      *)
(* behind the metadata, the outcome is "undefined".  A name has NameBytes  *)
(* characters with its NUL.                                                *)
(***************************************************************************)
EXTENDS MetaBuilder, FindEntity

CONSTANTS
  IdWrap,     \* 2^32
  NameBytes,  \* characters of a name
  Buffers     \* sizes of the buffers of callers

ASSUME IdWrapAssumption == IdWrap \in Nat \ {0}
ASSUME BuffersAssumption == NameBytes \in Nat \ {0} /\ Buffers \subseteq Nat

VARIABLES
  meta,    \* MetaFileSystem::data
  pc,      \* where the request is
  path,    \* its path
  rest,    \* what is left of it
  offset,  \* offset
  args,    \* the handler, and its other arguments
  got,     \* what it has delivered so far
  left,    \* buff_size, in list_xattr; length, in DataProvider::read
  id, of,  \* id and of, there
  answer   \* what it returns

request == <<path, rest, offset, args>>
reading == <<got, left, id, of>>
mounted == <<meta, pc, request, reading, answer>>
vars == <<built, search, mounted>>

NoArgs == [op |-> "none", name |-> 0, buffer |-> 0, at |-> 0]

Arguments == [op : {"none", "readdir", "listxattr", "getxattr", "read"},
              name : {0} \cup DOMAIN Values, buffer : {0} \cup Buffers, at : Nat]

TypeOK ==
  /\ stage \in {"root", "scan", "place", "built", "dead"}
  /\ pc \in {"start", "idle", "walk", "search", "at", "list", "names", "value", "chunks",
            "answer"}
  /\ \A k \in DOMAIN meta : meta[k].t \in {"header", "node", "entry", "name", "value", "target"}
  /\ offset \in 0..(Len(data) - 1)
  /\ rest \in Seq(Names)
  /\ args \in Arguments
  /\ left \in 0..args.buffer
  /\ of \in 0..(ChunkSize - 1)
  /\ id \in Nat
  /\ answer \in {"none", "OK", "ENOENT", "ENOTDIR", "EINVAL", "EACCES", "ERANGE", "ENODATA",
                 "undefined"}

Init ==
  /\ BuildInit
  /\ SearchInit
  /\ meta = << >>
  /\ pc = "start"
  /\ path = Root
  /\ rest = << >>
  /\ offset = 0
  /\ args = NoArgs
  /\ got = << >>
  /\ left = 0
  /\ id = 0
  /\ of = 0
  /\ answer = "none"

Build ==
  /\ BuildNext
  /\ UNCHANGED <<search, mounted>>
----------------------------------------------------------------------------
(* The chunks, as one string; the last one is filled up.                   *)
Chunks == data \o blob
LastChunk == (Len(Chunks) - 1) \div ChunkSize
Byte(p) == IF p < Len(Chunks) THEN Chunks[p + 1] ELSE [t |-> "filling"]

(* The constructor reads the length, and that much: lines 207-221.         *)
Mount ==
  /\ stage = "built"
  /\ pc = "start"
  /\ meta' = [k \in 1..Byte(0).length |-> Byte(k - 1)]
  /\ pc' = "idle"
  /\ UNCHANGED <<built, search, request, reading, answer>>

(* Paths that lead to a node, or out of the tree by one name.              *)
Asked == {Root} \cup {Append(p, n) : p \in DOMAIN tree, n \in Names}

(* get_node_offset is called, lines 134-141.                               *)
Begin(p) ==
  /\ pc = "idle"
  /\ path' = p
  /\ rest' = p
  /\ offset' = 1
  /\ pc' = "walk"
  /\ UNCHANGED <<built, search, meta, args, reading, answer>>

Reply(code) == pc' = "answer" /\ answer' = code

Smaller(m, n) == IF m < n THEN m ELSE n

Found == meta[offset + 1]

(* `count` entries at an offset, as find_entity reads them.                *)
IsTable(at, count) ==
  /\ count \in Nat /\ at + count <= Len(meta)
  /\ \A k \in 1..count :
       /\ meta[at + k] \in [t : {"entry"}, name_offset : Nat, data_offset : Nat]
       /\ meta[meta[at + k].name_offset + 1] \in [t : {"name"}, is : Names \cup DOMAIN Values]

Table(at, count) ==
  [k \in 1..count |->
     [name |-> meta[meta[at + k].name_offset + 1].is,
      data_offset |-> meta[at + k].data_offset]]

(* get_child, lines 166-174: the entries are taken to be behind the node.  *)
(* Mutant: the mode of the node is not tested.                             *)
GetChildOfAny ==
  /\ pc = "walk"
  /\ rest # << >>
  /\ IF Found.t # "node"
     THEN Reply("undefined") /\ UNCHANGED search
     ELSE IF ~IsTable(offset + 1, Found.length)
     THEN Reply("undefined") /\ UNCHANGED search
     ELSE /\ Search(Table(offset + 1, Found.length), Head(rest))
          /\ pc' = "search"
          /\ UNCHANGED answer
  /\ UNCHANGED <<built, meta, request, reading>>

GetChild ==
  /\ pc = "walk"
  /\ rest # << >>
  /\ IF Found.t # "node"
     THEN Reply("undefined") /\ UNCHANGED search
     ELSE IF Found.kind # "dir"
     THEN Reply("ENOENT") /\ UNCHANGED search
     ELSE IF ~IsTable(offset + 1, Found.length)
     THEN Reply("undefined") /\ UNCHANGED search
     ELSE /\ Search(Table(offset + 1, Found.length), Head(rest))
          /\ pc' = "search"
          /\ UNCHANGED answer
  /\ UNCHANGED <<built, meta, request, reading>>

(* find_entity goes on.                                                    *)
FindEntity ==
  /\ pc \in {"search", "value"}
  /\ Probe \/ ProbeLast
  /\ UNCHANGED <<built, mounted>>

(* It has returned, lines 145-150 and 157-161.                             *)
Enter ==
  /\ pc = "search"
  /\ found # Pending
  /\ IF found = 0
     THEN Reply("ENOENT") /\ UNCHANGED <<rest, offset>>
     ELSE /\ offset' = found
          /\ rest' = Tail(rest)
          /\ pc' = "walk"
          /\ UNCHANGED answer
  /\ UNCHANGED <<built, search, meta, path, args, reading>>

(* The path is resolved, line 163.  getattr and open, lines 40-46 and      *)
(* 198-202, are done with what was found.                                  *)
Resolved ==
  /\ pc = "walk"
  /\ rest = << >>
  /\ IF Found.t = "node" THEN pc' = "at" /\ UNCHANGED answer ELSE Reply("undefined")
  /\ UNCHANGED <<built, search, meta, request, reading>>
----------------------------------------------------------------------------
(* readlink, lines 24-38, into a buffer that holds every target.           *)
ReadLink ==
  /\ pc = "at"
  /\ IF Found.kind = "link"
     THEN Reply("OK") /\ got' = <<meta[Found.data_offset + 1].of>>
     ELSE Reply("EINVAL") /\ UNCHANGED got
  /\ UNCHANGED <<built, search, meta, request, left, id, of>>

(* readdir, lines 49-67 and 37-51 of fuse_main.cc.  The buffer of the      *)
(* caller holds some of the entries; it calls again from where it was.     *)
NoStat == <<0>>

Delivered(from, to) ==
  [k \in 1..(to - from) |->
     LET e == meta[Found.data_offset + from + k]
         n == meta[e.data_offset + 1]
     IN  [name |-> meta[e.name_offset + 1].is,
          stat |-> IF n.t = "node" THEN n.stat ELSE NoStat]]

OpenDir ==
  /\ pc = "at"
  /\ IF Found.kind = "dir"
     THEN IF IsTable(Found.data_offset, Found.length)
          THEN pc' = "list" /\ UNCHANGED answer
          ELSE Reply("undefined")
     ELSE Reply("ENOTDIR")
  /\ args' = [NoArgs EXCEPT !.op = "readdir"]
  /\ UNCHANGED <<built, search, meta, path, rest, offset, reading>>

(* Mutant: the offset of an entry that did not fit is kept.                *)
ReadDirSkips ==
  /\ pc = "list"
  /\ \E to \in args.at..Found.length :
       /\ got' = got \o Delivered(args.at, to)
       /\ args' = [args EXCEPT !.at = Smaller(to + 1, Found.length)]
       /\ IF to = Found.length THEN Reply("OK") ELSE to > args.at /\ UNCHANGED <<pc, answer>>
  /\ UNCHANGED <<built, search, meta, path, rest, offset, left, id, of>>

ReadDir ==
  /\ pc = "list"
  /\ \E to \in args.at..Found.length :
       /\ got' = got \o Delivered(args.at, to)
       /\ args' = [args EXCEPT !.at = to]
       /\ IF to = Found.length THEN Reply("OK") ELSE to > args.at /\ UNCHANGED <<pc, answer>>
  /\ UNCHANGED <<built, search, meta, path, rest, offset, left, id, of>>

(* listxattr, lines 70-76, into a buffer of `size` characters ...          *)
ListXattr(size) ==
  /\ pc = "at"
  /\ IF IsTable(offset + 1, Found.xattrs_count)
     THEN got' = << << >>, 0 >> /\ left' = size /\ pc' = "names" /\ UNCHANGED answer
     ELSE Reply("undefined") /\ UNCHANGED <<got, left>>
  /\ args' = [NoArgs EXCEPT !.op = "listxattr", !.buffer = size]
  /\ UNCHANGED <<built, search, meta, path, rest, offset, id, of>>

(* ... and a turn of lines 77-89: the names in the buffer, and *length.    *)
ListName ==
  LET name == meta[meta[offset + 1 + args.at + 1].name_offset + 1].is
      length == got[2] + NameBytes
  IN  /\ pc = "names"
      /\ args.at < Found.xattrs_count
      /\ args' = [args EXCEPT !.at = @ + 1]
      /\ \/ /\ left = 0
            /\ got' = <<got[1], length>>
            /\ UNCHANGED <<left, pc, answer>>
         \/ /\ left # 0 /\ NameBytes > left
            /\ got' = <<got[1], length>>
            /\ Reply("ERANGE")
            /\ UNCHANGED left
         \/ /\ left # 0 /\ NameBytes <= left
            /\ got' = <<Append(got[1], name), length>>
            /\ left' = left - NameBytes
            /\ UNCHANGED <<pc, answer>>
      /\ UNCHANGED <<built, search, meta, path, rest, offset, id, of>>

ListEnds ==
  /\ pc = "names"
  /\ args.at = Found.xattrs_count
  /\ Reply("OK")
  /\ UNCHANGED <<built, search, meta, request, reading>>

(* getxattr, lines 95-101 ...                                              *)
GetXattr(name, size) ==
  /\ pc = "at"
  /\ IF IsTable(offset + 1, Found.xattrs_count)
     THEN /\ Search(Table(offset + 1, Found.xattrs_count), name)
          /\ pc' = "value"
          /\ UNCHANGED answer
     ELSE Reply("undefined") /\ UNCHANGED search
  /\ args' = [NoArgs EXCEPT !.op = "getxattr", !.name = name, !.buffer = size]
  /\ UNCHANGED <<built, meta, path, rest, offset, reading>>

(* ... and 102-115.                                                        *)
(* Mutant: the size of the buffer is not tested.                           *)
AnswerXattrUnchecked ==
  /\ pc = "value"
  /\ found # Pending
  /\ IF found = 0
     THEN Reply("ENODATA") /\ UNCHANGED got
     ELSE IF meta[found + 1].t # "value"
     THEN Reply("undefined") /\ UNCHANGED got
     ELSE /\ got' = meta[found + 1].chars
          /\ Reply("OK")
  /\ UNCHANGED <<built, search, meta, request, left, id, of>>

AnswerXattr ==
  /\ pc = "value"
  /\ found # Pending
  /\ IF found = 0
     THEN Reply("ENODATA") /\ UNCHANGED got
     ELSE IF meta[found + 1].t # "value"
     THEN Reply("undefined") /\ UNCHANGED got
     ELSE LET value == meta[found + 1].chars
          IN  /\ got' = IF args.buffer = 0 THEN <<Len(value)>> ELSE value
              /\ Reply(IF args.buffer > 0 /\ Len(value) > args.buffer THEN "ERANGE" ELSE "OK")
  /\ UNCHANGED <<built, search, meta, request, left, id, of>>
----------------------------------------------------------------------------
(* read after open, lines 97-104 of fuse_main.cc: `size` bytes at `at`,    *)
(* which is not behind the end that getattr gave.  Lines 6-7 of            *)
(* data_provider.cc keep 32 bits of the number of the first chunk.         *)
(* Mutant: the length that is left is signed.                              *)
ReadSigned(at, size) ==
  LET from == (Found.data_offset + at) % Wrap
  IN  /\ pc = "at"
      /\ at <= Found.size
      /\ args' = [NoArgs EXCEPT !.op = "read", !.buffer = size, !.at = at]
      /\ IF Found.kind = "file"
         THEN /\ left' = Smaller(Found.length - at, size)
              /\ id' = (from \div ChunkSize) % IdWrap
              /\ of' = from % ChunkSize
              /\ pc' = "chunks"
              /\ UNCHANGED answer
         ELSE Reply("EACCES") /\ UNCHANGED <<left, id, of>>
      /\ UNCHANGED <<built, search, meta, path, rest, offset, got>>

Read(at, size) ==
  LET from == (Found.data_offset + at) % Wrap
  IN  /\ pc = "at"
      /\ at <= Found.size
      /\ args' = [NoArgs EXCEPT !.op = "read", !.buffer = size, !.at = at]
      /\ IF Found.kind = "file"
         THEN /\ left' = Smaller((Found.length - at) % Wrap, size)
              /\ id' = (from \div ChunkSize) % IdWrap
              /\ of' = from % ChunkSize
              /\ pc' = "chunks"
              /\ UNCHANGED answer
         ELSE Reply("EACCES") /\ UNCHANGED <<left, id, of>>
      /\ UNCHANGED <<built, search, meta, path, rest, offset, got>>

(* DataProvider::read, a turn of lines 8-25.                               *)
(* Mutant: of keeps its value.                                             *)
ChunkOffset ==
  LET len == Smaller(left, ChunkSize - of)
  IN  /\ pc = "chunks"
      /\ left > 0
      /\ id <= LastChunk
      /\ got' = got \o [k \in 1..len |-> Byte(id * ChunkSize + of + k - 1)]
      /\ left' = left - len
      /\ id' = (id + 1) % IdWrap
      /\ UNCHANGED <<built, search, meta, pc, request, of, answer>>

Chunk ==
  LET len == Smaller(left, ChunkSize - of)
  IN  /\ pc = "chunks"
      /\ left > 0
      /\ id <= LastChunk
      /\ got' = got \o [k \in 1..len |-> Byte(id * ChunkSize + of + k - 1)]
      /\ of' = 0
      /\ left' = left - len
      /\ id' = (id + 1) % IdWrap
      /\ UNCHANGED <<built, search, meta, pc, request, answer>>

(* read_chunk fails, lines 12-20; it always does behind the last chunk.    *)
ChunkFails ==
  /\ pc = "chunks"
  /\ left > 0
  /\ Reply("EACCES")
  /\ UNCHANGED <<built, search, meta, request, reading>>

ReadEnds ==
  /\ pc = "chunks"
  /\ left = 0
  /\ Reply("OK")
  /\ UNCHANGED <<built, search, meta, request, reading>>
----------------------------------------------------------------------------
(* The caller has the answer.                                              *)
Done ==
  /\ pc = "answer"
  /\ pc' = "idle"
  /\ path' = Root
  /\ rest' = << >>
  /\ offset' = 0
  /\ args' = NoArgs
  /\ got' = << >>
  /\ left' = 0
  /\ id' = 0
  /\ of' = 0
  /\ answer' = "none"
  /\ ents' = << >> /\ sought' = 0 /\ a' = 0 /\ b' = 0 /\ found' = 0
  /\ UNCHANGED <<built, meta>>

Dead == stage = "dead" /\ UNCHANGED vars

Next ==
  \/ Build \/ Mount \/ GetChild \/ FindEntity \/ Enter \/ Resolved
  \/ ReadLink \/ OpenDir \/ ReadDir \/ ListName \/ ListEnds \/ AnswerXattr
  \/ Chunk \/ ChunkFails \/ ReadEnds \/ Done \/ Dead
  \/ \E p \in Asked : Begin(p)
  \/ \E size \in Buffers :
       \/ ListXattr(size)
       \/ \E n \in DOMAIN Values : GetXattr(n, size)
       \/ \E at \in 0..Max(Lengths) : Read(at, size)

Spec == Init /\ [][Next]_vars
----------------------------------------------------------------------------
(* An entry is found when it was scanned, and nothing else is, as long as  *)
(* no directory on the way has extended attributes.                        *)
Above == {Root} \cup {SubSeq(path, 1, n) : n \in 0..(Len(path) - 1)}
Plain == \A p \in Above \cap DOMAIN tree : p # path => tree[p].xattrs = << >>

LookupRight ==
  RootKept /\ Plain =>
    /\ pc = "at" => path \in DOMAIN tree /\ Found.stat = path
    /\ pc = "answer" /\ args.op = "none" =>
         answer # "undefined" /\ (answer = "ENOENT" => path \notin DOMAIN tree)

(* main.cc:67, "Create a new distfs file system from a directory": what is *)
(* in the directory is in the file system.                                 *)
FindsEveryEntry == answer = "ENOENT" => path \notin DOMAIN tree

(* A directory is listed completely and in order, in however many calls,   *)
(* each entry with its own attributes, unless it had vanished.             *)
Answered(op) == pc = "answer" /\ args.op = op /\ RootKept

ListingComplete ==
  Answered("readdir") /\ answer = "OK" =>
    LET names == tree[Found.stat].names
    IN  got = [k \in DOMAIN names |->
                 [name |-> names[k],
                  stat |-> LET p == Append(Found.stat, names[k])
                           IN  IF p \in DOMAIN tree THEN p ELSE NoStat]]

(* The attributes that were scanned are listed and read back, with the     *)
(* errors that callers expect of a small buffer; a list that just fills    *)
(* the buffer before its end, and a value with a NUL, are not.             *)
XattrsRight ==
  LET xattrs == tree[Found.stat].xattrs
      total == NameBytes * Len(xattrs)
  IN  /\ Answered("listxattr") =>
           /\ answer = "ERANGE" => total > args.buffer
           /\ answer = "OK" => got[2] = total
           /\ answer = "OK" /\ total <= args.buffer =>
                got[1] = [k \in DOMAIN xattrs |-> xattrs[k].name]
           /\ answer = "OK" /\ total > args.buffer => args.buffer % NameBytes = 0
      /\ Answered("getxattr") =>
           /\ answer = "ENODATA" <=> \A k \in DOMAIN xattrs : xattrs[k].name # args.name
           /\ \A k \in DOMAIN xattrs : xattrs[k].name = args.name =>
                LET value == xattrs[k].value
                IN  /\ answer = "ERANGE" <=> args.buffer > 0 /\ Len(value) > args.buffer
                    /\ answer = "OK" /\ args.buffer = 0 => got = <<Len(value)>>
                    /\ answer = "OK" /\ args.buffer > 0 => got = Copied(value)

(* Every file has been placed, and a read that does not begin behind what  *)
(* was stored of it gives its own bytes, from that place and up to its     *)
(* end, through however many chunks, while offsets and ids of chunks reach *)
(* all of the image.                                                       *)
Addressable == Len(Chunks) <= Wrap /\ Len(Chunks) <= ChunkSize * IdWrap

ReadsOwnBytes ==
  pc = "answer" /\ args.op = "read" /\ Found.kind = "file" =>
    /\ Found.length # Uninit
    /\ answer = "OK" /\ args.at <= Found.length /\ Addressable =>
         got = [k \in 1..Smaller(Found.length - args.at, args.buffer) |->
                  Content(Found.stat, args.at + k)]

(* main.cc:73, "Mount distfs": whatever is read of a file is of that file. *)
ReadsNothingElse ==
  Answered("read") /\ answer = "OK" =>
    \A k \in DOMAIN got : got[k] = Content(Found.stat, args.at + k)
=============================================================================
