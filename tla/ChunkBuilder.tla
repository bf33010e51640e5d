---------------------------- MODULE ChunkBuilder ----------------------------
(***************************************************************************)
(* The `build` command: meta/metafs_builder.cc lays the files of a         *)
(* directory out behind one another, data/chunk_builder.{h,cc} cuts that   *)
(* image into chunks and data/compressed_store.cc stores them.  There is   *)
(* one thread; what is hard is that the builder holds one chunk at a time, *)
(* that it comes back to the first ones to write the metadata, that the    *)
(* store may hold an older image, and that any step may fail.              *)
(*                                                                         *)
(* The metadata is a string of MetaLength bytes (scanning the directory is *)
(* not modelled), a file a string of bytes.  A chunk on disk that cannot   *)
(* be decompressed is Torn.  The store never evicts here: its size is the  *)
(* default, 2^31.                                                          *)
(***************************************************************************)
EXTENDS Integers, Sequences, FiniteSets

CONSTANTS
  ChunkSize,       \* CHUNK_SIZE_BYTES
  Bytes,           \* values of a byte
  MetaLength,      \* current_pos of the MetaFSBuilder once it has scanned
  MaxFiles, MaxFileLength,       \* bounds on the directory
  MaxFailures, MaxReadErrors,    \* bounds on failing calls of store and source
  Incompressible,  \* the chunks that LZ4 would make larger than a chunk
  Torn, None       \* a file that is no chunk, no file

ASSUME SizeAssumption == ChunkSize \in Nat \ {0} /\ MetaLength \in Nat \ {0}
ASSUME BoundsAssumption ==
  {MaxFiles, MaxFileLength, MaxFailures, MaxReadErrors} \subseteq Nat

Content == [0..(ChunkSize - 1) -> Bytes]
Ids == 0..((MetaLength + (MaxFiles + MaxReadErrors) * MaxFileLength) \div ChunkSize)
Strings(max) == UNION {[1..n -> Bytes] : n \in 0..max}

ASSUME ContentAssumption ==
  Incompressible \subseteq Content /\ {Torn, None} \cap Content = {} /\ Torn # None

VARIABLES
  files,        \* files[i]: the chunk that the file of i on disk holds
  in_store,     \* in_store of the ChunkStore
  buff,         \* buff
  pos,          \* pos
  chunk_num,    \* chunk_num: the chunk that buff holds
  built,        \* built
  pc,           \* where the thread is
  work,         \* what write_data has still to write
  then,         \* where it returns to
  source,       \* the file being added: what is still to be read
  node,         \* and its node: offset, and what was read of it
  nodes,        \* the nodes of the files that were added
  meta,         \* the metadata, once all offsets are known
  status,       \* what the process returns
  failures, readErrors   \* counters of the bounds

store == <<files, in_store>>
builder == <<buff, pos, chunk_num>>
file == <<source, node>>
vars == <<files, in_store, buff, pos, chunk_num, built, pc, work, then, source, node,
          nodes, meta, status, failures, readErrors>>

Node == [offset : Nat, bytes : Strings(MaxFileLength)]
NoNode == [offset |-> 0, bytes |-> << >>]

TypeOK ==
  /\ files \in [Ids -> Content \cup {Torn, None}]
  /\ in_store \in SUBSET Ids
  /\ buff \in Content
  /\ pos \in Nat
  /\ chunk_num \in Ids
  /\ built \in BOOLEAN
  /\ pc \in {"reserve", "files", "read", "copy", "build", "destroy", "exit", "serving", "throws",
            "dead"}
  /\ work \in Seq(Bytes)
  /\ then \in {"read", "added", "skipped", "build"}
  /\ source \in Seq(Bytes)
  /\ node \in Node
  /\ nodes \in Seq(Node)
  /\ meta \in Strings(MetaLength)
  /\ status \in {"none", "ok", "error"}
  /\ failures \in 0..MaxFailures
  /\ readErrors \in 0..MaxReadErrors

(* The store is empty or holds an older image; new char[] is not cleared.  *)
Init ==
  /\ \E n \in 0..Cardinality(Ids), old \in Content :
       /\ files = [i \in Ids |-> IF i < n THEN old ELSE None]
       /\ in_store = {i \in Ids : i < n}
  /\ buff \in Content
  /\ pos = 0
  /\ chunk_num = 0
  /\ built = FALSE
  /\ pc = "reserve"
  /\ work = << >>
  /\ then = "read"
  /\ source = << >>
  /\ node = NoNode
  /\ nodes = << >>
  /\ meta = << >>
  /\ status = "none"
  /\ failures = 0
  /\ readErrors = 0
----------------------------------------------------------------------------
Goto(label) == pc' = label

Smaller(m, n) == IF m < n THEN m ELSE n

(* CompressedStore::write_chunk.  LZ4_compress_default returns 0 when the  *)
(* result does not fit, line 26 tests for less: an empty file is stored.   *)
Stored(chunk) ==
  /\ files' = [files EXCEPT ![chunk_num] =
                 IF chunk \in Incompressible THEN Torn ELSE chunk]
  /\ in_store' = in_store \cup {chunk_num}

(* It fails, before or after it opened the file.                           *)
Fails == failures < MaxFailures /\ failures' = failures + 1

StoreFails ==
  /\ Fails
  /\ files' \in {files, [files EXCEPT ![chunk_num] = Torn]}
  /\ UNCHANGED in_store

(* move_pos, lines 100-117, with chunk in buff.                            *)
(* Mutants: a chunk that is in the store is not read back; the division in *)
(* line 106 is missing.                                                    *)
MoveUnread(to, chunk) ==
  /\ pos' = to
  /\ buff' = chunk
  /\ IF to \div ChunkSize = chunk_num
     THEN UNCHANGED <<store, chunk_num>>
     ELSE Stored(chunk) /\ chunk_num' = to \div ChunkSize
  /\ UNCHANGED failures

MoveUndivided(to, chunk) ==
  /\ pos' = to
  /\ buff' = chunk
  /\ IF to \div ChunkSize = chunk_num
     THEN UNCHANGED <<store, chunk_num>>
     ELSE Stored(chunk) /\ chunk_num' = to
  /\ UNCHANGED failures

Move(to, chunk) ==
  /\ pos' = to
  /\ IF to \div ChunkSize = chunk_num
     THEN buff' = chunk /\ UNCHANGED <<store, chunk_num>>
     ELSE /\ Stored(chunk)
          /\ chunk_num' = to \div ChunkSize
          /\ IF chunk_num' \in in_store'
             THEN files'[chunk_num'] # Torn /\ buff' = files'[chunk_num']
             ELSE buff' = chunk
  /\ UNCHANGED failures

(* It returns an error in line 104, or in line 111: the number is that of  *)
(* the new chunk by then, and buff still holds the old one.                *)
MoveFails(to, chunk) ==
  /\ to \div ChunkSize # chunk_num
  /\ buff' = chunk
  /\ \/ StoreFails /\ UNCHANGED chunk_num
     \/ /\ Stored(chunk)
        /\ chunk_num' = to \div ChunkSize
        /\ chunk_num' \in in_store'
        /\ files'[chunk_num'] = Torn \/ failures < MaxFailures
        /\ failures' = IF files'[chunk_num'] = Torn THEN failures ELSE failures + 1

(* create_chunks and build return the error, main returns 1.               *)
Abort == status' = "error" /\ Goto("destroy")

(* reserve, lines 53-56, called by create_chunks to skip the metadata.     *)
Reserve ==
  /\ pc = "reserve"
  /\ \/ Move(MetaLength, buff) /\ Goto("files") /\ UNCHANGED status
     \/ MoveFails(MetaLength, buff) /\ UNCHANGED pos /\ Abort
  /\ UNCHANGED <<built, work, then, file, nodes, meta, readErrors>>

(* add_file, lines 12-26.  A file that cannot be opened changes nothing.   *)
AddFile ==
  /\ pc = "files"
  /\ Len(nodes) < MaxFiles
  /\ source' \in Strings(MaxFileLength)
  /\ node' = [offset |-> pos, bytes |-> << >>]
  /\ Goto("read")
  /\ UNCHANGED <<store, builder, built, work, then, nodes, meta, status, failures,
                 readErrors>>

(* Lines 29-34: a chunk is read, or what is left and then an end of file.  *)
Read ==
  LET n == Smaller(ChunkSize, Len(source))
  IN  /\ pc = "read"
      /\ work' = SubSeq(source, 1, n)
      /\ source' = SubSeq(source, n + 1, Len(source))
      /\ node' = [node EXCEPT !.bytes = @ \o work']
      /\ then' = IF n < ChunkSize THEN "added" ELSE "read"
      /\ Goto("copy")
      /\ UNCHANGED <<store, builder, built, nodes, meta, status, failures, readErrors>>

(* read returns -1 after n bytes: line 31 makes max_size one too large and *)
(* line 35 passes n - 1, which is 2^32 - 1 for an n of 0.                  *)
ReadError ==
  /\ pc = "read"
  /\ readErrors < MaxReadErrors
  /\ readErrors' = readErrors + 1
  /\ \E n \in 0..Smaller(ChunkSize - 1, Len(source)) :
       IF n = 0
       THEN Goto("dead") /\ UNCHANGED work
       ELSE Goto("copy") /\ work' = SubSeq(source, 1, n - 1)
  /\ then' = "skipped"
  /\ source' = << >>
  /\ node' = NoNode
  /\ UNCHANGED <<store, builder, built, nodes, meta, status, failures>>

(* write_data, lines 66-79: one turn of the loop.  create_chunks returns   *)
(* an error of add_file that is one of the store, but ignores that of      *)
(* write in line 222.                                                      *)
Copy ==
  LET curr == pos % ChunkSize
      next == Smaller(ChunkSize - curr, Len(work))
      chunk == [k \in 0..(ChunkSize - 1) |->
                  IF k \in curr..(curr + next - 1) THEN work[k - curr + 1] ELSE buff[k]]
  IN  /\ pc = "copy"
      /\ work # << >>
      /\ \/ /\ Move(pos + next, chunk)
            /\ work' = SubSeq(work, next + 1, Len(work))
            /\ UNCHANGED <<pc, status>>
         \/ /\ MoveFails(pos + next, chunk)
            /\ pos' = pos + next
            /\ work' = << >>
            /\ IF then = "build" THEN Goto("build") /\ UNCHANGED status ELSE Abort
      /\ UNCHANGED <<built, then, file, nodes, meta, readErrors>>

(* Lines 40-50: add_file reads on, or returns.                             *)
Copied ==
  /\ pc = "copy"
  /\ work = << >>
  /\ Goto(IF then \in {"added", "skipped"} THEN "files" ELSE then)
  /\ nodes' = IF then = "added" THEN Append(nodes, node) ELSE nodes
  /\ UNCHANGED <<store, builder, built, work, then, file, meta, status, failures,
                 readErrors>>

(* write, lines 58-64, called by create_chunks for the metadata.           *)
(* Mutant: it does not move to the offset.                                 *)
WriteMetaInPlace ==
  /\ pc = "files"
  /\ meta' \in [1..MetaLength -> Bytes]
  /\ work' = meta'
  /\ then' = "build"
  /\ Goto("copy")
  /\ UNCHANGED <<store, builder, built, file, nodes, status, failures, readErrors>>

WriteMeta ==
  /\ pc = "files"
  /\ meta' \in [1..MetaLength -> Bytes]
  /\ \/ /\ Move(0, buff)
        /\ work' = meta'
        /\ Goto("copy")
     \/ /\ MoveFails(0, buff)
        /\ UNCHANGED <<pos, work>>
        /\ Goto("build")
  /\ then' = "build"
  /\ UNCHANGED <<built, file, nodes, status, readErrors>>

(* build, lines 92-98; MetaFSBuilder::build ignores its result.            *)
(* Mutant: the chunk in buff is not stored.                                *)
BuildNothing ==
  /\ pc = "build"
  /\ built' = TRUE
  /\ status' = "ok"
  /\ Goto("destroy")
  /\ UNCHANGED <<store, builder, work, then, file, nodes, meta, failures, readErrors>>

Build ==
  /\ pc = "build"
  /\ \/ Stored(buff) /\ built' = TRUE /\ UNCHANGED failures
     \/ StoreFails /\ UNCHANGED built
  /\ status' = "ok"
  /\ Goto("destroy")
  /\ UNCHANGED <<builder, work, then, file, nodes, meta, readErrors>>

(* The destructor, lines 81-90, ignores what remove_chunk returns.         *)
(* Mutant: it removes the chunks before the one in buff.                   *)
DestroyBelow ==
  LET kept == {i \in in_store : i >= chunk_num}
  IN  /\ pc = "destroy"
      /\ IF built
         THEN UNCHANGED store
         ELSE /\ files' = [i \in Ids |-> IF i \in in_store \ kept THEN None ELSE files[i]]
              /\ in_store' = kept
      /\ Goto("exit")
      /\ UNCHANGED <<builder, built, work, then, file, nodes, meta, status, failures,
                     readErrors>>

Destroy ==
  /\ pc = "destroy"
  /\ IF built
     THEN UNCHANGED <<store, failures>>
     ELSE \E kept \in SUBSET in_store :
            /\ failures' = failures + Cardinality(kept)
            /\ failures' <= MaxFailures
            /\ files' = [i \in Ids |-> IF i \in in_store \ kept THEN None ELSE files[i]]
            /\ in_store' = kept
  /\ Goto("exit")
  /\ UNCHANGED <<builder, built, work, then, file, nodes, meta, status, readErrors>>

(* The `serve` command on what is there: the ChunkStore takes every file   *)
(* for a chunk, and DistfsMetadata reads as many chunks as there are, from *)
(* number 0, whatever is in them.                                          *)
Serve ==
  LET ids == {i \in Ids : files[i] # None}
  IN  /\ pc = "exit"
      /\ in_store' = ids
      /\ Goto(IF \A i \in 0..(Cardinality(ids) - 1) : i \in ids THEN "serving" ELSE "throws")
      /\ UNCHANGED <<files, builder, built, work, then, file, nodes, meta, status, failures,
                     readErrors>>

Ended == pc \in {"serving", "throws", "dead"} /\ UNCHANGED vars

Next ==
  \/ Reserve \/ AddFile \/ Read \/ ReadError \/ Copy \/ Copied \/ WriteMeta
  \/ Build \/ Destroy \/ Serve \/ Ended

Spec == Init /\ [][Next]_vars
----------------------------------------------------------------------------
(* What a string of bytes at an offset reads as, of chunks in `image`.     *)
Holds(image, offset, bytes) ==
  \A k \in DOMAIN bytes :
    LET p == offset + k - 1
        chunk == image[p \div ChunkSize]
    IN  chunk \in Content /\ chunk[p % ChunkSize] = bytes[k]

FilesIn(image) ==
  \A k \in DOMAIN nodes : Holds(image, nodes[k].offset, nodes[k].bytes)

(* While the image is being made, every file that was added is in it where *)
(* its node says, partly on disk and partly in buff: leaving a chunk saves *)
(* it, entering one that was left brings it back, and the metadata that is *)
(* written last spoils no file it shares a chunk with.                     *)
FilesKept == failures = 0 => FilesIn([files EXCEPT ![chunk_num] = buff])

(* main.cc:67, "Create a new distfs file system from a directory:": when   *)
(* the process reports success, the disk holds the metadata at 0, and      *)
(* every file where its node says.                                         *)
CompleteWhenReported ==
  pc = "exit" /\ status = "ok" =>
    Len(meta) = MetaLength /\ Holds(files, 0, meta) /\ FilesIn(files)

(* It is so if no call of the store failed (lines 222 and 238 of           *)
(* metafs_builder.cc ignore some that did), whatever the store held before *)
(* and whichever files could not be read to their end.                     *)
CompleteIfUndisturbed == failures = 0 => CompleteWhenReported

(* Such an image can be served: line 40 of distfs_metadata.cc rejects one  *)
(* with a hole, but the chunks that reserve skips are all visited by the   *)
(* write that fills what was reserved, and an older image has none behind. *)
Servable == built /\ failures = 0 => pc # "throws"

(* A build that failed leaves nothing of the image behind, nor of the one  *)
(* that was there, but for the file of the write that failed, which is     *)
(* not in in_store, and those whose removal failed.                        *)
LeftoversAreFailures ==
  pc = "exit" /\ ~built => Cardinality({i \in Ids : files[i] # None}) <= failures
=============================================================================
