------------------------------ MODULE MetaBuffer ------------------------------
(***************************************************************************)
(* The buffer of the MetaFSBuilder (meta/metafs_builder.{h,cc}), in bytes: *)
(* add_file, add_link and add_dir first sum up what they are going to      *)
(* write, reserve_buffer doubles the buffer until that fits, and then they *)
(* write it, piece by piece.  What is written is in MetaBuilder; here only *)
(* where each write ends.  Which nodes are added, in which order and with  *)
(* which names, attributes and targets, is up to the source directory: any *)
(* is possible.                                                            *)
(***************************************************************************)
EXTENDS Integers, Sequences, SequencesExt

CONSTANTS
  BufferSize,   \* CHUNK_SIZE_BYTES, what the buffer begins with
  Lens,         \* of the strings of a source directory
  MaxAdded, MaxStrings   \* bounds: nodes, entries or attributes of a node

ASSUME BufferSizeAssumption == BufferSize \in Nat \ {0}
ASSUME LensAssumption == Lens \subseteq Nat
ASSUME AddedAssumption == {MaxAdded, MaxStrings} \subseteq Nat

VARIABLES
  data_size,    \* data_size
  current_pos,  \* current_pos
  adding,       \* the node that is added: its kind and the sizes of its strings
  phase,        \* where the builder is
  lens,         \* what len was so far, lines 82-85
  sums,         \* what sum was so far, lines 182-185
  turn,         \* the loop variable of lines 41 and 98
  entries,      \* where the entries are that this loop fills in
  starts,       \* where nodes have been added
  tables,       \* where the entries of directories are, and how many
  writes        \* where the writes of the last step end

space == <<data_size, current_pos>>
loop == <<turn, entries>>
known == <<starts, tables>>
buffer_vars == <<space, adding, phase, lens, sums, loop, known, writes>>

(* sizeof(Node), sizeof(Entry) and sizeof(usize), types.h lines 7-24.      *)
SizeOfNode == 72
SizeOfEntry == 16
SizeOfWord == 8

Strings(ls) == UNION {[1..n -> ls] : n \in 0..MaxStrings}
SomeXattrs == Strings([name : Lens \ {0}, value : Lens])

(* A node has entries if it is a directory, a target if it is a link.      *)
Addable ==
  [kind : {"file"}, xattrs : SomeXattrs, names : {<< >>}, target : {0}]
  \cup [kind : {"link"}, xattrs : SomeXattrs, names : {<< >>}, target : Lens]
  \cup [kind : {"dir"}, xattrs : SomeXattrs, names : Strings(Lens \ {0}), target : {0}]

NoNode == [kind |-> "none", xattrs |-> << >>, names |-> << >>, target |-> 0]

(* build, lines 227-231.                                                   *)
BufferInit ==
  /\ data_size = BufferSize
  /\ current_pos = SizeOfWord
  /\ adding = NoNode
  /\ phase = "scan"
  /\ lens = <<0>>
  /\ sums = <<0>>
  /\ turn = 0
  /\ entries = 0
  /\ starts = {}
  /\ tables = {}
  /\ writes = {}
----------------------------------------------------------------------------
(* One of add_file, add_link and add_dir is called.                        *)
Adds ==
  /\ phase = "scan"
  /\ Cardinality(starts) < MaxAdded
  /\ adding' \in Addable
  /\ phase' = "sum"
  /\ lens' = <<0>>
  /\ sums' = <<0>>
  /\ writes' = {}
  /\ UNCHANGED <<space, loop, known>>

(* A turn of lines 83-85.                                                  *)
SumName ==
  LET k == Len(lens)
  IN  /\ phase = "sum"
      /\ k <= Len(adding.names)
      /\ lens' = Append(lens, lens[k] + adding.names[k] + 1 + SizeOfEntry)
      /\ UNCHANGED <<space, adding, phase, sums, loop, known, writes>>

(* xattrs_len is called when that is done: a turn of lines 183-185.        *)
(* Mutant: the NUL behind the value is forgotten.                          *)
SumXattrShort ==
  LET k == Len(sums)
      x == adding.xattrs[k]
  IN  /\ phase = "sum"
      /\ Len(lens) > Len(adding.names)
      /\ k <= Len(adding.xattrs)
      /\ sums' = Append(sums, sums[k] + x.name + 1 + x.value + SizeOfEntry + SizeOfWord)
      /\ UNCHANGED <<space, adding, phase, lens, loop, known, writes>>

SumXattr ==
  LET k == Len(sums)
      x == adding.xattrs[k]
  IN  /\ phase = "sum"
      /\ Len(lens) > Len(adding.names)
      /\ k <= Len(adding.xattrs)
      /\ sums' = Append(sums, sums[k] + x.name + 1 + x.value + 1 + SizeOfEntry + SizeOfWord)
      /\ UNCHANGED <<space, adding, phase, lens, loop, known, writes>>

(* The length that is reserved, lines 55, 67 and 86.                       *)
Strlen == IF adding.kind = "link" THEN adding.target + 1 ELSE 0
Reserving == SizeOfNode + Last(lens) + Strlen + Last(sums)

Summed == Len(lens) > Len(adding.names) /\ Len(sums) > Len(adding.xattrs)

(* reserve_buffer, a turn of lines 19-25.                                  *)
Double ==
  /\ phase = "sum"
  /\ Summed
  /\ data_size < Reserving + current_pos
  /\ data_size' = 2 * data_size
  /\ UNCHANGED <<current_pos, adding, phase, lens, sums, loop, known, writes>>

(* It returns; set_stat and lines 58-59, 70-71 or 90-92 write the node,    *)
(* and line 40 passes over its attributes.                                 *)
AddNode ==
  /\ phase = "sum"
  /\ Summed
  /\ data_size >= Reserving + current_pos
  /\ writes' = {current_pos + SizeOfNode}
  /\ starts' = starts \cup {current_pos}
  /\ entries' = current_pos + SizeOfNode
  /\ current_pos' = current_pos + SizeOfNode + SizeOfEntry * Len(adding.xattrs)
  /\ turn' = 0
  /\ phase' = "xattrs"
  /\ UNCHANGED <<data_size, adding, lens, sums, tables>>

(* add_xattrs, a turn of lines 41-50.                                      *)
AddXattr ==
  LET x == adding.xattrs[turn + 1]
      value == current_pos + x.name + 1
      end == value + SizeOfWord + x.value + 1
  IN  /\ phase = "xattrs"
      /\ turn < Len(adding.xattrs)
      /\ writes' = {entries + SizeOfEntry * (turn + 1), value, value + SizeOfWord, end}
      /\ current_pos' = end
      /\ turn' = turn + 1
      /\ UNCHANGED <<data_size, adding, phase, lens, sums, entries, known>>

XattrsDone == phase = "xattrs" /\ turn = Len(adding.xattrs)

(* The call returns.                                                       *)
Finished ==
  /\ phase' = "scan"
  /\ adding' = NoNode
  /\ lens' = <<0>>
  /\ sums' = <<0>>
  /\ turn' = 0
  /\ entries' = 0

FileDone ==
  /\ XattrsDone
  /\ adding.kind = "file"
  /\ writes' = {}
  /\ Finished
  /\ UNCHANGED <<space, known>>

(* Lines 73-76.                                                            *)
AddTarget ==
  /\ XattrsDone
  /\ adding.kind = "link"
  /\ writes' = {current_pos + adding.target + 1}
  /\ current_pos' = current_pos + adding.target + 1
  /\ Finished
  /\ UNCHANGED <<data_size, known>>

(* Lines 94-96.                                                            *)
AddEntries ==
  /\ XattrsDone
  /\ adding.kind = "dir"
  /\ entries' = current_pos
  /\ current_pos' = current_pos + SizeOfEntry * Len(adding.names)
  /\ turn' = 0
  /\ phase' = "names"
  /\ writes' = {}
  /\ UNCHANGED <<data_size, adding, lens, sums, known>>

(* A turn of lines 98-102.                                                 *)
AddName ==
  LET end == current_pos + adding.names[turn + 1] + 1
  IN  /\ phase = "names"
      /\ turn < Len(adding.names)
      /\ writes' = {entries + SizeOfEntry * (turn + 1), end}
      /\ current_pos' = end
      /\ turn' = turn + 1
      /\ UNCHANGED <<data_size, adding, phase, lens, sums, entries, known>>

DirDone ==
  /\ phase = "names"
  /\ turn = Len(adding.names)
  /\ tables' = tables \cup {[at |-> entries, count |-> Len(adding.names)]}
  /\ writes' = {}
  /\ Finished
  /\ UNCHANGED <<space, starts>>

(* set_dirent_node_offset, line 159, of a directory that is scanned.       *)
SetOffset ==
  /\ phase = "scan"
  /\ \E d \in tables : \E k \in 1..d.count : writes' = {d.at + SizeOfEntry * k}
  /\ UNCHANGED <<space, adding, phase, lens, sums, loop, known>>

(* The root has been scanned: line 234.                                    *)
WriteLength ==
  /\ phase = "scan"
  /\ starts # {}
  /\ writes' = {SizeOfWord}
  /\ phase' = "place"
  /\ UNCHANGED <<space, adding, lens, sums, loop, known>>

(* create_chunks, lines 202-209: the fields of a node, or of what is taken *)
(* for one at offset 0 when an entry had vanished.                         *)
SetFields ==
  /\ phase = "place"
  /\ \E n \in starts \cup {0} : writes' = {n + SizeOfNode}
  /\ UNCHANGED <<space, adding, phase, lens, sums, loop, known>>

BufferNext ==
  \/ Adds \/ SumName \/ SumXattr \/ Double \/ AddNode \/ AddXattr \/ FileDone \/ AddTarget
  \/ AddEntries \/ AddName \/ DirDone \/ SetOffset \/ WriteLength \/ SetFields

BufferSpec == BufferInit /\ [][BufferNext]_buffer_vars
----------------------------------------------------------------------------
(* Nothing is written behind the end of the buffer: what add_xattrs,       *)
(* add_link and add_dir write byte by byte, with the NULs of strncpy and   *)
(* the lengths in front of values, is no more than what was summed up and  *)
(* reserved before (lines 18-26, 55, 67, 82-86, 181-187).                  *)
Reserved == \A end \in writes : end <= data_size
=============================================================================
