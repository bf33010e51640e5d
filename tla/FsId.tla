-------------------------------- MODULE FsId --------------------------------
(***************************************************************************)
(* The id of a file system instance, as the constructor of DistfsMetadata  *)
(* computes it: network/distfs_metadata.cc.  A checksum is a sequence of   *)
(* character codes, an image the sequence of the checksums of its chunks.  *)
(***************************************************************************)
EXTENDS Integers, Sequences, SequencesExt

CONSTANT Width   \* bits of an fs id: 64

ASSUME WidthAssumption == Width \in Nat \ {0}

(* The loops of lines 45-50, in unsigned arithmetic.                       *)
FsIdOf(image) ==
  FoldLeft(LAMBDA id, c : (id * c) % (2 ^ Width), 1, FlattenSeq(image))
=============================================================================
