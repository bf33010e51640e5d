----------------------------- MODULE MCMetaBuffer -----------------------------
(* Strings that make a node end before, at and behind a border of the      *)
(* buffer: a file with one attribute of sizes 22 and 0 ends at byte 128.   *)
EXTENDS MetaBuffer

MCLens == {0, 1, 22}
=============================================================================
