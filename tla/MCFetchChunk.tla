---------------------------- MODULE MCFetchChunk ----------------------------
(* Hashes of two hexadecimal digits instead of 64: "0a", "1b", "2d".       *)
EXTENDS FetchChunk

CONSTANTS p1, p2

MCIds == {0, 1}
MCImage == << <<48, 97>>, <<49, 98>> >>
MCImageOf == (p1 :> MCImage) @@ (p2 :> << <<48, 97>>, <<50, 100>> >>)

(* A cache directory may hold a file that was cut off by a kill, or that   *)
(* is of another image.                                                    *)
MCOld == {<<"bad">>}

(* One node to mirror, that has an image of one chunk.                     *)
OneId == {0}
OneImage == << <<48, 97>> >>
OneImageOf == (p1 :> OneImage)
=============================================================================
