------------------------------- MODULE MCMount -------------------------------
EXTENDS Mount

(* Two attributes: one with a NUL in it, and one of another length.        *)
MCValues == << <<1>>, <<1, 0, 1>> >>

(* Many entries with an attribute, or few with many.                       *)
MCLimits == {[nodes |-> 3, xattrs |-> 1, lost |-> 1], [nodes |-> 1, xattrs |-> 3, lost |-> 1]}

OneValue == << <<1>> >>
OneXattr == {[nodes |-> 1, xattrs |-> 1, lost |-> 0]}

NoValues == << >>
NoXattrs == {[nodes |-> 2, xattrs |-> 0, lost |-> 0]}
=============================================================================
