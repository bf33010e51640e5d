----------------------------- MODULE OrderedSet -----------------------------
(***************************************************************************)
(* The bounded queue without duplicates of common/ordered_set.{h,cc}, as   *)
(* operators on its value.  The unordered_set `data` and the queue of      *)
(* iterators into it hold the same strings, so one sequence stands for     *)
(* both: oldest first, none twice.                                         *)
(***************************************************************************)
EXTENDS Integers, Sequences

Members(set) == {set[k] : k \in DOMAIN set}

(* Mutant: count() is not tested in line 4.                                *)
PushedAgain(set, str, max) ==
  IF Len(set) < max THEN Append(set, str) ELSE Tail(Append(set, str))

(* push(): a new string goes to the end, and the oldest make room for it.  *)
(* One pop is enough, since no push leaves the set above its limit.        *)
Pushed(set, str, max) ==
  IF str \in Members(set) THEN set
  ELSE IF Len(set) < max THEN Append(set, str)
  ELSE Tail(Append(set, str))

(* What every push and pop keeps.                                          *)
Ordered(set, max) ==
  /\ \A j, k \in DOMAIN set : set[j] = set[k] => j = k
  /\ Len(set) <= max
=============================================================================
