----------------------------- MODULE FindEntity -----------------------------
(***************************************************************************)
(* MetaFileSystem::find_entity, meta/meta_file_system.cc lines 176-196:    *)
(* the search for a name among the sorted entries of a directory, or the   *)
(* sorted extended attributes of a node.  Names are numbers in the order   *)
(* of strcmp.                                                              *)
(***************************************************************************)
EXTENDS Integers, Sequences

VARIABLES
  ents,     \* ents, ents_size: a sequence of records with a name and an offset
  sought,   \* name
  a, b,     \* a, b
  found     \* the offset that is returned, 0 if there is none, or Pending

search == <<ents, sought, a, b, found>>

Pending == -1
----------------------------------------------------------------------------
SearchInit ==
  /\ ents = << >>
  /\ sought = 0
  /\ a = 0
  /\ b = 0
  /\ found = 0

(* It is called.                                                           *)
Search(table, name) ==
  /\ ents' = table
  /\ sought' = name
  /\ a' = 0
  /\ b' = Len(table) - 1
  /\ found' = IF table = << >> THEN 0 ELSE Pending

(* A turn of the loop; a and b are signed.                                 *)
Probe ==
  LET m == (a + b) \div 2
      x == ents[m + 1].name
  IN  /\ found = Pending
      /\ a < b
      /\ found' = IF x = sought THEN ents[m + 1].data_offset ELSE Pending
      /\ \/ x = sought /\ UNCHANGED <<a, b>>
         \/ x < sought /\ a' = m + 1 /\ UNCHANGED b
         \/ x > sought /\ b' = m - 1 /\ UNCHANGED a
      /\ UNCHANGED <<ents, sought>>

(* Lines 192-195.                                                          *)
(* Mutant: the entry that is left when the loop ends is not looked at.     *)
ProbeLastUnseen ==
  /\ found = Pending
  /\ a >= b
  /\ found' = 0
  /\ UNCHANGED <<ents, sought, a, b>>

ProbeLast ==
  /\ found = Pending
  /\ a >= b
  /\ found' = IF ents[a + 1].name = sought THEN ents[a + 1].data_offset ELSE 0
  /\ UNCHANGED <<ents, sought, a, b>>
----------------------------------------------------------------------------
Sorted(table) ==
  \A j, k \in DOMAIN table : j < k => table[j].name < table[k].name

(* Among sorted entries the search finds the one with the name, and        *)
(* nothing only if there is none, also when b runs below a, or below 0.    *)
SearchRight ==
  Sorted(ents) /\ found # Pending =>
    IF \E k \in DOMAIN ents : ents[k].name = sought
    THEN \E k \in DOMAIN ents : ents[k].name = sought /\ ents[k].data_offset = found
    ELSE found = 0

(* It reads no entry behind the last, or before the first.                 *)
ProbesInside == found = Pending => a + 1 \in DOMAIN ents /\ b < Len(ents)
=============================================================================
