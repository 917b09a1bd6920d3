------------------------------ MODULE RangedMap ------------------------------
(***************************************************************************)
(* The C++ class template RangedMap: a std::map of address ranges, ordered *)
(* by their low end, with a value each.  A map is a set of entries; the    *)
(* iterator walks of the code become the sets of entries they stop at.     *)
(***************************************************************************)
EXTENDS Naturals, Sequences, SequencesExt

Entry(lo, hi, val) == [lo |-> lo, hi |-> hi, val |-> val]

\* No two entries have an address in common, and none is empty.
Disjoint(map) == /\ \A e \in map : e.lo <= e.hi
                 /\ \A e, f \in map : e = f \/ e.hi < f.lo \/ f.hi < e.lo

\* std::map::insert: a key that is already there keeps its value.
Insert(map, e) == IF \E f \in map : f.lo = e.lo THEN map ELSE map \cup {e}

\* upper_bound: the entries at and after the first that starts above lo.
Above(map, lo) == {e \in map : e.lo > lo}

\* The entries between hit_lo and hit_hi: those above lo that start no later
\* than hi, and, walking down from lo, those that reach up to it.
Hits(map, lo, hi) ==
  {e \in Above(map, lo) : e.lo <= hi} \cup
  {e \in map \ Above(map, lo) :
     \A f \in map : e.lo <= f.lo /\ f.lo <= lo => lo <= f.hi}

\* The entry EmplaceDisjoint stops at: the nearest above lo if it starts no
\* later than hi, otherwise the nearest at or below lo if it reaches up to lo.
ClashRight(map, lo, hi) ==
  {e \in Above(map, lo) : e.lo <= hi /\ \A f \in Above(map, lo) : e.lo <= f.lo}

\* Mutant: the high end is taken for an exclusive bound.
ClashLeftExclusive(map, lo) ==
  {e \in map \ Above(map, lo) :
     lo < e.hi /\ \A f \in map \ Above(map, lo) : f.lo <= e.lo}

ClashLeft(map, lo) ==
  {e \in map \ Above(map, lo) :
     lo <= e.hi /\ \A f \in map \ Above(map, lo) : f.lo <= e.lo}

Clashes(map, lo, hi) == IF ClashRight(map, lo, hi) # {}
                        THEN ClashRight(map, lo, hi) ELSE ClashLeft(map, lo)

EmplaceDisjoint(map, new) ==
  IF Clashes(map, new.lo, new.hi) = {} THEN Insert(map, new) ELSE map

\* find: the last entry that starts at or below addr, if it reaches it.
Find(map, addr) ==
  {e \in map \ Above(map, addr) :
     addr <= e.hi /\ \A f \in map \ Above(map, addr) : f.lo <= e.lo}
=============================================================================
