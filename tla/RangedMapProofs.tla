---------------------------- MODULE RangedMapProofs ----------------------------
(***************************************************************************)
(* What the walks of RangedMap over the ordered map find, when the map     *)
(* holds disjoint ranges: exactly the entries that meet the given range.   *)
(***************************************************************************)
EXTENDS RangedMap, WellFoundedInduction, TLAPS

\* The entries range over naturals.
Ranges(map) == \A e \in map : e.lo \in Nat /\ e.hi \in Nat

\* Entry e has an address in common with lo .. hi.
Meets(e, lo, hi) == e.lo <= hi /\ lo <= e.hi

\* A set of naturals that is not empty has a least element: induction, put as a fact about a set.
LEMMA LeastNatural ==
  ASSUME NEW T, T \subseteq Nat, T # {}
  PROVE  \E x \in T : \A y \in T : x <= y
<1> DEFINE R == OpToRel(<, Nat)
<1>1. IsWellFoundedOn(R, Nat)
  BY NatLessThanWellFounded
<1>2. PICK x \in T : \A y \in T : <<y, x>> \notin R
  <2> HIDE DEF R
  <2>1. QED
    BY <1>1, WFMin
<1>3. \A y \in T : ~(y < x)
  BY <1>2 DEF OpToRel
<1>4. QED
  BY <1>3

\* EmplaceDisjoint looks at the nearest entry on either side only; that is enough.
LEMMA NoClash ==
  ASSUME NEW map, Disjoint(map), Ranges(map), NEW lo \in Nat, NEW hi \in Nat,
         Clashes(map, lo, hi) = {}
  PROVE  \A e \in map : ~Meets(e, lo, hi)
<1> SUFFICES ASSUME NEW e \in map, Meets(e, lo, hi) PROVE FALSE
  OBVIOUS
<1>1. ClashRight(map, lo, hi) = {} /\ ClashLeft(map, lo) = {}
  BY DEF Clashes
<1>2. \A f \in map : f.lo \in Nat /\ f.hi \in Nat /\ f.lo <= f.hi
  BY DEF Ranges, Disjoint
<1>3. CASE e.lo > lo
  <2> DEFINE T == {f.lo : f \in Above(map, lo)}
  <2>1. e \in Above(map, lo) /\ Above(map, lo) \subseteq map
    BY <1>3 DEF Above
  <2>2. T \subseteq Nat /\ e.lo \in T
    BY <1>2, <2>1
  <2>3. PICK low \in T : (\A y \in T : low <= y) /\ low <= e.lo
    <3> HIDE DEF T
    <3>1. QED
      BY <2>2, LeastNatural
  <2>4. PICK f \in Above(map, lo) : f.lo = low
    BY <2>3
  <2>5. f.lo <= hi
    BY <1>2, <2>1, <2>3, <2>4 DEF Meets
  <2>6. \A g \in Above(map, lo) : f.lo <= g.lo
    BY <2>3, <2>4
  <2>7. f \in ClashRight(map, lo, hi)
    BY <2>4, <2>5, <2>6 DEF ClashRight
  <2>8. QED
    BY <1>1, <2>7
<1>4. CASE ~(e.lo > lo)
  <2>1. e \in map \ Above(map, lo) /\ lo <= e.hi /\ e.lo <= lo
    BY <1>2, <1>4 DEF Above, Meets
  <2>2. ASSUME NEW f \in map \ Above(map, lo) PROVE f.lo <= e.lo
    <3>1. f.lo <= lo
      BY <1>2, <2>2 DEF Above
    <3>2. e = f \/ e.hi < f.lo \/ f.hi < e.lo
      BY DEF Disjoint
    <3>3. QED
      BY <1>2, <2>1, <3>1, <3>2
  <2>3. e \in ClashLeft(map, lo)
    BY <2>1, <2>2 DEF ClashLeft
  <2>4. QED
    BY <1>1, <2>3
<1>5. QED
  BY <1>3, <1>4

\* An entry is added only where no other one is.
LEMMA EmplaceDisjointKeeps ==
  ASSUME NEW map, Disjoint(map), Ranges(map),
         NEW new, new.lo \in Nat, new.hi \in Nat, new.lo <= new.hi,
         Clashes(map, new.lo, new.hi) = {}
  PROVE  /\ EmplaceDisjoint(map, new) = map \cup {new}
         /\ Disjoint(map \cup {new})
<1>1. \A e \in map : ~Meets(e, new.lo, new.hi)
  BY NoClash
<1>2. \A e \in map : e.lo \in Nat /\ e.hi \in Nat /\ e.lo <= e.hi
  BY DEF Ranges, Disjoint
<1>3. \A e \in map : e.hi < new.lo \/ new.hi < e.lo
  BY <1>1, <1>2 DEF Meets
<1>4. \A e \in map : e.lo # new.lo
  BY <1>2, <1>3
<1>5. EmplaceDisjoint(map, new) = map \cup {new}
  BY <1>4 DEF EmplaceDisjoint, Insert
<1>6. Disjoint(map \cup {new})
  <2> SUFFICES ASSUME NEW e \in map \cup {new}, NEW f \in map \cup {new}
               PROVE  e.lo <= e.hi /\ (e = f \/ e.hi < f.lo \/ f.hi < e.lo)
    BY DEF Disjoint
  <2>1. e.lo <= e.hi
    BY <1>2
  <2>2. CASE e \in map /\ f \in map
    BY <2>1, <2>2 DEF Disjoint
  <2>3. CASE e = new \/ f = new
    BY <1>3, <2>1, <2>3
  <2>4. QED
    BY <2>2, <2>3
<1>7. QED
  BY <1>5, <1>6

\* find looks at one entry only; it is the one that holds the address, if there is one.
LEMMA FindIsHolder ==
  ASSUME NEW map, Disjoint(map), Ranges(map), NEW addr \in Nat
  PROVE  Find(map, addr) = {e \in map : e.lo <= addr /\ addr <= e.hi}
<1>1. \A e \in map : e.lo \in Nat /\ e.hi \in Nat /\ e.lo <= e.hi
  BY DEF Ranges, Disjoint
<1>2. ASSUME NEW e \in map, e.lo <= addr, addr <= e.hi, NEW f \in map, f.lo <= addr
      PROVE  f.lo <= e.lo
  <2>1. e = f \/ e.hi < f.lo \/ f.hi < e.lo
    BY DEF Disjoint
  <2>2. QED
    BY <1>1, <1>2, <2>1
<1>3. \A e \in map : e \notin Above(map, addr) <=> e.lo <= addr
  BY <1>1 DEF Above
<1>4. QED
  BY <1>2, <1>3 DEF Find, Above

\* The loops of Emplace stop at the first entry that does not touch the range, on either side.
LEMMA HitsMeet ==
  ASSUME NEW map, Disjoint(map), Ranges(map), NEW lo \in Nat, NEW hi \in Nat, lo <= hi
  PROVE  Hits(map, lo, hi) = {e \in map : Meets(e, lo, hi)}
<1>1. \A e \in map : e.lo \in Nat /\ e.hi \in Nat /\ e.lo <= e.hi
  BY DEF Ranges, Disjoint
<1>2. ASSUME NEW e \in map, e.lo > lo PROVE e \in Hits(map, lo, hi) <=> Meets(e, lo, hi)
  BY <1>1, <1>2 DEF Hits, Above, Meets
<1>3. ASSUME NEW e \in map, e.lo <= lo PROVE e \in Hits(map, lo, hi) <=> Meets(e, lo, hi)
  <2>1. e \in Hits(map, lo, hi) <=> \A f \in map : e.lo <= f.lo /\ f.lo <= lo => lo <= f.hi
    BY <1>1, <1>3 DEF Hits, Above
  <2>2. ASSUME lo <= e.hi, NEW f \in map, e.lo <= f.lo, f.lo <= lo PROVE lo <= f.hi
    <3>1. e = f \/ e.hi < f.lo \/ f.hi < e.lo
      BY DEF Disjoint
    <3>2. QED
      BY <1>1, <2>2, <3>1
  <2>3. QED
    BY <1>1, <1>3, <2>1, <2>2 DEF Meets
<1>4. Hits(map, lo, hi) \subseteq map
  BY DEF Hits, Above
<1>5. QED
  BY <1>1, <1>2, <1>3, <1>4
=============================================================================
