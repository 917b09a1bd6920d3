----------------------------- MODULE MemUtilProofs -----------------------------
(***************************************************************************)
(* Proofs about the loader.                                                *)
(***************************************************************************)
EXTENDS MemUtil, RangedMapProofs, SequenceTheorems, FiniteSetTheorems, TLAPS

\* An entry of a staging area with the bytes of its range.
Segment(e) == /\ e \in [lo : 0 .. Lim - 1, hi : 0 .. Lim - 1, val : Seq(Byte)]
              /\ e.lo <= e.hi /\ Len(e.val) = e.hi - e.lo + 1

Holds(e, a) == e.lo <= a /\ a <= e.hi

At(e, a) == e.val[a - e.lo + 1]

-----------------------------------------------------------------------------
(* Merging: the newer bytes over the older ones. *)

\* A function on 1 .. n is a sequence.
LEMMA FunctionIsSequence ==
  ASSUME NEW S, NEW n \in Nat, NEW f \in [1 .. n -> S]
  PROVE  f \in Seq(S) /\ Len(f) = n
<1>1. f \in Seq(S)
  BY SeqDef
<1>2. DOMAIN f = 1 .. Len(f) /\ Len(f) \in Nat
  BY <1>1, LenProperties
<1>3. QED
  BY <1>1, <1>2

\* The two forms of the result of MergeSegments, for an older segment s0 at l0 .. h0 and a newer
\* one s1 at l1 .. h1.
RightMerge(l0, h0, s0, l1, h1, s1) == s1 \o SubSeq(s0, 1 + (h1 - l0) + 1, 1 + (h1 - l0) + (h0 - h1))

LeftMerge(l0, s0, l1, s1, top) ==
  [k \in 1 .. top - l0 + 1 |->
     IF l1 - l0 < k /\ k <= l1 - l0 + Len(s1) THEN s1[k - (l1 - l0)]
     ELSE IF k <= Len(s0) THEN s0[k] ELSE Zero]

\* v, at low .. top, is the newer segment laid over the older one.
Overlay(v, low, top, l0, s0, l1, h1, s1) ==
  /\ v \in Seq(Byte) /\ Len(v) = top - low + 1
  /\ \A a \in low .. top :
       v[a - low + 1] = IF l1 <= a /\ a <= h1 THEN s1[a - l1 + 1] ELSE s0[a - l0 + 1]

\* The older segment s0 sticks out of the newer one on the right.
LEMMA MergeRight ==
  ASSUME NEW l0 \in Nat, NEW h0 \in Nat, NEW l1 \in Nat, NEW h1 \in Nat,
         l0 <= h0, l1 <= h1, l1 <= l0, l0 <= h1, h1 < h0,
         NEW s0 \in Seq(Byte), NEW s1 \in Seq(Byte),
         Len(s0) = h0 - l0 + 1, Len(s1) = h1 - l1 + 1
  PROVE  Overlay(RightMerge(l0, h0, s0, l1, h1, s1), l1, h0, l0, s0, l1, h1, s1)
<1> DEFINE srcOff == 1 + (h1 - l0)
           n == h0 - h1
           tail == SubSeq(s0, srcOff + 1, srcOff + n)
           v == s1 \o tail
<1>1. /\ srcOff \in Nat /\ n \in Nat \ {0}
      /\ srcOff + n = Len(s0)
  OBVIOUS
<1>2. \A k \in 1 .. Len(s0) : s0[k] \in Byte
  BY ElementOfSeq
<1>4. /\ tail \in Seq(Byte) /\ Len(tail) = n
      /\ \A k \in 1 .. n : tail[k] = s0[srcOff + k]
  <2> HIDE DEF srcOff, n
  <2>1. \A k \in srcOff + 1 .. srcOff + n : s0[k] \in Byte
    BY <1>1, <1>2
  <2>2. srcOff + 1 \in Int /\ srcOff + n \in Int
    BY <1>1
  <2>3. /\ tail \in Seq(Byte)
        /\ Len(tail) = IF srcOff + 1 <= srcOff + n THEN (srcOff + n) - (srcOff + 1) + 1 ELSE 0
        /\ \A k \in 1 .. (srcOff + n) - (srcOff + 1) + 1 : tail[k] = s0[srcOff + 1 + k - 1]
    BY <2>1, <2>2, SubSeqProperties
  <2>4. Len(tail) = n
    BY <1>1, <2>3
  <2>5. ASSUME NEW k \in 1 .. n PROVE tail[k] = s0[srcOff + k]
    <3>1. k \in 1 .. (srcOff + n) - (srcOff + 1) + 1 /\ srcOff + 1 + k - 1 = srcOff + k
      BY <1>1
    <3>2. QED
      BY <2>3, <3>1
  <2>6. QED
    BY <2>3, <2>4, <2>5
<1> HIDE DEF tail
<1>5. /\ v \in Seq(Byte) /\ Len(v) = Len(s1) + n
      /\ \A k \in 1 .. Len(s1) + n : v[k] = IF k <= Len(s1) THEN s1[k] ELSE tail[k - Len(s1)]
  <2> HIDE DEF n, srcOff
  <2>1. QED
    BY <1>4, ConcatProperties
<1> HIDE DEF v
<1>6. Len(v) = h0 - l1 + 1
  BY <1>5
<1>7. ASSUME NEW a \in l1 .. h0, a <= h1 PROVE v[a - l1 + 1] = s1[a - l1 + 1]
  <2>1. a - l1 + 1 \in 1 .. Len(s1) + n /\ a - l1 + 1 <= Len(s1)
    BY <1>7
  <2>2. QED
    BY <1>5, <2>1
<1>8. ASSUME NEW a \in l1 .. h0, ~(a <= h1) PROVE v[a - l1 + 1] = s0[a - l0 + 1]
  <2>1. a - l1 + 1 \in 1 .. Len(s1) + n /\ ~(a - l1 + 1 <= Len(s1))
    BY <1>8
  <2>2. a - l1 + 1 - Len(s1) \in 1 .. n /\ srcOff + (a - l1 + 1 - Len(s1)) = a - l0 + 1
    BY <1>8
  <2>3. v[a - l1 + 1] = tail[a - l1 + 1 - Len(s1)]
    BY <1>5, <2>1
  <2>4. QED
    BY <1>4, <2>2, <2>3
<1>9. QED
  <2>1. ASSUME NEW a \in l1 .. h0
        PROVE  v[a - l1 + 1] = IF l1 <= a /\ a <= h1 THEN s1[a - l1 + 1] ELSE s0[a - l0 + 1]
    <3>1. l1 <= a
      OBVIOUS
    <3>2. QED
      BY <1>7, <1>8, <3>1
  <2>2. Overlay(v, l1, h0, l0, s0, l1, h1, s1)
    BY <1>5, <1>6, <2>1 DEF Overlay
  <2>3. QED
    BY <2>2 DEF v, tail, RightMerge

\* The older segment s0 sticks out on the left, and perhaps on the right, too.
LEMMA MergeLeft ==
  ASSUME NEW l0 \in Nat, NEW h0 \in Nat, NEW l1 \in Nat, NEW h1 \in Nat, NEW top \in Nat,
         l0 <= h0, l1 <= h1, l0 < l1, l1 <= h0, h0 <= top, h1 <= top, top = h0 \/ top = h1,
         NEW s0 \in Seq(Byte), NEW s1 \in Seq(Byte),
         Len(s0) = h0 - l0 + 1, Len(s1) = h1 - l1 + 1
  PROVE  Overlay(LeftMerge(l0, s0, l1, s1, top), l0, top, l0, s0, l1, h1, s1)
<1> DEFINE n == top - l0 + 1
           off == l1 - l0
           v == [k \in 1 .. n |-> IF off < k /\ k <= off + Len(s1) THEN s1[k - off]
                                  ELSE IF k <= Len(s0) THEN s0[k] ELSE Zero]
<1>1. n \in Nat /\ off \in Nat
  OBVIOUS
<1>2. \A k \in 1 .. n : v[k] = IF off < k /\ k <= off + Len(s1) THEN s1[k - off]
                               ELSE IF k <= Len(s0) THEN s0[k] ELSE Zero
  OBVIOUS
<1>3. \A k \in 1 .. n : v[k] \in Byte
  <2>1. \A k \in 1 .. Len(s1) : s1[k] \in Byte
    BY ElementOfSeq
  <2>2. \A k \in 1 .. Len(s0) : s0[k] \in Byte
    BY ElementOfSeq
  <2>3. ASSUME NEW k \in 1 .. n, off < k, k <= off + Len(s1) PROVE k - off \in 1 .. Len(s1)
    BY <2>3
  <2>4. Zero \in Byte
    BY DEF Byte
  <2>5. QED
    BY <1>2, <2>1, <2>2, <2>3, <2>4
<1>4. v \in [1 .. n -> Byte]
  BY <1>3
<1> HIDE DEF v
<1>5. v \in Seq(Byte) /\ Len(v) = n
  <2> HIDE DEF n
  <2>1. QED
    BY <1>1, <1>4, FunctionIsSequence
<1>6. ASSUME NEW a \in l0 .. top, l1 <= a /\ a <= h1 PROVE v[a - l0 + 1] = s1[a - l1 + 1]
  <2>1. /\ a - l0 + 1 \in 1 .. n /\ off < a - l0 + 1 /\ a - l0 + 1 <= off + Len(s1)
        /\ a - l0 + 1 - off = a - l1 + 1
    BY <1>6
  <2>2. QED
    BY <1>2, <2>1
<1>7. ASSUME NEW a \in l0 .. top, ~(l1 <= a /\ a <= h1) PROVE v[a - l0 + 1] = s0[a - l0 + 1]
  <2>1. /\ a - l0 + 1 \in 1 .. n /\ ~(off < a - l0 + 1 /\ a - l0 + 1 <= off + Len(s1))
        /\ a - l0 + 1 <= Len(s0)
    BY <1>7
  <2>2. QED
    BY <1>2, <2>1
<1>8. QED
  <2>1. Overlay(v, l0, top, l0, s0, l1, h1, s1)
    BY <1>5, <1>6, <1>7 DEF Overlay
  <2>2. QED
    BY <2>1 DEF v, LeftMerge

\* One iteration of the merge loop.
LEMMA MergeOne ==
  ASSUME NEW e, NEW acc, Segment(e), Segment(acc), Meets(e, acc.lo, acc.hi),
         NEW m, m = MergeInto(acc, e)
  PROVE  /\ Segment(m) /\ (m.lo = acc.lo \/ m.lo = e.lo)
         /\ m.lo <= acc.lo /\ m.lo <= e.lo /\ acc.hi <= m.hi /\ e.hi <= m.hi
         /\ \A a \in m.lo .. m.hi :
              /\ Holds(acc, a) \/ Holds(e, a)
              /\ At(m, a) = IF Holds(acc, a) THEN At(acc, a) ELSE At(e, a)
<1>1. PICK l0 \in Nat, h0 \in Nat, s0 \in Seq(Byte) :
        /\ l0 = e.lo /\ h0 = e.hi /\ s0 = e.val
        /\ l0 <= h0 /\ h0 < Lim /\ Len(s0) = h0 - l0 + 1
  BY BoundsAssumption DEF Segment
<1>2. PICK l1 \in Nat, h1 \in Nat, s1 \in Seq(Byte) :
        /\ l1 = acc.lo /\ h1 = acc.hi /\ s1 = acc.val
        /\ l1 <= h1 /\ h1 < Lim /\ Len(s1) = h1 - l1 + 1
  BY BoundsAssumption DEF Segment
<1>3. l0 <= h1 /\ l1 <= h0
  BY <1>1, <1>2 DEF Meets
<1> DEFINE v == MergeSegments(e, acc)
           low == IF l1 <= l0 THEN l1 ELSE l0
           top == IF h1 >= h0 THEN h1 ELSE h0
<1>4. m = [lo |-> low, hi |-> top, val |-> v]
  BY <1>1, <1>2 DEF MergeInto, Entry
<1>5. /\ e.lo = l0 /\ e.hi = h0 /\ e.val = s0
      /\ acc.lo = l1 /\ acc.hi = h1 /\ acc.val = s1
  BY <1>1, <1>2
<1> HIDE DEF v, low, top
<1>6. Overlay(v, low, top, l0, s0, l1, h1, s1)
  <2>1. CASE l1 <= l0 /\ h0 <= h1
    <3>1. v = s1
      BY <1>5, <2>1 DEF v, MergeSegments
    <3>2. low = l1 /\ top = h1
      BY <2>1 DEF low, top
    <3>3. QED
      BY <1>2, <3>1, <3>2 DEF Overlay
  <2>2. CASE l1 <= l0 /\ h1 < h0
    <3>1. ~(h0 <= h1)
      BY <2>2
    <3>2. v = RightMerge(l0, h0, s0, l1, h1, s1)
      BY <1>5, <2>2, <3>1 DEF v, MergeSegments, RightMerge
    <3>3. low = l1 /\ top = h0
      BY <2>2 DEF low, top
    <3>4. Overlay(v, l1, h0, l0, s0, l1, h1, s1)
      <4>1. /\ l0 \in Nat /\ h0 \in Nat /\ l1 \in Nat /\ h1 \in Nat /\ l0 <= h0 /\ l1 <= h1
            /\ s0 \in Seq(Byte) /\ Len(s0) = h0 - l0 + 1
            /\ s1 \in Seq(Byte) /\ Len(s1) = h1 - l1 + 1
        BY <1>1, <1>2
      <4>2. QED
        BY <1>3, <2>2, <3>2, <4>1, MergeRight
    <3>5. QED
      BY <3>3, <3>4
  <2>3. CASE l0 < l1
    <3>1. low = l0 /\ top \in Nat /\ h0 <= top /\ h1 <= top /\ (top = h0 \/ top = h1)
      BY <2>3 DEF low, top
    <3>2. v = LeftMerge(l0, s0, l1, s1, top)
      <4>1. ~(l1 <= l0)
        BY <2>3
      <4>2. 1 + (IF h0 >= h1 THEN h0 - l0 ELSE h1 - l0) = top - l0 + 1
        BY <2>3 DEF top
      <4>3. v = [k \in 1 .. 1 + (IF h0 >= h1 THEN h0 - l0 ELSE h1 - l0) |->
                   IF l1 - l0 < k /\ k <= l1 - l0 + Len(s1) THEN s1[k - (l1 - l0)]
                   ELSE IF k <= Len(s0) THEN s0[k] ELSE Zero]
        BY <1>5, <4>1 DEF v, MergeSegments
      <4>4. QED
        BY <4>2, <4>3 DEF LeftMerge
    <3>4. Overlay(v, l0, top, l0, s0, l1, h1, s1)
      <4>1. /\ l0 \in Nat /\ h0 \in Nat /\ l1 \in Nat /\ h1 \in Nat /\ l0 <= h0 /\ l1 <= h1
            /\ s0 \in Seq(Byte) /\ Len(s0) = h0 - l0 + 1
            /\ s1 \in Seq(Byte) /\ Len(s1) = h1 - l1 + 1
        BY <1>1, <1>2
      <4>2. QED
        BY <1>3, <2>3, <3>1, <3>2, <4>1, MergeLeft
    <3>5. QED
      BY <3>1, <3>4
  <2>4. QED
    BY <2>1, <2>2, <2>3
<1>7. /\ low \in Nat /\ top \in Nat /\ low <= l0 /\ low <= l1 /\ h0 <= top /\ h1 <= top
      /\ low <= top /\ top < Lim
      /\ \A a \in low .. top : (l1 <= a /\ a <= h1) \/ (l0 <= a /\ a <= h0)
  BY <1>1, <1>2, <1>3 DEF low, top
<1>8. low \in 0 .. Lim - 1 /\ top \in 0 .. Lim - 1
  BY <1>7, BoundsAssumption
<1>9. m.lo = low /\ m.hi = top /\ m.val = v
  BY <1>4
<1>10. Segment(m)
  BY <1>4, <1>6, <1>7, <1>8, <1>9 DEF Segment, Overlay
<1>11. ASSUME NEW a \in m.lo .. m.hi
      PROVE  /\ Holds(acc, a) \/ Holds(e, a)
             /\ At(m, a) = IF Holds(acc, a) THEN At(acc, a) ELSE At(e, a)
  <2>1. a \in low .. top
    BY <1>9
  <2>2. QED
    BY <1>5, <1>6, <1>7, <1>9, <2>1 DEF Holds, At, Overlay
<1>12. m.lo = acc.lo \/ m.lo = e.lo
  BY <1>5, <1>9 DEF low
<1>13. QED
  BY <1>5, <1>7, <1>9, <1>10, <1>11, <1>12

\* The step of the merge loop for the address n - 1.
MergeAt(hits, n, acc) == IF \E e \in hits : e.lo = n - 1
                         THEN MergeInto(acc, CHOOSE e \in hits : e.lo = n - 1) ELSE acc

\* The loop is well defined.
LEMMA MergeHitsIsDefined ==
  ASSUME NEW hits, NEW new
  PROVE  LET acc == MergeHits(hits, new)
         IN  acc[0] = new /\ \A n \in 1 .. Lim : acc[n] = MergeAt(hits, n, acc[n - 1])
<1> DEFINE Rec(f, m) == f = [n \in 0 .. m |-> IF n = 0 THEN new ELSE MergeAt(hits, n, f[n - 1])]
           T == {m \in Nat : ~\E f : Rec(f, m)}
<1>1. T = {}
  <2> SUFFICES ASSUME T # {} PROVE FALSE
    OBVIOUS
  <2>1. PICK m \in T : \A k \in T : m <= k
    <3>1. T \subseteq Nat
      OBVIOUS
    <3> HIDE DEF T
    <3>2. QED
      BY <3>1, LeastNatural
  <2>2. m \in Nat /\ ~\E f : Rec(f, m)
    BY <2>1
  <2>3. CASE m = 0
    <3>1. Rec([n \in 0 .. 0 |-> new], 0)
      OBVIOUS
    <3>2. QED
      BY <2>2, <2>3, <3>1
  <2>4. CASE m # 0
    <3>1. m - 1 \in Nat /\ m - 1 \notin T
      <4>1. m - 1 \in Nat /\ ~(m <= m - 1)
        BY <2>2, <2>4
      <4> HIDE DEF T
      <4>2. QED
        BY <2>1, <4>1
    <3>2. PICK f : Rec(f, m - 1)
      BY <3>1
    <3> DEFINE g == [n \in 0 .. m |-> IF n = m THEN MergeAt(hits, m, f[m - 1]) ELSE f[n]]
               h == [n \in 0 .. m |-> IF n = 0 THEN new ELSE MergeAt(hits, n, g[n - 1])]
    <3>3. \A n \in 0 .. m - 1 : f[n] = IF n = 0 THEN new ELSE MergeAt(hits, n, f[n - 1])
      BY <3>2
    <3>4. ASSUME NEW n \in 0 .. m PROVE g[n] = h[n]
      <4>1. CASE n = 0
        BY <2>2, <2>4, <3>1, <3>3, <4>1
      <4>2. CASE n # 0
        <5>1. n - 1 \in 0 .. m - 1 /\ n - 1 # m
          BY <2>2, <4>2
        <5>2. g[n - 1] = f[n - 1]
          BY <2>2, <5>1
        <5>3. h[n] = MergeAt(hits, n, f[n - 1])
          BY <4>2, <5>2
        <5>4. n = m \/ n \in 0 .. m - 1
          BY <2>2
        <5>5. QED
          BY <3>3, <4>2, <5>3, <5>4
      <4>3. QED
        BY <4>1, <4>2
    <3>5. g = h
      BY <3>4
    <3>6. Rec(g, m)
      BY <3>5
    <3>7. QED
      BY <2>2, <3>6
  <2>5. QED
    BY <2>3, <2>4
<1>2. \E f : Rec(f, Lim)
  BY <1>1, BoundsAssumption
<1>3. Rec(MergeHits(hits, new), Lim)
  BY <1>2 DEF MergeHits, MergeAt
<1>4. QED
  BY <1>3, BoundsAssumption

\* A merged segment starts where the new one does or where an older one did.
Starts(lo, new, segs) == lo = new \/ \E e \in segs : lo = e.lo

\* The loop after the hits that start below n: the new bytes, and around them those of the hits.
Merged(hits, new, n, m) ==
  /\ Segment(m) /\ m.lo <= new.lo /\ new.hi <= m.hi /\ Starts(m.lo, new.lo, hits)
  /\ \A e \in hits : e.lo < n => m.lo <= e.lo /\ e.hi <= m.hi
  /\ \A a \in m.lo .. m.hi :
       IF Holds(new, a) THEN At(m, a) = At(new, a)
       ELSE \E e \in hits : e.lo < n /\ Holds(e, a) /\ At(m, a) = At(e, a)

LEMMA SegmentFacts ==
  ASSUME NEW e, Segment(e)
  PROVE  /\ e.lo \in Nat /\ e.hi \in Nat /\ e.lo < Lim /\ e.hi < Lim /\ e.lo <= e.hi
         /\ e.val \in Seq(Byte) /\ Len(e.val) = e.hi - e.lo + 1
BY BoundsAssumption DEF Segment

LEMMA MergeStep ==
  ASSUME NEW hits, \A e \in hits : Segment(e), Disjoint(hits), NEW new, Segment(new),
         \A e \in hits : Meets(e, new.lo, new.hi),
         NEW n \in Nat \ {0}, NEW acc, Merged(hits, new, n - 1, acc)
  PROVE  Merged(hits, new, n, MergeAt(hits, n, acc))
<1>1. /\ Segment(acc) /\ acc.lo <= new.lo /\ new.hi <= acc.hi /\ Starts(acc.lo, new.lo, hits)
      /\ \A e \in hits : e.lo < n - 1 => acc.lo <= e.lo /\ e.hi <= acc.hi
      /\ \A a \in acc.lo .. acc.hi : Holds(new, a) => At(acc, a) = At(new, a)
      /\ \A a \in acc.lo .. acc.hi : ~Holds(new, a) =>
           \E e \in hits : e.lo < n - 1 /\ Holds(e, a) /\ At(acc, a) = At(e, a)
  BY DEF Merged
<1>2. \A e \in hits : e.lo \in Nat /\ e.hi \in Nat /\ e.lo <= e.hi
  BY SegmentFacts
<1>3. new.lo \in Nat /\ new.hi \in Nat /\ acc.lo \in Nat /\ acc.hi \in Nat
  BY <1>1, SegmentFacts
<1>4. CASE ~\E e \in hits : e.lo = n - 1
  <2>1. MergeAt(hits, n, acc) = acc
    BY <1>4 DEF MergeAt
  <2>2. \A e \in hits : e.lo < n <=> e.lo < n - 1
    BY <1>2, <1>4
  <2>3. QED
    BY <1>1, <2>1, <2>2 DEF Merged
<1>5. CASE \E e \in hits : e.lo = n - 1
  <2> DEFINE e == CHOOSE e \in hits : e.lo = n - 1
             m == MergeAt(hits, n, acc)
  <2>1. e \in hits /\ e.lo = n - 1
    BY <1>5
  <2>2. m = MergeInto(acc, e)
    BY <1>5 DEF MergeAt
  <2> HIDE DEF e, m
  <2>3. Segment(e) /\ e.hi \in Nat /\ e.lo \in Nat /\ e.lo <= e.hi
    BY <1>2, <2>1
  <2>4. Meets(e, acc.lo, acc.hi)
    <3>1. Meets(e, new.lo, new.hi)
      BY <2>1
    <3>2. QED
      BY <1>1, <1>3, <2>3, <3>1 DEF Meets
  <2>5. /\ Segment(m) /\ (m.lo = acc.lo \/ m.lo = e.lo)
        /\ m.lo <= acc.lo /\ m.lo <= e.lo /\ acc.hi <= m.hi /\ e.hi <= m.hi
        /\ \A a \in m.lo .. m.hi :
             /\ Holds(acc, a) \/ Holds(e, a)
             /\ At(m, a) = IF Holds(acc, a) THEN At(acc, a) ELSE At(e, a)
    BY <1>1, <2>2, <2>3, <2>4, MergeOne
  <2>6. m.lo \in Nat /\ m.hi \in Nat
    BY <2>5, SegmentFacts
  <2>7. m.lo <= new.lo /\ new.hi <= m.hi
    BY <1>1, <1>3, <2>5, <2>6
  <2>8. ASSUME NEW f \in hits, f.lo < n PROVE m.lo <= f.lo /\ f.hi <= m.hi
    <3>1. CASE f.lo < n - 1
      <4>1. acc.lo <= f.lo /\ f.hi <= acc.hi
        BY <1>1, <3>1
      <4>2. QED
        BY <1>2, <1>3, <2>5, <2>6, <4>1
    <3>2. CASE ~(f.lo < n - 1)
      <4>1. f.lo = e.lo
        BY <1>2, <2>1, <2>8, <3>2
      <4>2. f = e
        <5>1. f = e \/ f.hi < e.lo \/ e.hi < f.lo
          BY <2>1 DEF Disjoint
        <5>2. QED
          BY <1>2, <2>3, <4>1, <5>1
      <4>3. QED
        BY <2>5, <4>2
    <3>3. QED
      BY <3>1, <3>2
  <2>9. ASSUME NEW a \in m.lo .. m.hi
        PROVE  IF Holds(new, a) THEN At(m, a) = At(new, a)
               ELSE \E f \in hits : f.lo < n /\ Holds(f, a) /\ At(m, a) = At(f, a)
    <3>0. a \in Nat
      BY <2>6
    <3>1. CASE Holds(new, a)
      <4>1. Holds(acc, a) /\ a \in acc.lo .. acc.hi
        BY <1>1, <1>3, <3>0, <3>1 DEF Holds
      <4>2. At(m, a) = At(acc, a) /\ At(acc, a) = At(new, a)
        BY <1>1, <2>5, <3>1, <4>1
      <4>3. QED
        BY <3>1, <4>2
    <3>2. CASE ~Holds(new, a) /\ Holds(acc, a)
      <4>1. a \in acc.lo .. acc.hi
        BY <1>3, <3>0, <3>2 DEF Holds
      <4>2. PICK f \in hits : f.lo < n - 1 /\ Holds(f, a) /\ At(acc, a) = At(f, a)
        BY <1>1, <3>2, <4>1
      <4>3. f.lo < n
        BY <1>2, <4>2
      <4>4. At(m, a) = At(f, a)
        BY <2>5, <3>2, <4>2
      <4>5. QED
        BY <3>2, <4>2, <4>3, <4>4
    <3>3. CASE ~Holds(new, a) /\ ~Holds(acc, a)
      <4>1. Holds(e, a) /\ At(m, a) = At(e, a)
        BY <2>5, <3>3
      <4>2. e.lo < n
        BY <2>1
      <4>3. QED
        BY <2>1, <3>3, <4>1, <4>2
    <3>4. QED
      BY <3>1, <3>2, <3>3
  <2>10. Starts(m.lo, new.lo, hits)
    BY <1>1, <2>1, <2>5 DEF Starts
  <2>11. Merged(hits, new, n, m)
    BY <2>5, <2>7, <2>8, <2>9, <2>10 DEF Merged
  <2>12. QED
    BY <2>11 DEF m
<1>6. QED
  BY <1>4, <1>5

LEMMA MergeLoop ==
  ASSUME NEW hits, \A e \in hits : Segment(e), Disjoint(hits), NEW new, Segment(new),
         \A e \in hits : Meets(e, new.lo, new.hi)
  PROVE  Merged(hits, new, Lim, MergeHits(hits, new)[Lim])
<1> DEFINE acc == MergeHits(hits, new)
           T == {n \in 0 .. Lim : ~Merged(hits, new, n, acc[n])}
<1>0. Lim \in Nat
  BY BoundsAssumption
<1>1. acc[0] = new /\ \A n \in 1 .. Lim : acc[n] = MergeAt(hits, n, acc[n - 1])
  BY MergeHitsIsDefined
<1> HIDE DEF acc
<1>2. Merged(hits, new, 0, acc[0])
  <2>1. \A e \in hits : ~(e.lo < 0)
    BY SegmentFacts
  <2>2. new.lo \in Nat /\ new.hi \in Nat
    BY SegmentFacts
  <2>3. \A a \in new.lo .. new.hi : Holds(new, a)
    BY <2>2 DEF Holds
  <2>4. Merged(hits, new, 0, new)
    BY <2>1, <2>2, <2>3 DEF Merged, Starts
  <2>5. QED
    BY <1>1, <2>4
<1>3. T = {}
  <2> SUFFICES ASSUME T # {} PROVE FALSE
    OBVIOUS
  <2>1. PICK n \in T : \A k \in T : n <= k
    <3>1. T \subseteq Nat
      BY <1>0
    <3> HIDE DEF T
    <3>2. QED
      BY <3>1, LeastNatural
  <2>2. n \in 0 .. Lim /\ ~Merged(hits, new, n, acc[n]) /\ n # 0
    BY <1>2, <2>1
  <2>3. n \in 1 .. Lim /\ n - 1 \in 0 .. Lim /\ ~(n <= n - 1) /\ n \in Nat \ {0}
    BY <1>0, <2>2
  <2>4. n - 1 \notin T
    <3> HIDE DEF T
    <3>1. QED
      BY <2>1, <2>3
  <2>5. Merged(hits, new, n - 1, acc[n - 1])
    BY <2>3, <2>4
  <2>6. Merged(hits, new, n, MergeAt(hits, n, acc[n - 1]))
    <3> HIDE DEF T
    <3>1. QED
      BY <2>3, <2>5, MergeStep
  <2>7. QED
    BY <1>1, <2>2, <2>3, <2>6
<1>4. QED
  BY <1>0, <1>3 DEF acc

-----------------------------------------------------------------------------
(* Emplace and AddSegment: the new bytes over the old image. *)

\* The bytes that the entries of map have at address a: one or none in a map of disjoint entries.
Bytes(map, a) == {At(e, a) : e \in {f \in map : Holds(f, a)}}

LEMMA SegmentsFacts ==
  ASSUME NEW map, Segments(map)
  PROVE  Ranges(map) /\ Disjoint(map) /\ \A e \in map : Segment(e)
<1>1. Disjoint(map) /\ \A e \in map : e.lo <= e.hi
  BY DEF Segments, Disjoint
<1>2. ASSUME NEW e \in map PROVE Segment(e)
  BY <1>1 DEF Segments, Segment
<1>3. Ranges(map)
  BY <1>2, SegmentFacts DEF Ranges
<1>4. QED
  BY <1>1, <1>2, <1>3

LEMMA SegmentsIntro ==
  ASSUME NEW map, Disjoint(map), \A e \in map : Segment(e)
  PROVE  Segments(map)
BY DEF Segments, Segment

\* At most one entry of a map holds an address.
LEMMA OneByte ==
  ASSUME NEW map, Disjoint(map), Ranges(map), NEW e \in map, NEW a \in Nat, Holds(e, a)
  PROVE  Bytes(map, a) = {At(e, a)}
<1>1. ASSUME NEW f \in map, Holds(f, a) PROVE f = e
  <2>1. f = e \/ f.hi < e.lo \/ e.hi < f.lo
    BY DEF Disjoint
  <2>2. e.lo \in Nat /\ e.hi \in Nat /\ f.lo \in Nat /\ f.hi \in Nat
    BY DEF Ranges
  <2>3. QED
    BY <1>1, <2>1, <2>2 DEF Holds
<1>2. QED
  BY <1>1 DEF Bytes

\* What Emplace has done: the hits are gone, and m is there, apart from all others.
LEMMA EmplaceMerges ==
  ASSUME NEW map, Segments(map), NEW new, Segment(new)
  PROVE  LET hits == {e \in map : Meets(e, new.lo, new.hi)}
         IN  \E m : /\ Merged(hits, new, Lim, m)
                    /\ Emplace(map, new) = (map \ hits) \cup {m}
                    /\ \A f \in map \ hits : f.hi < m.lo \/ m.hi < f.lo
<1> DEFINE hits == {e \in map : Meets(e, new.lo, new.hi)}
           m == IF hits = {} THEN new ELSE MergeHits(hits, new)[Lim]
<1>1. Ranges(map) /\ Disjoint(map) /\ \A e \in map : Segment(e)
  BY SegmentsFacts
<1>2. new.lo \in Nat /\ new.hi \in Nat /\ new.lo <= new.hi
  BY SegmentFacts
<1>3. Hits(map, new.lo, new.hi) = hits
  BY <1>1, <1>2, HitsMeet
<1>4. /\ hits \subseteq map /\ \A e \in hits : Meets(e, new.lo, new.hi)
      /\ \A f \in map \ hits : ~Meets(f, new.lo, new.hi)
  OBVIOUS
<1> HIDE DEF hits
<1>5. Merged(hits, new, Lim, m)
  <2>1. CASE hits = {}
    <3>1. \A a \in new.lo .. new.hi : Holds(new, a)
      BY <1>2 DEF Holds
    <3>2. QED
      BY <1>2, <2>1, <3>1 DEF Merged, Starts
  <2>2. CASE hits # {}
    <3>1. Disjoint(hits) /\ \A e \in hits : Segment(e)
      BY <1>1, <1>4 DEF Disjoint
    <3>2. QED
      BY <1>4, <2>2, <3>1, MergeLoop
  <2>3. QED
    BY <2>1, <2>2
<1> HIDE DEF m
<1>6. m.lo \in Nat /\ m.hi \in Nat /\ m.lo <= m.hi
  BY <1>5, SegmentFacts DEF Merged
<1>7. ASSUME NEW f \in map \ hits PROVE f.hi < m.lo \/ m.hi < f.lo
  <2> SUFFICES ASSUME ~(f.hi < m.lo \/ m.hi < f.lo) PROVE FALSE
    OBVIOUS
  <2>1. f.lo \in Nat /\ f.hi \in Nat /\ f.lo <= f.hi
    BY <1>1, <1>7, SegmentFacts
  <2>2. PICK a \in m.lo .. m.hi : Holds(f, a)
    <3>1. CASE f.lo <= m.lo
      <4>1. m.lo \in m.lo .. m.hi /\ Holds(f, m.lo)
        BY <1>6, <2>1, <3>1 DEF Holds
      <4>2. QED
        BY <4>1
    <3>2. CASE ~(f.lo <= m.lo)
      <4>1. f.lo \in m.lo .. m.hi /\ Holds(f, f.lo)
        BY <1>6, <2>1, <3>2 DEF Holds
      <4>2. QED
        BY <4>1
    <3>3. QED
      BY <3>1, <3>2
  <2>3. a \in Nat
    BY <1>6
  <2>4. ~Holds(new, a)
    <3>1. ~Meets(f, new.lo, new.hi)
      BY <1>4
    <3>2. QED
      BY <1>2, <2>1, <2>2, <2>3, <3>1 DEF Meets, Holds
  <2>5. PICK e \in hits : Holds(e, a)
    BY <1>5, <2>4 DEF Merged
  <2>6. e \in map /\ e # f
    BY <1>4, <1>7
  <2>7. e.hi < f.lo \/ f.hi < e.lo
    BY <1>1, <1>7, <2>6 DEF Disjoint
  <2>8. e.lo \in Nat /\ e.hi \in Nat
    BY <1>1, <2>6, SegmentFacts
  <2>9. QED
    BY <2>1, <2>2, <2>3, <2>5, <2>7, <2>8 DEF Holds
<1>8. Emplace(map, new) = (map \ hits) \cup {m}
  <2>1. Emplace(map, new) = Insert(map \ hits, m)
    <3>1. CASE hits = {}
      <4>1. map \ hits = map /\ m = new
        BY <3>1 DEF m
      <4>2. QED
        BY <1>3, <3>1, <4>1 DEF Emplace
    <3>2. CASE hits # {}
      BY <1>3, <3>2 DEF Emplace, m
    <3>3. QED
      BY <3>1, <3>2
  <2>2. ~\E f \in map \ hits : f.lo = m.lo
    <3> SUFFICES ASSUME NEW f \in map \ hits, f.lo = m.lo PROVE FALSE
      OBVIOUS
    <3>1. f.lo \in Nat /\ f.hi \in Nat /\ f.lo <= f.hi
      BY <1>1, SegmentFacts
    <3>2. f.hi < m.lo \/ m.hi < f.lo
      BY <1>7
    <3>3. QED
      BY <1>6, <3>1, <3>2
  <2>3. QED
    BY <2>1, <2>2 DEF Insert
<1>9. QED
  BY <1>5, <1>7, <1>8 DEF hits

LEMMA EmplaceLays ==
  ASSUME NEW map, Segments(map), NEW new, Segment(new)
  PROVE  /\ Segments(Emplace(map, new))
         /\ \A a \in Nat : Bytes(Emplace(map, new), a) =
                            IF Holds(new, a) THEN {At(new, a)} ELSE Bytes(map, a)
         /\ \A e \in Emplace(map, new) : Starts(e.lo, new.lo, map)
<1> DEFINE hits == {e \in map : Meets(e, new.lo, new.hi)}
           rest == map \ hits
<1>1. PICK m : /\ Merged(hits, new, Lim, m)
               /\ Emplace(map, new) = rest \cup {m}
               /\ \A f \in rest : f.hi < m.lo \/ m.hi < f.lo
  BY EmplaceMerges
<1>2. hits \subseteq map
  OBVIOUS
<1> HIDE DEF hits
<1>3. Ranges(map) /\ Disjoint(map) /\ \A e \in map : Segment(e)
  BY SegmentsFacts
<1>4. \A e \in map : e.lo \in Nat /\ e.hi \in Nat /\ e.lo < Lim /\ e.lo <= e.hi
  BY <1>3, SegmentFacts
<1>5. /\ Segment(m) /\ m.lo <= new.lo /\ new.hi <= m.hi /\ Starts(m.lo, new.lo, hits)
      /\ \A e \in hits : m.lo <= e.lo /\ e.hi <= m.hi
      /\ \A a \in m.lo .. m.hi : Holds(new, a) => At(m, a) = At(new, a)
      /\ \A a \in m.lo .. m.hi : ~Holds(new, a) =>
           \E e \in hits : Holds(e, a) /\ At(m, a) = At(e, a)
  BY <1>1, <1>2, <1>4 DEF Merged
<1>6. m.lo \in Nat /\ m.hi \in Nat /\ m.lo <= m.hi /\ new.lo \in Nat /\ new.hi \in Nat
  BY <1>5, SegmentFacts
<1>7. Disjoint(rest \cup {m})
  <2> SUFFICES ASSUME NEW e \in rest \cup {m}, NEW f \in rest \cup {m}
               PROVE  e.lo <= e.hi /\ (e = f \/ e.hi < f.lo \/ f.hi < e.lo)
    BY DEF Disjoint
  <2>1. e.lo <= e.hi
    BY <1>4, <1>6
  <2>2. CASE e \in rest /\ f \in rest
    BY <1>3, <2>1, <2>2 DEF Disjoint
  <2>3. CASE e = m \/ f = m
    BY <1>1, <2>1, <2>3
  <2>4. QED
    BY <2>2, <2>3
<1>8. \A e \in rest \cup {m} : Segment(e)
  BY <1>3, <1>5
<1>9. Segments(Emplace(map, new))
  BY <1>1, <1>7, <1>8, SegmentsIntro
<1>10. Ranges(rest \cup {m})
  BY <1>8, SegmentFacts DEF Ranges
<1>11. ASSUME NEW a \in Nat
       PROVE  Bytes(rest \cup {m}, a) = IF Holds(new, a) THEN {At(new, a)} ELSE Bytes(map, a)
  <2>1. Holds(m, a) => a \in m.lo .. m.hi /\ Bytes(rest \cup {m}, a) = {At(m, a)}
    <3>1. Holds(m, a) => Bytes(rest \cup {m}, a) = {At(m, a)}
      BY <1>7, <1>10, OneByte
    <3>2. QED
      BY <1>6, <3>1 DEF Holds
  <2>2. CASE Holds(new, a)
    <3>1. Holds(m, a)
      BY <1>5, <1>6, <2>2 DEF Holds
    <3>2. QED
      BY <1>5, <2>1, <2>2, <3>1
  <2>3. CASE ~Holds(new, a) /\ Holds(m, a)
    <3>1. PICK e \in hits : Holds(e, a) /\ At(m, a) = At(e, a)
      BY <1>5, <2>1, <2>3
    <3>2. Bytes(map, a) = {At(e, a)}
      BY <1>2, <1>3, <3>1, OneByte
    <3>3. QED
      BY <2>1, <2>3, <3>1, <3>2
  <2>4. CASE ~Holds(new, a) /\ ~Holds(m, a)
    <3>1. \A e \in hits : ~Holds(e, a)
      BY <1>2, <1>4, <1>5, <1>6, <2>4 DEF Holds
    <3>2. {f \in rest \cup {m} : Holds(f, a)} = {f \in map : Holds(f, a)}
      BY <1>2, <2>4, <3>1
    <3>3. QED
      BY <2>4, <3>2 DEF Bytes
  <2>5. QED
    BY <2>2, <2>3, <2>4
<1>12. ASSUME NEW e \in rest \cup {m} PROVE Starts(e.lo, new.lo, map)
  <2>1. CASE e = m
    BY <1>2, <1>5, <2>1 DEF Starts
  <2>2. CASE e \in rest
    BY <2>2 DEF Starts
  <2>3. QED
    BY <2>1, <2>2
<1>13. QED
  BY <1>1, <1>9, <1>11, <1>12

LEMMA PayloadIsBytes ==
  ASSUME NEW i \in 1 .. MaxWork, NEW size \in 1 .. MaxSize
  PROVE  /\ Payload(i, size) \in Seq(Byte) /\ Len(Payload(i, size)) = size
         /\ \A k \in 1 .. size : Payload(i, size)[k] = <<i, k>>
<1>1. Payload(i, size) \in [1 .. size -> Byte]
  BY BoundsAssumption DEF Payload, Byte
<1>2. size \in Nat
  BY BoundsAssumption
<1>3. \A k \in 1 .. size : Payload(i, size)[k] = <<i, k>>
  BY DEF Payload
<1>4. QED
  BY <1>1, <1>2, <1>3, FunctionIsSequence

\* The top of a segment that does not wrap around.
LEMMA SegmentTop ==
  ASSUME NEW x \in Nat, x < Lim
  PROVE  x % Lim = x
BY BoundsAssumption

\* after is staged with the segment laid over it.
Laid(staged, after, offset, size, seg) ==
  /\ Staged(after)
  /\ \A a \in Nat : Bytes(after.segs, a) =
       IF offset <= a /\ a <= offset + size - 1 THEN {seg[a - offset + 1]}
       ELSE Bytes(staged.segs, a)
  /\ \A e \in after.segs : Starts(e.lo, offset, staged.segs)

\* AddSegment lays the segment over the image and keeps the bounds.
LEMMA AddSegmentLays ==
  ASSUME NEW staged, Staged(staged), NEW offset \in Nat, NEW seg \in Seq(Byte),
         NEW size \in Nat \ {0}, Len(seg) = size, offset + size - 1 < Lim
  PROVE  Laid(staged, AddSegment(staged, offset, seg), offset, size, seg)
<1> DEFINE top == offset + size - 1
           new == Entry(offset, top, seg)
           after == AddSegment(staged, offset, seg)
<1>1. /\ top \in 0 .. Lim - 1 /\ offset \in 0 .. Lim - 1 /\ offset <= top
      /\ staged.min \in 0 .. Lim - 1 /\ staged.max \in 0 .. Lim - 1 /\ Lim \in Nat
  BY BoundsAssumption DEF Staged
<1>2. (offset + Len(seg) - 1) % Lim = top
  BY <1>1, SegmentTop
<1>3. seg # <<>>
  BY EmptySeq
<1>4. new.lo = offset /\ new.hi = top /\ new.val = seg
  BY DEF Entry
<1>5. Segment(new)
  BY <1>1, <1>4 DEF Segment, Entry
<1> HIDE DEF top
<1>6. after = [min |-> IF offset < staged.min THEN offset ELSE staged.min,
               max |-> IF top > staged.max THEN top ELSE staged.max,
               segs |-> Emplace(staged.segs, new)]
  BY <1>2, <1>3 DEF AddSegment
<1> HIDE DEF new, after
<1>7. /\ after.segs = Emplace(staged.segs, new)
      /\ after.min \in 0 .. Lim - 1 /\ after.min <= staged.min /\ after.min <= offset
      /\ after.max \in 0 .. Lim - 1 /\ after.max >= staged.max /\ after.max >= top
  BY <1>1, <1>6
<1>8. /\ Segments(after.segs)
      /\ \A a \in Nat : Bytes(after.segs, a) =
                         IF Holds(new, a) THEN {At(new, a)} ELSE Bytes(staged.segs, a)
      /\ \A e \in after.segs : Starts(e.lo, offset, staged.segs)
  <2>1. Segments(staged.segs)
    BY DEF Staged
  <2>2. /\ Segments(Emplace(staged.segs, new))
        /\ \A a \in Nat : Bytes(Emplace(staged.segs, new), a) =
                           IF Holds(new, a) THEN {At(new, a)} ELSE Bytes(staged.segs, a)
        /\ \A e \in Emplace(staged.segs, new) : Starts(e.lo, new.lo, staged.segs)
    BY <1>5, <2>1, EmplaceLays
  <2>3. QED
    BY <1>4, <1>7, <2>2
<1>9. ASSUME NEW e \in after.segs PROVE after.min <= e.lo /\ e.hi <= after.max
  <2>1. e.lo \in Nat /\ e.hi \in Nat /\ Holds(e, e.lo) /\ Holds(e, e.hi)
    BY <1>8, SegmentsFacts, SegmentFacts DEF Holds
  <2>2. ASSUME NEW a \in Nat, Holds(e, a) PROVE after.min <= a /\ a <= after.max
    <3>1. Bytes(after.segs, a) # {}
      BY <2>2 DEF Bytes
    <3>2. CASE Holds(new, a)
      BY <1>1, <1>4, <1>7, <3>2 DEF Holds
    <3>3. CASE ~Holds(new, a)
      <4>1. PICK f \in staged.segs : Holds(f, a)
        BY <1>8, <3>1, <3>3 DEF Bytes
      <4>2. staged.min <= f.lo /\ f.hi <= staged.max
        BY DEF Staged
      <4>3. f.lo \in Nat /\ f.hi \in Nat
        BY SegmentsFacts, SegmentFacts DEF Staged
      <4>4. QED
        BY <1>1, <1>7, <4>1, <4>2, <4>3 DEF Holds
    <3>4. QED
      BY <3>2, <3>3
  <2>3. QED
    BY <2>1, <2>2
<1>10. Staged(after)
  BY <1>7, <1>8, <1>9 DEF Staged
<1>11. ASSUME NEW a \in Nat
       PROVE  Bytes(after.segs, a) = IF offset <= a /\ a <= top THEN {seg[a - offset + 1]}
                                     ELSE Bytes(staged.segs, a)
  BY <1>4, <1>8 DEF Holds, At
<1>12. QED
  BY <1>8, <1>10, <1>11 DEF Laid, after, top

LEMMA Offset ==
  ASSUME NEW lo \in Nat, NEW hi \in Nat, NEW low \in Nat, NEW k \in Nat,
         low <= lo, lo <= low + k - 1, low + k - 1 <= hi
  PROVE  k - (lo - low) = (low + k - 1) - lo + 1 /\ k - (lo - low) \in 1 .. hi - lo + 1
OBVIOUS

\* The flat image shows the bytes of the segments, and zeros between them.
LEMMA FlatIsImage ==
  ASSUME NEW staged, Staged(staged), staged.min <= staged.max
  PROVE  LET flat == GetFlat(staged)
         IN  /\ flat \in Seq(Byte) /\ Len(flat) = 1 + staged.max - staged.min
             /\ \A k \in 0 .. staged.max - staged.min :
                  LET here == Bytes(staged.segs, staged.min + k)
                  IN  here = IF here = {} THEN {} ELSE {flat[k + 1]}
             /\ \A k \in 0 .. staged.max - staged.min :
                  Bytes(staged.segs, staged.min + k) = {} => flat[k + 1] = Zero
<1> DEFINE n == 1 + ((staged.max - staged.min) % Lim)
           at(k) == {e \in staged.segs : e.lo - staged.min < k /\ k <= 1 + e.hi - staged.min}
           flat == [k \in 1 .. n |->
                      IF at(k) = {} THEN Zero
                      ELSE LET e == CHOOSE e \in at(k) : TRUE IN e.val[k - (e.lo - staged.min)]]
<1>1. /\ staged.min \in Nat /\ staged.max \in Nat /\ staged.max < Lim
      /\ staged.max - staged.min \in Nat /\ staged.max - staged.min < Lim
  BY BoundsAssumption DEF Staged
<1>2. n = 1 + staged.max - staged.min /\ n \in Nat
  <2>1. (staged.max - staged.min) % Lim = staged.max - staged.min
    BY <1>1, SegmentTop
  <2>2. QED
    BY <1>1, <2>1
<1>3. GetFlat(staged) = flat
  BY DEF GetFlat
<1>4. \A e \in staged.segs : Segment(e) /\ e.lo \in Nat /\ e.hi \in Nat /\ staged.min <= e.lo
  BY SegmentsFacts, SegmentFacts DEF Staged
<1> HIDE DEF n
<1>5. ASSUME NEW k \in 1 .. n
      PROVE  at(k) = {e \in staged.segs : Holds(e, staged.min + k - 1)}
  BY <1>1, <1>2, <1>4 DEF Holds
<1>6. ASSUME NEW k \in 1 .. n, at(k) = {}
      PROVE  flat[k] = Zero /\ Bytes(staged.segs, staged.min + k - 1) = {}
  BY <1>5, <1>6 DEF Bytes
<1>7. ASSUME NEW k \in 1 .. n, at(k) # {}
      PROVE  flat[k] \in Byte /\ Bytes(staged.segs, staged.min + k - 1) = {flat[k]}
  <2> DEFINE e == CHOOSE e \in at(k) : TRUE
  <2>1. e \in at(k)
    BY <1>7
  <2>2. flat[k] = e.val[k - (e.lo - staged.min)]
    BY <1>7
  <2> HIDE DEF e, flat
  <2>3. e \in staged.segs /\ Holds(e, staged.min + k - 1)
    BY <1>5, <2>1
  <2>4. /\ e.lo \in Nat /\ e.hi \in Nat /\ e.val \in Seq(Byte) /\ Len(e.val) = e.hi - e.lo + 1
    BY <1>4, <2>3, SegmentFacts
  <2>5. /\ k - (e.lo - staged.min) = (staged.min + k - 1) - e.lo + 1
        /\ k - (e.lo - staged.min) \in 1 .. Len(e.val)
    <3>1. /\ e.lo <= staged.min + k - 1 /\ staged.min + k - 1 <= e.hi
          /\ staged.min <= e.lo /\ staged.min \in Nat /\ k \in Nat
      BY <1>1, <1>2, <1>4, <2>3 DEF Holds
    <3>2. /\ k - (e.lo - staged.min) = (staged.min + k - 1) - e.lo + 1
          /\ k - (e.lo - staged.min) \in 1 .. e.hi - e.lo + 1
      BY <2>4, <3>1, Offset
    <3>3. QED
      BY <2>4, <3>2
  <2>6. flat[k] = At(e, staged.min + k - 1)
    BY <2>2, <2>5 DEF At
  <2>7. flat[k] \in Byte
    BY <2>2, <2>4, <2>5, ElementOfSeq
  <2>8. staged.min + k - 1 \in Nat
    BY <1>1, <1>2
  <2>9. Bytes(staged.segs, staged.min + k - 1) = {At(e, staged.min + k - 1)}
    BY <2>3, <2>8, OneByte, SegmentsFacts DEF Staged
  <2>10. QED
    BY <2>6, <2>7, <2>9
<1>8. \A k \in 1 .. n : flat[k] \in Byte
  <2>1. Zero \in Byte
    BY DEF Byte
  <2> HIDE DEF flat, at
  <2>2. QED
    BY <1>6, <1>7, <2>1
<1>9. flat \in [1 .. n -> Byte]
  BY <1>8
<1> HIDE DEF flat
<1>10. flat \in Seq(Byte) /\ Len(flat) = n
  BY <1>2, <1>9, FunctionIsSequence
<1>11. ASSUME NEW k \in 0 .. staged.max - staged.min
       PROVE  LET here == Bytes(staged.segs, staged.min + k)
              IN  /\ here = IF here = {} THEN {} ELSE {flat[k + 1]}
                  /\ here = {} => flat[k + 1] = Zero
  <2>1. k + 1 \in 1 .. n /\ staged.min + (k + 1) - 1 = staged.min + k
    BY <1>1, <1>2
  <2> HIDE DEF at
  <2>2. CASE at(k + 1) = {}
    BY <1>6, <2>1, <2>2
  <2>3. CASE at(k + 1) # {}
    BY <1>7, <2>1, <2>3
  <2>4. QED
    BY <2>2, <2>3
<1>12. QED
  BY <1>2, <1>3, <1>10, <1>11

-----------------------------------------------------------------------------
(* FlattenElfFile: the segments of a file, put together. *)

\* The segments of a file, each within the address space.
File(f) == /\ f \in Seq([paddr : 0 .. Lim - 1, size : 1 .. MaxSize, id : 1 .. MaxWork])
           /\ \A i \in DOMAIN f : f[i].paddr + f[i].size - 1 < Lim

LEMMA FileFacts ==
  ASSUME NEW f, File(f)
  PROVE  /\ Len(f) \in Nat /\ DOMAIN f = 1 .. Len(f)
         /\ \A i \in 1 .. Len(f) :
              /\ f[i].paddr \in Nat /\ f[i].size \in Nat \ {0} /\ f[i].id \in Nat \ {0}
              /\ f[i].size \in 1 .. MaxSize /\ f[i].id \in 1 .. MaxWork
              /\ f[i].paddr + f[i].size - 1 < Lim
<1> DEFINE S == [paddr : 0 .. Lim - 1, size : 1 .. MaxSize, id : 1 .. MaxWork]
<1>1. f \in Seq(S)
  BY DEF File
<1>2. Len(f) \in Nat /\ DOMAIN f = 1 .. Len(f) /\ \A i \in 1 .. Len(f) : f[i] \in S
  <2> HIDE DEF S
  <2>1. QED
    BY <1>1, LenProperties, ElementOfSeq
<1>3. ASSUME NEW i \in 1 .. Len(f)
      PROVE  /\ f[i].paddr \in Nat /\ f[i].size \in Nat \ {0} /\ f[i].id \in Nat \ {0}
             /\ f[i].size \in 1 .. MaxSize /\ f[i].id \in 1 .. MaxWork
             /\ f[i].paddr + f[i].size - 1 < Lim
  <2>1. f[i].paddr \in 0 .. Lim - 1 /\ f[i].size \in 1 .. MaxSize /\ f[i].id \in 1 .. MaxWork
    BY <1>2
  <2>2. f[i].paddr + f[i].size - 1 < Lim
    BY <1>2 DEF File
  <2>3. QED
    BY <2>1, <2>2, BoundsAssumption
<1>4. QED
  BY <1>2, <1>3

LEMMA LowIsLowest ==
  ASSUME NEW f, File(f), f # <<>>
  PROVE  /\ Low(f) \in Nat /\ \A i \in 1 .. Len(f) : Low(f) <= f[i].paddr
         /\ \E i \in 1 .. Len(f) : f[i].paddr = Low(f)
<1> DEFINE T == {f[i].paddr : i \in DOMAIN f}
<1>1. DOMAIN f = 1 .. Len(f) /\ T \subseteq Nat
  BY FileFacts
<1>2. Len(f) \in Nat \ {0}
  BY EmptySeq DEF File
<1>3. f[1].paddr \in T
  BY <1>1, <1>2
<1>4. \E x \in T : \A y \in T : x <= y
  <2> HIDE DEF T
  <2>1. QED
    BY <1>1, <1>3, LeastNatural
<1>5. \E x \in T : \A i \in DOMAIN f : x <= f[i].paddr
  BY <1>4
<1>6. Low(f) \in T /\ \A i \in DOMAIN f : Low(f) <= f[i].paddr
  BY <1>5 DEF Low
<1>7. QED
  BY <1>1, <1>6

\* The step of the second pass for segment n.
AddAt(f, n, staged) == AddSegment(staged, f[n].paddr - Low(f), Payload(f[n].id, f[n].size))

\* The pass is well defined.
LEMMA FlattenedIsDefined ==
  ASSUME NEW f, Len(f) \in Nat
  PROVE  LET staged == Flattened(f)
         IN  /\ staged[0] = EmptyStaged
             /\ \A n \in 1 .. Len(f) : staged[n] = AddAt(f, n, staged[n - 1])
<1> DEFINE Rec(s, m) == s = [n \in 0 .. m |-> IF n = 0 THEN EmptyStaged ELSE AddAt(f, n, s[n - 1])]
           T == {m \in Nat : ~\E s : Rec(s, m)}
<1>1. T = {}
  <2> SUFFICES ASSUME T # {} PROVE FALSE
    OBVIOUS
  <2>1. PICK m \in T : \A k \in T : m <= k
    <3>1. T \subseteq Nat
      OBVIOUS
    <3> HIDE DEF T
    <3>2. QED
      BY <3>1, LeastNatural
  <2>2. m \in Nat /\ ~\E s : Rec(s, m)
    BY <2>1
  <2>3. CASE m = 0
    <3>1. Rec([n \in 0 .. 0 |-> EmptyStaged], 0)
      OBVIOUS
    <3>2. QED
      BY <2>2, <2>3, <3>1
  <2>4. CASE m # 0
    <3>1. m - 1 \in Nat /\ m - 1 \notin T
      <4>1. m - 1 \in Nat /\ ~(m <= m - 1)
        BY <2>2, <2>4
      <4> HIDE DEF T
      <4>2. QED
        BY <2>1, <4>1
    <3>2. PICK s : Rec(s, m - 1)
      BY <3>1
    <3> DEFINE g == [n \in 0 .. m |-> IF n = m THEN AddAt(f, m, s[m - 1]) ELSE s[n]]
               h == [n \in 0 .. m |-> IF n = 0 THEN EmptyStaged ELSE AddAt(f, n, g[n - 1])]
    <3>3. \A n \in 0 .. m - 1 : s[n] = IF n = 0 THEN EmptyStaged ELSE AddAt(f, n, s[n - 1])
      BY <3>2
    <3>4. ASSUME NEW n \in 0 .. m PROVE g[n] = h[n]
      <4>1. CASE n = 0
        BY <2>2, <2>4, <3>1, <3>3, <4>1
      <4>2. CASE n # 0
        <5>1. n - 1 \in 0 .. m - 1 /\ n - 1 # m
          BY <2>2, <4>2
        <5>2. g[n - 1] = s[n - 1]
          BY <2>2, <5>1
        <5>3. h[n] = AddAt(f, n, s[n - 1])
          BY <4>2, <5>2
        <5>4. n = m \/ n \in 0 .. m - 1
          BY <2>2
        <5>5. QED
          BY <3>3, <4>2, <5>3, <5>4
      <4>3. QED
        BY <4>1, <4>2
    <3>5. g = h
      BY <3>4
    <3>6. Rec(g, m)
      BY <3>5
    <3>7. QED
      BY <2>2, <3>6
  <2>5. QED
    BY <2>3, <2>4
<1>2. \E s : Rec(s, Len(f))
  BY <1>1
<1>3. Rec(Flattened(f), Len(f))
  BY <1>2 DEF Flattened, AddAt
<1>4. QED
  BY <1>3

Covers(f, i, a) == f[i].paddr <= a /\ a < f[i].paddr + f[i].size

\* B is what the first n segments of f put at address a: nothing, or the byte of the last of them
\* that covers it.
Prefix(f, n, a, B) ==
  \/ B = {} /\ \A i \in 1 .. n : ~Covers(f, i, a)
  \/ \E i \in 1 .. n : /\ Covers(f, i, a) /\ \A j \in 1 .. n : Covers(f, j, a) => j <= i
                       /\ B = {<<f[i].id, a - f[i].paddr + 1>>}

\* One segment more.
Under(f, n, a, B) == IF Covers(f, n, a) THEN {<<f[n].id, a - f[n].paddr + 1>>} ELSE B

LEMMA UnderCovers ==
  ASSUME NEW f, NEW n, NEW a, NEW B, Covers(f, n, a)
  PROVE  Under(f, n, a, B) = {<<f[n].id, a - f[n].paddr + 1>>}
BY DEF Under

LEMMA PrefixStep ==
  ASSUME NEW f, NEW n \in Nat \ {0}, NEW a, NEW B, Prefix(f, n - 1, a, B)
  PROVE  Prefix(f, n, a, Under(f, n, a, B))
<1>1. \A j \in 1 .. n : j = n \/ j \in 1 .. n - 1
  OBVIOUS
<1>2. n \in 1 .. n /\ \A j \in 1 .. n : j <= n
  OBVIOUS
<1>3. CASE Covers(f, n, a)
  BY <1>2, <1>3 DEF Prefix, Under
<1>4. CASE ~Covers(f, n, a)
  <2>1. Under(f, n, a, B) = B
    BY <1>4 DEF Under
  <2>2. CASE B = {} /\ \A i \in 1 .. n - 1 : ~Covers(f, i, a)
    BY <1>1, <1>4, <2>1, <2>2 DEF Prefix
  <2>3. CASE ~(B = {} /\ \A i \in 1 .. n - 1 : ~Covers(f, i, a))
    <3>1. PICK i \in 1 .. n - 1 : /\ Covers(f, i, a)
                                 /\ \A j \in 1 .. n - 1 : Covers(f, j, a) => j <= i
                                 /\ B = {<<f[i].id, a - f[i].paddr + 1>>}
      BY <2>3 DEF Prefix
    <3>2. i \in 1 .. n /\ \A j \in 1 .. n : Covers(f, j, a) => j <= i
      BY <1>1, <1>4, <3>1
    <3>3. QED
      BY <2>1, <3>1, <3>2 DEF Prefix
  <2>4. QED
    BY <2>2, <2>3
<1>5. QED
  BY <1>3, <1>4

\* All segments together make the image.
LEMMA PrefixIsImage ==
  ASSUME NEW f, File(f), NEW a, NEW B, Prefix(f, Len(f), a, B)
  PROVE  /\ B = IF Covered(f, a) THEN {ImageByte(f, a)} ELSE {}
         /\ Covered(f, a) <=> \E i \in 1 .. Len(f) : Covers(f, i, a)
<1> DEFINE at == {i \in DOMAIN f : f[i].paddr <= a /\ a < f[i].paddr + f[i].size}
<1>1. /\ Len(f) \in Nat /\ DOMAIN f = 1 .. Len(f)
      /\ \A i \in 1 .. Len(f) : f[i].id \in Nat \ {0}
  BY FileFacts
<1>2. at = {i \in 1 .. Len(f) : Covers(f, i, a)}
  BY <1>1 DEF Covers
<1>3. CASE B = {} /\ \A i \in 1 .. Len(f) : ~Covers(f, i, a)
  <2>1. at = {}
    BY <1>2, <1>3
  <2>2. ImageByte(f, a) = Zero
    BY <2>1 DEF ImageByte
  <2>3. QED
    BY <1>3, <2>2 DEF Covered
<1>4. CASE ~(B = {} /\ \A i \in 1 .. Len(f) : ~Covers(f, i, a))
  <2>1. PICK i \in 1 .. Len(f) : /\ Covers(f, i, a)
                                /\ \A j \in 1 .. Len(f) : Covers(f, j, a) => j <= i
                                /\ B = {<<f[i].id, a - f[i].paddr + 1>>}
    BY <1>4 DEF Prefix
  <2> DEFINE last == CHOOSE k \in at : \A j \in at : j <= k
  <2>2. i \in at /\ \A j \in at : j <= i
    BY <1>2, <2>1
  <2>3. last \in at /\ \A j \in at : j <= last
    BY <2>2
  <2>4. last = i
    <3> HIDE DEF last
    <3>1. last \in 1 .. Len(f) /\ last <= i /\ i <= last
      BY <1>2, <2>2, <2>3
    <3>2. QED
      BY <3>1
  <2>5. ImageByte(f, a) = <<f[last].id, a - f[last].paddr + 1>>
    BY <2>2 DEF ImageByte
  <2>6. ImageByte(f, a) = <<f[i].id, a - f[i].paddr + 1>>
    BY <2>4, <2>5
  <2>7. ImageByte(f, a) # Zero
    BY <1>1, <2>6 DEF Zero
  <2>8. QED
    BY <2>1, <2>6, <2>7 DEF Covered
<1>5. QED
  BY <1>3, <1>4

\* The vector after the first n segments.
FlatAfter(f, n, staged) ==
  /\ Staged(staged)
  /\ \A a \in Nat : Prefix(f, n, Low(f) + a, Bytes(staged.segs, a))

LEMMA EmptyIsStaged == Staged(EmptyStaged) /\ \A a : Bytes(EmptyStaged.segs, a) = {}
<1>1. 0 \in 0 .. Lim - 1 /\ Lim - 1 \in 0 .. Lim - 1
  BY BoundsAssumption
<1>2. Segments({})
  BY DEF Segments, Disjoint
<1>3. EmptyStaged.segs = {} /\ EmptyStaged.min = Lim - 1 /\ EmptyStaged.max = 0
  BY DEF EmptyStaged
<1>4. QED
  BY <1>1, <1>2, <1>3 DEF Staged, Bytes

LEMMA Relative ==
  ASSUME NEW p \in Nat, NEW low \in Nat, low <= p, NEW size \in Nat \ {0}, p + size - 1 < Lim
  PROVE  /\ p - low \in Nat /\ p - low + size - 1 < Lim
         /\ \A a \in Nat : p <= low + a /\ low + a < p + size
                          <=> p - low <= a /\ a <= p - low + size - 1
         /\ \A a \in Nat : p - low <= a /\ a <= p - low + size - 1 =>
              a - (p - low) + 1 \in 1 .. size /\ a - (p - low) + 1 = (low + a) - p + 1
BY BoundsAssumption

LEMMA FlattenStep ==
  ASSUME NEW f, File(f), f # <<>>, NEW n \in 1 .. Len(f), NEW staged, FlatAfter(f, n - 1, staged)
  PROVE  FlatAfter(f, n, AddAt(f, n, staged))
<1> DEFINE off == f[n].paddr - Low(f)
           size == f[n].size
           seg == Payload(f[n].id, size)
           after == AddAt(f, n, staged)
<1>1. /\ f[n].paddr \in Nat /\ size \in Nat \ {0} /\ size \in 1 .. MaxSize /\ f[n].id \in 1 .. MaxWork
      /\ f[n].paddr + size - 1 < Lim /\ Low(f) \in Nat /\ Low(f) <= f[n].paddr /\ n \in Nat \ {0}
  BY FileFacts, LowIsLowest
<1>2. /\ off \in Nat /\ off + size - 1 < Lim
      /\ \A a \in Nat : f[n].paddr <= Low(f) + a /\ Low(f) + a < f[n].paddr + size
                       <=> off <= a /\ a <= off + size - 1
      /\ \A a \in Nat : off <= a /\ a <= off + size - 1 =>
           a - off + 1 \in 1 .. size /\ a - off + 1 = (Low(f) + a) - f[n].paddr + 1
  BY <1>1, Relative
<1>3. seg \in Seq(Byte) /\ Len(seg) = size /\ \A k \in 1 .. size : seg[k] = <<f[n].id, k>>
  BY <1>1, PayloadIsBytes
<1>4. after = AddSegment(staged, off, seg)
  BY DEF AddAt
<1>5. Staged(staged) /\ \A a \in Nat : Prefix(f, n - 1, Low(f) + a, Bytes(staged.segs, a))
  BY DEF FlatAfter
<1> HIDE DEF seg, after
<1>6. /\ Staged(after)
      /\ \A a \in Nat : Bytes(after.segs, a) =
           IF off <= a /\ a <= off + size - 1 THEN {seg[a - off + 1]} ELSE Bytes(staged.segs, a)
  <2>1. off \in Nat /\ size \in Nat \ {0} /\ off + size - 1 < Lim
    BY <1>1, <1>2
  <2> HIDE DEF off, size
  <2>2. Laid(staged, after, off, size, seg)
    BY <1>3, <1>4, <1>5, <2>1, AddSegmentLays
  <2>3. QED
    BY <2>2 DEF Laid
<1>7. ASSUME NEW a \in Nat PROVE Prefix(f, n, Low(f) + a, Bytes(after.segs, a))
  <2>1. Covers(f, n, Low(f) + a) <=> off <= a /\ a <= off + size - 1
    BY <1>2 DEF Covers
  <2>2. off <= a /\ a <= off + size - 1 => seg[a - off + 1] = <<f[n].id, (Low(f) + a) - f[n].paddr + 1>>
    <3>1. off <= a /\ a <= off + size - 1 =>
            a - off + 1 \in 1 .. size /\ a - off + 1 = (Low(f) + a) - f[n].paddr + 1
      BY <1>2
    <3>2. QED
      BY <1>3, <3>1
  <2>3. Bytes(after.segs, a) = Under(f, n, Low(f) + a, Bytes(staged.segs, a))
    <3> HIDE DEF off, size
    <3>1. Bytes(after.segs, a) =
            IF off <= a /\ a <= off + size - 1 THEN {seg[a - off + 1]} ELSE Bytes(staged.segs, a)
      BY <1>6
    <3>2. CASE off <= a /\ a <= off + size - 1
      <4> DEFINE b == <<f[n].id, (Low(f) + a) - f[n].paddr + 1>>
      <4>1. seg[a - off + 1] = b
        BY <2>2, <3>2
      <4>2. Under(f, n, Low(f) + a, Bytes(staged.segs, a)) = {b}
        <5>1. Covers(f, n, Low(f) + a)
          BY <2>1, <3>2
        <5>2. QED
          BY <5>1, UnderCovers
      <4> HIDE DEF b
      <4>3. Bytes(after.segs, a) = {seg[a - off + 1]}
        BY <3>1, <3>2
      <4>4. QED
        BY <4>1, <4>2, <4>3
    <3>3. CASE ~(off <= a /\ a <= off + size - 1)
      BY <2>1, <3>1, <3>3 DEF Under
    <3>4. QED
      BY <3>2, <3>3
  <2>4. Prefix(f, n - 1, Low(f) + a, Bytes(staged.segs, a))
    BY <1>5
  <2>5. n \in Nat \ {0}
    BY <1>1
  <2>6. QED
    BY <2>3, <2>4, <2>5, PrefixStep
<1>8. QED
  BY <1>6, <1>7 DEF FlatAfter, after

LEMMA FlattenLoop ==
  ASSUME NEW f, File(f), f # <<>>
  PROVE  FlatAfter(f, Len(f), Flattened(f)[Len(f)])
<1> DEFINE st == Flattened(f)
           T == {n \in 0 .. Len(f) : ~FlatAfter(f, n, st[n])}
<1>0. Len(f) \in Nat
  BY FileFacts
<1>1. st[0] = EmptyStaged /\ \A n \in 1 .. Len(f) : st[n] = AddAt(f, n, st[n - 1])
  BY <1>0, FlattenedIsDefined
<1> HIDE DEF st
<1>2. FlatAfter(f, 0, st[0])
  BY <1>1, EmptyIsStaged DEF FlatAfter, Prefix
<1>3. T = {}
  <2> SUFFICES ASSUME T # {} PROVE FALSE
    OBVIOUS
  <2>1. PICK n \in T : \A k \in T : n <= k
    <3>1. T \subseteq Nat
      BY <1>0
    <3> HIDE DEF T
    <3>2. QED
      BY <3>1, LeastNatural
  <2>2. n \in 0 .. Len(f) /\ ~FlatAfter(f, n, st[n]) /\ n # 0
    BY <1>2, <2>1
  <2>3. n \in 1 .. Len(f) /\ n - 1 \in 0 .. Len(f) /\ ~(n <= n - 1)
    BY <1>0, <2>2
  <2>4. n - 1 \notin T
    <3> HIDE DEF T
    <3>1. QED
      BY <2>1, <2>3
  <2>5. FlatAfter(f, n - 1, st[n - 1])
    BY <2>3, <2>4
  <2>6. FlatAfter(f, n, AddAt(f, n, st[n - 1]))
    <3> HIDE DEF T
    <3>1. QED
      BY <2>3, <2>5, FlattenStep
  <2>7. QED
    BY <1>1, <2>2, <2>3, <2>6
<1>4. QED
  BY <1>0, <1>3 DEF st

\* The vector that FlattenElfFile makes of a file is its image from the lowest address on.
LEMMA FlattenIsImage ==
  ASSUME NEW f, File(f), f # <<>>
  PROVE  LET flat == FlattenElfFile(f)
         IN  /\ flat \in Seq(Byte)
             /\ \A k \in Nat : Covered(f, Low(f) + k) =>
                  k < Len(flat) /\ flat[k + 1] = ImageByte(f, Low(f) + k)
             /\ \A k \in Nat : k < Len(flat) /\ ~Covered(f, Low(f) + k) => flat[k + 1] = Zero
<1> DEFINE st == Flattened(f)[Len(f)]
           flat == FlattenElfFile(f)
           B(a) == Bytes(st.segs, a)
<1>1. Staged(st) /\ \A a \in Nat : Prefix(f, Len(f), Low(f) + a, B(a))
  BY FlattenLoop DEF FlatAfter
<1>2. Low(f) \in Nat
  BY LowIsLowest
<1> HIDE DEF st
<1>3. ASSUME NEW a \in Nat
      PROVE  /\ B(a) = IF Covered(f, Low(f) + a) THEN {ImageByte(f, Low(f) + a)} ELSE {}
             /\ Covered(f, Low(f) + a) <=> \E i \in 1 .. Len(f) : Covers(f, i, Low(f) + a)
  <2>1. Prefix(f, Len(f), Low(f) + a, B(a))
    BY <1>1
  <2> HIDE DEF B
  <2>2. QED
    BY <2>1, PrefixIsImage
<1>4. st.min \in Nat /\ st.max \in Nat
  BY <1>1, BoundsAssumption DEF Staged
<1>5. ASSUME NEW a \in Nat, Covered(f, Low(f) + a) PROVE st.min <= a /\ a <= st.max
  <2>1. PICK e \in st.segs : Holds(e, a)
    BY <1>3, <1>5 DEF Bytes
  <2>2. e.lo \in Nat /\ e.hi \in Nat /\ st.min <= e.lo /\ e.hi <= st.max
    BY <1>1, SegmentsFacts, SegmentFacts DEF Staged
  <2>3. QED
    BY <1>4, <2>1, <2>2 DEF Holds
<1>6. st.min = 0
  <2>1. PICK i \in 1 .. Len(f) : f[i].paddr = Low(f)
    BY LowIsLowest
  <2>2. Covers(f, i, Low(f) + 0)
    BY <1>2, <2>1, FileFacts DEF Covers
  <2>3. Covered(f, Low(f) + 0)
    BY <1>3, <2>2
  <2>4. QED
    BY <1>4, <1>5, <2>3
<1>7. flat = GetFlat(st)
  BY DEF FlattenElfFile, st
<1> HIDE DEF flat
<1>8. /\ flat \in Seq(Byte) /\ Len(flat) = 1 + st.max
      /\ \A k \in 0 .. st.max : B(k) = IF B(k) = {} THEN {} ELSE {flat[k + 1]}
      /\ \A k \in 0 .. st.max : B(k) = {} => flat[k + 1] = Zero
  <2>1. st.min <= st.max /\ st.max - st.min = st.max /\ 1 + st.max - st.min = 1 + st.max
    BY <1>4, <1>6
  <2>2. \A k \in 0 .. st.max : st.min + k = k
    BY <1>4, <1>6
  <2>3. LET v == GetFlat(st)
        IN  /\ v \in Seq(Byte) /\ Len(v) = 1 + st.max - st.min
            /\ \A k \in 0 .. st.max - st.min :
                 LET here == Bytes(st.segs, st.min + k)
                 IN  here = IF here = {} THEN {} ELSE {v[k + 1]}
            /\ \A k \in 0 .. st.max - st.min :
                 Bytes(st.segs, st.min + k) = {} => v[k + 1] = Zero
    BY <1>1, <2>1, FlatIsImage
  <2>4. QED
    BY <1>7, <2>1, <2>2, <2>3
<1>9. ASSUME NEW k \in Nat, Covered(f, Low(f) + k)
      PROVE  k < Len(flat) /\ flat[k + 1] = ImageByte(f, Low(f) + k)
  <2>1. k \in 0 .. st.max /\ k < Len(flat)
    BY <1>4, <1>5, <1>8, <1>9
  <2>2. B(k) = {ImageByte(f, Low(f) + k)}
    BY <1>3, <1>9
  <2>3. B(k) = {flat[k + 1]}
    <3> HIDE DEF B
    <3>1. QED
      BY <1>8, <2>1, <2>2
  <2>4. QED
    BY <2>1, <2>2, <2>3
<1>10. ASSUME NEW k \in Nat, k < Len(flat), ~Covered(f, Low(f) + k) PROVE flat[k + 1] = Zero
  <2>1. k \in 0 .. st.max
    BY <1>4, <1>8, <1>10
  <2>2. B(k) = {}
    BY <1>3, <1>10
  <2>3. QED
    BY <1>8, <2>1, <2>2
<1>11. QED
  BY <1>8, <1>9, <1>10 DEF flat

\* What a further segment changes in the image of a file.
LEMMA ImageOfAppend ==
  ASSUME NEW f, File(f), NEW s, File(Append(f, s)), NEW a
  PROVE  ImageByte(Append(f, s), a) = IF s.paddr <= a /\ a < s.paddr + s.size
                                      THEN <<s.id, a - s.paddr + 1>> ELSE ImageByte(f, a)
<1> DEFINE g == Append(f, s)
           at == {i \in DOMAIN f : f[i].paddr <= a /\ a < f[i].paddr + f[i].size}
           on == {i \in DOMAIN g : g[i].paddr <= a /\ a < g[i].paddr + g[i].size}
           n == Len(f)
<1>1. n \in Nat /\ DOMAIN f = 1 .. n
  BY FileFacts
<1>2. DOMAIN g = 1 .. Len(g)
  BY FileFacts
<1>3. Len(g) = n + 1 /\ g[n + 1] = s /\ \A i \in 1 .. n : g[i] = f[i]
  BY DEF File
<1>4. DOMAIN g = 1 .. n + 1
  BY <1>2, <1>3
<1> HIDE DEF n, g
<1>5. \A i \in 1 .. n + 1 : i \in 1 .. n \/ i = n + 1
  BY <1>1
<1>6. CASE s.paddr <= a /\ a < s.paddr + s.size
  <2>1. n + 1 \in on /\ \A j \in on : j <= n + 1
    BY <1>1, <1>3, <1>4, <1>6
  <2> DEFINE last == CHOOSE i \in on : \A j \in on : j <= i
  <2>2. last \in on /\ \A j \in on : j <= last
    BY <2>1
  <2>3. last = n + 1
    <3>1. last \in 1 .. n + 1 /\ n + 1 <= last
      BY <1>4, <2>1, <2>2
    <3> HIDE DEF last
    <3>2. QED
      BY <1>1, <3>1
  <2>4. ImageByte(g, a) = <<g[last].id, a - g[last].paddr + 1>>
    BY <2>1 DEF ImageByte
  <2>5. QED
    BY <1>3, <1>6, <2>3, <2>4 DEF g
<1>7. CASE ~(s.paddr <= a /\ a < s.paddr + s.size)
  <2>1. on = at
    <3>1. \A i \in on : i \in at
      BY <1>1, <1>3, <1>4, <1>5, <1>7
    <3>2. \A i \in at : i \in on
      BY <1>1, <1>3, <1>4
    <3>3. QED
      BY <3>1, <3>2
  <2>2. CASE at = {}
    BY <1>7, <2>1, <2>2 DEF ImageByte, g
  <2>3. CASE at # {}
    <3> DEFINE last == CHOOSE i \in at : \A j \in at : j <= i
    <3>1. ImageByte(f, a) = <<f[last].id, a - f[last].paddr + 1>>
      BY <2>3 DEF ImageByte
    <3>2. ImageByte(g, a) = <<g[last].id, a - g[last].paddr + 1>>
      BY <2>1, <2>3 DEF ImageByte
    <3>3. last \in at
      <4>1. at \subseteq Nat /\ \A i \in at : n - i \in Nat
        BY <1>1
      <4> DEFINE T == {n - i : i \in at}
      <4>2. T \subseteq Nat /\ T # {}
        BY <2>3, <4>1
      <4>3. PICK x \in T : \A y \in T : x <= y
        <5> HIDE DEF T
        <5>1. QED
          BY <4>2, LeastNatural
      <4>4. PICK i \in at : x = n - i
        BY <4>3
      <4>5. ASSUME NEW j \in at PROVE j <= i
        <5>1. n - i <= n - j
          BY <4>3, <4>4
        <5>2. i \in Nat /\ j \in Nat
          BY <4>1
        <5>3. QED
          BY <1>1, <5>1, <5>2
      <4>6. QED
        BY <4>5
    <3>4. g[last] = f[last]
      BY <1>1, <1>3, <3>3
    <3>5. QED
      BY <1>7, <3>1, <3>2, <3>4 DEF g
  <2>4. QED
    BY <2>2, <2>3
<1>8. QED
  BY <1>6, <1>7

-----------------------------------------------------------------------------
(* The registry. *)

\* Addresses and sizes of an area to register; one that does not wrap around ends where it should.
LEMMA AreaFacts ==
  ASSUME NEW a \in Areas
  PROVE  /\ a.base \in Nat /\ a.base < Lim /\ a.name \in Nat
         /\ a.words \in Nat \ {0} /\ a.width \in Nat \ {0}
         /\ SizeBytes(a) \in Nat \ {0} /\ SizeBytes(a) < Lim
         /\ TopOf(a) \in 0 .. Lim - 1
         /\ a.base <= TopOf(a) => TopOf(a) = a.base + SizeBytes(a) - 1
<1>1. /\ a.base \in Nat /\ a.base < Lim /\ a.name \in Nat
      /\ a.words \in Nat \ {0} /\ a.width \in Nat \ {0} /\ Lim \in Nat \ {0}
  BY AreasAssumption, BoundsAssumption
<1>2. SizeBytes(a) \in Nat \ {0} /\ SizeBytes(a) < Lim
  <2>1. a.words * a.width \in Nat
    BY <1>1
  <2>2. SizeBytes(a) \in 0 .. Lim - 1
    BY <1>1, <2>1 DEF SizeBytes
  <2>3. QED
    BY <1>1, <2>2, SizeAssumption
<1>3. ASSUME NEW b \in Nat, NEW n \in Nat, NEW l \in Nat \ {0}, b < l, n < l, n # 0
      PROVE  /\ (b + n - 1) % l \in 0 .. l - 1
             /\ b <= (b + n - 1) % l => (b + n - 1) % l = b + n - 1
  <2>1. CASE b + n - 1 < l
    BY <1>3, <2>1
  <2>2. CASE ~(b + n - 1 < l)
    <3>1. b + n - 1 - l \in 0 .. l - 1
      BY <1>3, <2>2
    <3>2. (b + n - 1) % l = b + n - 1 - l
      BY <1>3, <3>1
    <3>3. QED
      BY <1>3, <3>1, <3>2
  <2>3. QED
    BY <2>1, <2>2
<1>4. QED
  BY <1>1, <1>2, <1>3 DEF TopOf

\* A further area.
LEMMA AreasAppend ==
  ASSUME areas \in Seq(Areas), NEW a \in Areas
  PROVE  /\ Len(areas) \in Nat /\ Idx = 1 .. Len(areas)
         /\ \A i \in Idx : areas[i] \in Areas
         /\ Append(areas, a) \in Seq(Areas) /\ Len(Append(areas, a)) = Len(areas) + 1
         /\ \A i \in Idx : Append(areas, a)[i] = areas[i]
         /\ Append(areas, a)[Len(areas) + 1] = a
<1>1. Len(areas) \in Nat /\ \A i \in 1 .. Len(areas) : areas[i] \in Areas
  BY LenProperties, ElementOfSeq
<1>2. QED
  BY <1>1, AppendProperties DEF Idx

\* Where the entries of the registry lie.
LEMMA RegistryRanges ==
  ASSUME RegistryInv
  PROVE  /\ Ranges(addrToMem) /\ Disjoint(addrToMem)
         /\ \A i \in Idx : /\ areas[i] \in Areas
                           /\ Entry(areas[i].base, TopOf(areas[i]), i) \in addrToMem
                           /\ TopOf(areas[i]) = areas[i].base + SizeBytes(areas[i]) - 1
                           /\ areas[i].base + SizeBytes(areas[i]) - 1 < Lim
<1>1. \A i \in Idx : areas[i] \in Areas
  BY ElementOfSeq DEF RegistryInv, Idx
<1>2. ASSUME NEW i \in Idx
      PROVE  /\ areas[i] \in Areas
             /\ Entry(areas[i].base, TopOf(areas[i]), i) \in addrToMem
             /\ TopOf(areas[i]) = areas[i].base + SizeBytes(areas[i]) - 1
             /\ areas[i].base + SizeBytes(areas[i]) - 1 < Lim
  <2>1. areas[i] \in Areas /\ areas[i].base <= TopOf(areas[i])
    BY <1>1 DEF RegistryInv
  <2>2. Entry(areas[i].base, TopOf(areas[i]), i) \in addrToMem
    BY DEF RegistryInv
  <2>3. TopOf(areas[i]) \in 0 .. Lim - 1 /\ Lim \in Nat
    BY <2>1, AreaFacts, BoundsAssumption
  <2>4. TopOf(areas[i]) = areas[i].base + SizeBytes(areas[i]) - 1
    BY <2>1, AreaFacts
  <2>5. TopOf(areas[i]) < Lim
    BY <2>3
  <2>6. QED
    BY <2>1, <2>2, <2>4, <2>5
<1>3. Ranges(addrToMem)
  <2> SUFFICES ASSUME NEW e \in addrToMem PROVE e.lo \in Nat /\ e.hi \in Nat
    BY DEF Ranges
  <2>1. PICK i \in Idx : e = Entry(areas[i].base, TopOf(areas[i]), i)
    BY DEF RegistryInv
  <2>2. e.lo = areas[i].base /\ e.hi = TopOf(areas[i])
    BY <2>1 DEF Entry
  <2>3. TopOf(areas[i]) \in 0 .. Lim - 1 /\ Lim \in Nat /\ areas[i].base \in Nat
    BY <1>1, AreaFacts, BoundsAssumption
  <2>4. QED
    BY <2>2, <2>3
<1>4. QED
  BY <1>2, <1>3 DEF RegistryInv

\* All calls but one leave the registry alone, and none of them sets off from an aborted loader.
LEMMA OtherCalls ==
  ASSUME CallInv, Calls, \A a \in Areas : ~RegisterMemoryArea(a)
  PROVE  UNCHANGED registryVars /\ result # "abort"
<1>1. pc # "idle" => result # "abort"
  BY DEF CallInv
<1>2. CASE \E c \in {"stage", "load"} : StageElf(c)
  BY <1>2 DEF StageElf, Ready
<1>3. CASE \E paddr \in 0 .. Lim - 1, size \in 1 .. MaxSize :
             StageSegment(paddr, size) \/ FlattenSegment(paddr, size)
  BY <1>1, <1>3 DEF StageSegment, FlattenSegment
<1>4. CASE StageRejects \/ StageDone \/ LoadDone \/ FlattenRejects
  BY <1>1, <1>4 DEF StageRejects, StageDone, LoadDone, FlattenRejects, Throw
<1>5. CASE LoadSegment
  BY <1>1, <1>5 DEF LoadSegment, Throw
<1>6. CASE \E a \in Areas, type \in {"elf", "vmem", "unknown"} : LoadFileToNamedMem(a.name, type)
  BY <1>6 DEF LoadFileToNamedMem, Ready
<1>7. CASE FlattenWrite
  BY <1>1, <1>7 DEF FlattenWrite, Throw
<1>8. QED
  BY <1>2, <1>3, <1>4, <1>5, <1>6, <1>7 DEF Calls

\* An area that is accepted is added to all of the registry.
LEMMA RegisterAccepted ==
  ASSUME RegistryInv, NEW a \in Areas, Ready, TopOf(a) >= a.base, a.name \notin DOMAIN nameToMem,
         Clashes(addrToMem, a.base, TopOf(a)) = {},
         addrToMem' = EmplaceDisjoint(addrToMem, Entry(a.base, TopOf(a), Len(areas) + 1)),
         nameToMem' = Put(nameToMem, a.name, Len(areas) + 1),
         areas' = Append(areas, a)
  PROVE  RegistryInv'
<1> DEFINE n == Len(areas) + 1
           new == Entry(a.base, TopOf(a), n)
<1>1. /\ Len(areas) \in Nat /\ Idx = 1 .. Len(areas) /\ \A i \in Idx : areas[i] \in Areas
      /\ areas' \in Seq(Areas) /\ Len(areas') = n
      /\ \A i \in Idx : areas'[i] = areas[i]
      /\ areas'[n] = a
  BY AreasAppend DEF RegistryInv
<1>2. Idx' = Idx \cup {n} /\ n \notin Idx
  BY <1>1 DEF Idx
<1>3. a.base \in Nat /\ TopOf(a) \in Nat /\ a.base <= TopOf(a)
  BY AreaFacts, BoundsAssumption
<1>4. new.lo = a.base /\ new.hi = TopOf(a)
  BY DEF Entry
<1>5. addrToMem' = addrToMem \cup {new} /\ Disjoint(addrToMem \cup {new})
  <2>1. Ranges(addrToMem) /\ Disjoint(addrToMem)
    BY RegistryRanges
  <2> HIDE DEF new
  <2>2. addrToMem' = EmplaceDisjoint(addrToMem, new)
    BY DEF new
  <2>3. QED
    BY <1>3, <1>4, <2>1, <2>2, EmplaceDisjointKeeps
<1>6. \A i \in Idx' : areas'[i].base <= TopOf(areas'[i])
  BY <1>1, <1>2, <1>3 DEF RegistryInv
<1>7. addrToMem' = {Entry(areas'[i].base, TopOf(areas'[i]), i) : i \in Idx'}
  <2>1. addrToMem = {Entry(areas'[i].base, TopOf(areas'[i]), i) : i \in Idx}
    BY <1>1 DEF RegistryInv
  <2>2. new = Entry(areas'[n].base, TopOf(areas'[n]), n)
    BY <1>1
  <2> HIDE DEF new, n
  <2>3. QED
    BY <1>2, <1>5, <2>1, <2>2
<1>8. /\ DOMAIN nameToMem = {areas[i].name : i \in Idx}
      /\ \A i \in Idx : nameToMem[areas[i].name] = i
  BY DEF RegistryInv, Ready
<1>9. /\ DOMAIN nameToMem' = DOMAIN nameToMem \cup {a.name}
      /\ nameToMem'[a.name] = n
      /\ \A x \in DOMAIN nameToMem : nameToMem'[x] = nameToMem[x]
  <2> HIDE DEF n
  <2>1. nameToMem' = Put(nameToMem, a.name, n)
    BY DEF n
  <2>2. QED
    BY <2>1 DEF Put
<1> HIDE DEF n
<1>10. \A i, j \in Idx' : areas'[i].name = areas'[j].name => i = j
  <2>1. \A i \in Idx : areas'[i].name = areas[i].name /\ areas[i].name # a.name
    BY <1>1, <1>8
  <2>2. QED
    BY <1>1, <1>2, <2>1 DEF RegistryInv
<1>11. DOMAIN nameToMem' = {areas'[i].name : i \in Idx'}
  <2>1. {areas'[i].name : i \in Idx'} = {areas[i].name : i \in Idx} \cup {a.name}
    BY <1>1, <1>2
  <2>2. QED
    BY <1>8, <1>9, <2>1
<1>12. \A i \in Idx' : nameToMem'[areas'[i].name] = i
  BY <1>1, <1>2, <1>8, <1>9
<1>13. QED
  BY <1>1, <1>5, <1>6, <1>7, <1>10, <1>11, <1>12 DEF RegistryInv

\* The registry stays consistent.
LEMMA RegistryStep ==
  ASSUME RegistryInv, CallInv, Calls
  PROVE  RegistryInv'
<1>1. CASE \E a \in Areas : RegisterMemoryArea(a)
  <2>1. PICK a \in Areas : RegisterMemoryArea(a)
    BY <1>1
  <2>2. Ready /\ result # "abort"
    BY <2>1 DEF RegisterMemoryArea, Ready
  <2>3. CASE UNCHANGED registryVars
    <3>1. result' # "abort" \/ result # "abort"
      BY <2>2
    <3>2. QED
      BY <2>2, <2>3 DEF RegistryInv, registryVars, Idx
  <2>4. CASE /\ UNCHANGED <<areas, addrToMem>> /\ result' = "abort"
    BY <2>4 DEF RegistryInv, Idx
  <2>5. CASE /\ TopOf(a) >= a.base /\ a.name \notin DOMAIN nameToMem
             /\ Clashes(addrToMem, a.base, TopOf(a)) = {}
             /\ addrToMem' = EmplaceDisjoint(addrToMem, Entry(a.base, TopOf(a), Len(areas) + 1))
             /\ nameToMem' = Put(nameToMem, a.name, Len(areas) + 1)
             /\ areas' = Append(areas, a)
    BY <2>2, <2>5, RegisterAccepted
  <2>6. QED
    BY <2>1, <2>3, <2>4, <2>5 DEF RegisterMemoryArea, registryVars
<1>2. CASE \A a \in Areas : ~RegisterMemoryArea(a)
  <2>1. UNCHANGED registryVars /\ result # "abort"
    BY <1>2, OtherCalls
  <2>2. QED
    BY <2>1 DEF RegistryInv, registryVars, Idx
<1>3. QED
  BY <1>1, <1>2

LEMMA RegistryInvIsConsistent == RegistryInv => RegistryConsistent
<1> SUFFICES ASSUME RegistryInv PROVE RegistryConsistent
  OBVIOUS
<1>1. \A i \in Idx : TopOf(areas[i]) = areas[i].base + SizeBytes(areas[i]) - 1
  BY RegistryRanges
<1>2. {Entry(areas[i].base, TopOf(areas[i]), i) : i \in Idx} =
        {Entry(areas[i].base, areas[i].base + SizeBytes(areas[i]) - 1, i) : i \in Idx}
  BY <1>1
<1>3. addrToMem = {Entry(areas[i].base, areas[i].base + SizeBytes(areas[i]) - 1, i) : i \in Idx}
  BY <1>2 DEF RegistryInv
<1>4. QED
  BY <1>3 DEF RegistryConsistent, RegistryInv

-----------------------------------------------------------------------------
(* Staging. *)

\* What is staged for a name, or nothing.
LEMMA DataIsStaged ==
  ASSUME StagingInv, NEW name
  PROVE  Staged(GetMemoryData(name))
BY EmptyIsStaged DEF GetMemoryData, StagingInv

\* The region that takes a segment is the one area that holds its first byte, and holds its last.
LEMMA RegionHolds ==
  ASSUME RegistryInv, NEW paddr \in 0 .. Lim - 1, NEW size \in 1 .. MaxSize, RegionFits(paddr, size),
         NEW idx, idx = (CHOOSE e \in Find(addrToMem, paddr) : TRUE).val
  PROVE  /\ idx \in Idx /\ areas[idx] \in Areas
         /\ areas[idx].base <= paddr
         /\ paddr + size <= areas[idx].base + SizeBytes(areas[idx])
         /\ areas[idx].base + SizeBytes(areas[idx]) - 1 < Lim
<1>1. Ranges(addrToMem) /\ Disjoint(addrToMem) /\ paddr \in Nat /\ size \in Nat
  BY RegistryRanges, BoundsAssumption
<1>2. Find(addrToMem, paddr) = {e \in addrToMem : e.lo <= paddr /\ paddr <= e.hi}
  BY <1>1, FindIsHolder
<1>3. PICK e \in Find(addrToMem, paddr) :
        SizeBytes(areas[e.val]) > paddr + size - 1 - areas[e.val].base
  BY DEF RegionFits
<1>4. \A f \in Find(addrToMem, paddr) : f = e
  <2> SUFFICES ASSUME NEW f \in Find(addrToMem, paddr) PROVE f = e
    OBVIOUS
  <2>1. /\ e \in addrToMem /\ e.lo <= paddr /\ paddr <= e.hi
        /\ f \in addrToMem /\ f.lo <= paddr /\ paddr <= f.hi
    BY <1>2
  <2>2. f = e \/ f.hi < e.lo \/ e.hi < f.lo
    BY <1>1, <2>1 DEF Disjoint
  <2>3. e.lo \in Nat /\ e.hi \in Nat /\ f.lo \in Nat /\ f.hi \in Nat
    BY <1>1, <2>1 DEF Ranges
  <2>4. QED
    BY <1>1, <2>1, <2>2, <2>3
<1>5. idx = e.val
  BY <1>3, <1>4
<1>6. PICK i \in Idx : e = Entry(areas[i].base, TopOf(areas[i]), i)
  BY <1>2, <1>3 DEF RegistryInv
<1>7. e.lo = areas[i].base /\ e.val = i
  BY <1>6 DEF Entry
<1>8. /\ areas[i] \in Areas /\ areas[i].base + SizeBytes(areas[i]) - 1 < Lim
      /\ areas[i].base \in Nat /\ SizeBytes(areas[i]) \in Nat
  BY RegistryRanges, AreaFacts
<1>9. areas[i].base <= paddr
  BY <1>2, <1>3, <1>7
<1>10. paddr + size <= areas[i].base + SizeBytes(areas[i])
  BY <1>1, <1>3, <1>7, <1>8
<1>11. QED
  BY <1>5, <1>7, <1>8, <1>9, <1>10

\* A segment that StageElf accepts is laid over what is staged for the area it is in.
LEMMA StageSegmentLays ==
  ASSUME RegistryInv, FileInv, StagingInv,
         NEW paddr \in 0 .. Lim - 1, NEW size \in 1 .. MaxSize, StageSegment(paddr, size)
  PROVE  /\ paddr + size - 1 < Lim /\ work + 1 \in 1 .. MaxWork
         /\ \E i \in Idx :
              LET name == areas[i].name
              IN  /\ areas[i] \in Areas
                  /\ areas[i].base <= paddr
                  /\ paddr + size <= areas[i].base + SizeBytes(areas[i])
                  /\ areas[i].base + SizeBytes(areas[i]) - 1 < Lim
                  /\ (paddr - areas[i].base) % areas[i].width = 0
                  /\ DOMAIN staging' = DOMAIN staging \cup {name}
                  /\ \A n \in DOMAIN staging : n # name => staging'[n] = staging[n]
                  /\ Laid(GetMemoryData(name), staging'[name], paddr - areas[i].base, size,
                          Payload(work + 1, size))
<1> DEFINE idx == (CHOOSE e \in Find(addrToMem, paddr) : TRUE).val
           a == areas[idx]
           name == a.name
           off == paddr - a.base
           seg == Payload(work + 1, size)
           after == AddSegment(GetMemoryData(name), off, seg)
<1>1. /\ RegionFits(paddr, size) /\ work < MaxWork /\ off % a.width = 0
      /\ staging' = Put(staging, name, after)
  BY DEF StageSegment
<1>2. paddr + size - 1 < Lim
  BY <1>1 DEF RegionFits
<1>3. work + 1 \in 1 .. MaxWork
  BY <1>1, BoundsAssumption DEF FileInv
<1>4. /\ idx \in Idx /\ a \in Areas /\ a.base <= paddr /\ paddr + size <= a.base + SizeBytes(a)
      /\ a.base + SizeBytes(a) - 1 < Lim
  <2> HIDE DEF idx
  <2>1. idx = (CHOOSE e \in Find(addrToMem, paddr) : TRUE).val
    BY DEF idx
  <2>2. QED
    BY <1>1, <2>1, RegionHolds
<1> HIDE DEF idx
<1>5. /\ a.base \in Nat /\ SizeBytes(a) \in Nat /\ paddr \in Nat /\ size \in Nat \ {0}
      /\ Lim \in Nat
  BY <1>4, AreaFacts, BoundsAssumption
<1>6. off \in Nat /\ off + size - 1 < Lim
  BY <1>2, <1>4, <1>5
<1>7. seg \in Seq(Byte) /\ Len(seg) = size
  BY <1>3, PayloadIsBytes
<1>8. Laid(GetMemoryData(name), after, off, size, seg)
  <2> HIDE DEF off, seg, name
  <2>1. QED
    BY <1>5, <1>6, <1>7, AddSegmentLays, DataIsStaged
<1>9. /\ DOMAIN staging' = DOMAIN staging \cup {name} /\ staging'[name] = after
      /\ \A n \in DOMAIN staging : n # name => staging'[n] = staging[n]
  <2> HIDE DEF after, name
  <2>1. QED
    BY <1>1 DEF Put
<1>10. Laid(GetMemoryData(name), staging'[name], off, size, seg)
  BY <1>8, <1>9
<1>11. QED
  BY <1>1, <1>2, <1>3, <1>4, <1>9, <1>10

LEMMA FileStep ==
  ASSUME RegistryInv, FileInv, StagingInv, Calls
  PROVE  FileInv'
<1> DEFINE S == [paddr : 0 .. Lim - 1, size : 1 .. MaxSize, id : 1 .. MaxWork]
<1>1. work \in Nat /\ File(file)
  BY DEF FileInv, File
<1>2. CASE work' \in Nat /\ file' = <<>>
  BY <1>2, EmptySeq DEF FileInv
<1>3. CASE UNCHANGED <<work, file>>
  BY <1>3 DEF FileInv
<1>4. ASSUME NEW paddr \in 0 .. Lim - 1, NEW size \in 1 .. MaxSize, paddr + size - 1 < Lim,
             work < MaxWork, work' = work + 1,
             file' = Append(file, [paddr |-> paddr, size |-> size, id |-> work + 1])
      PROVE  FileInv'
  <2> DEFINE s == [paddr |-> paddr, size |-> size, id |-> work + 1]
  <2>1. s \in S /\ s.paddr + s.size - 1 < Lim /\ work + 1 \in Nat
    BY <1>1, <1>4, BoundsAssumption
  <2>2. file \in Seq(S) /\ file' = Append(file, s)
    BY <1>1, <1>4 DEF File
  <2> HIDE DEF S, s
  <2>3. /\ file' \in Seq(S) /\ Len(file') = Len(file) + 1 /\ Len(file) \in Nat
        /\ \A i \in 1 .. Len(file) : file'[i] = file[i]
        /\ file'[Len(file) + 1] = s
    BY <2>1, <2>2, AppendProperties, LenProperties
  <2>4. DOMAIN file' = 1 .. Len(file) + 1 /\ DOMAIN file = 1 .. Len(file)
    BY <2>2, <2>3, LenProperties
  <2>5. ASSUME NEW i \in DOMAIN file' PROVE file'[i].paddr + file'[i].size - 1 < Lim
    <3>1. CASE i \in DOMAIN file
      BY <1>1, <2>3, <2>4, <3>1 DEF File
    <3>2. CASE i = Len(file) + 1
      BY <2>1, <2>3, <3>2
    <3>3. QED
      BY <2>3, <2>4, <3>1, <3>2
  <2>6. QED
    BY <1>4, <2>1, <2>3, <2>5 DEF FileInv, S
<1>5. CASE \E a \in Areas : RegisterMemoryArea(a)
  BY <1>3, <1>5 DEF RegisterMemoryArea
<1>6. CASE \E c \in {"stage", "load"} : StageElf(c)
  BY <1>1, <1>2, <1>6 DEF StageElf
<1>7. ASSUME NEW paddr \in 0 .. Lim - 1, NEW size \in 1 .. MaxSize,
             StageSegment(paddr, size) \/ FlattenSegment(paddr, size)
      PROVE  FileInv'
  BY <1>4, <1>7 DEF StageSegment, FlattenSegment, RegionFits
<1>8. CASE StageRejects \/ StageDone \/ LoadDone \/ FlattenRejects
  BY <1>3, <1>8 DEF StageRejects, StageDone, LoadDone, FlattenRejects, Throw
<1>9. CASE LoadSegment
  BY <1>3, <1>9 DEF LoadSegment, Throw
<1>10. CASE \E a \in Areas, type \in {"elf", "vmem", "unknown"} : LoadFileToNamedMem(a.name, type)
  BY <1>1, <1>2, <1>10 DEF LoadFileToNamedMem
<1>11. CASE FlattenWrite
  BY <1>3, <1>11 DEF FlattenWrite, Throw
<1>12. QED
  BY <1>5, <1>6, <1>7, <1>8, <1>9, <1>10, <1>11 DEF Calls

\* A call ends with its result.
LEMMA CallStep ==
  ASSUME RegistryInv, CallInv, Calls
  PROVE  CallInv'
<1>1. CASE \E a \in Areas : RegisterMemoryArea(a)
  BY <1>1 DEF RegisterMemoryArea, Ready, CallInv
<1>2. CASE \A a \in Areas : ~RegisterMemoryArea(a)
  <2>1. UNCHANGED areas /\ Idx' = Idx
    BY <1>2, OtherCalls DEF registryVars, Idx
  <2>2. CASE \E c \in {"stage", "load"} : StageElf(c)
    BY <2>2 DEF StageElf, CallInv
  <2>3. CASE \E paddr \in 0 .. Lim - 1, size \in 1 .. MaxSize :
               StageSegment(paddr, size) \/ FlattenSegment(paddr, size)
    BY <2>1, <2>3 DEF StageSegment, FlattenSegment, CallInv
  <2>4. CASE StageRejects \/ LoadDone \/ FlattenRejects
    BY <2>4 DEF StageRejects, LoadDone, FlattenRejects, Throw, CallInv
  <2>5. CASE StageDone
    BY <2>5 DEF StageDone, CallInv
  <2>6. CASE LoadSegment
    BY <2>1, <2>6 DEF LoadSegment, Throw, CallInv
  <2>7. ASSUME NEW a \in Areas, NEW type \in {"elf", "vmem", "unknown"},
               LoadFileToNamedMem(a.name, type)
        PROVE  CallInv'
    <3>1. pc = "idle" /\ result # "abort" /\ call' = type
      BY <2>7 DEF LoadFileToNamedMem, Ready
    <3>2. CASE pc' = pc
      BY <3>1, <3>2 DEF CallInv
    <3>3. CASE /\ pc' = "flattening" /\ result' = "none" /\ type = "elf"
               /\ a.name \in DOMAIN nameToMem /\ target' = nameToMem[a.name]
      <4>1. PICK i \in Idx : a.name = areas[i].name
        BY <3>1, <3>3 DEF RegistryInv
      <4>2. target' = i
        BY <3>1, <3>3, <4>1 DEF RegistryInv
      <4>3. QED
        BY <2>1, <3>1, <3>3, <4>2 DEF CallInv
    <3>4. QED
      BY <2>7, <3>2, <3>3 DEF LoadFileToNamedMem
  <2>8. CASE FlattenWrite
    BY <2>8 DEF FlattenWrite, Throw, CallInv
  <2>9. QED
    BY <1>2, <2>2, <2>3, <2>4, <2>5, <2>6, <2>7, <2>8 DEF Calls
<1>3. QED
  BY <1>1, <1>2

\* What is staged stays staged well.
LEMMA StagingStep ==
  ASSUME RegistryInv, CallInv, FileInv, StagingInv, Calls
  PROVE  StagingInv'
<1> DEFINE Names == {areas[i].name : i \in Idx}
           Todo == UNION {{<<n, e>> : e \in staging[n].segs} : n \in DOMAIN staging}
<1>1. CASE \E a \in Areas : RegisterMemoryArea(a)
  <2>1. PICK a \in Areas : RegisterMemoryArea(a)
    BY <1>1
  <2>2. UNCHANGED <<staging, pc>> /\ pc = "idle"
    BY <2>1 DEF RegisterMemoryArea, Ready
  <2>3. Names \subseteq Names'
    <3>1. CASE UNCHANGED areas
      BY <3>1 DEF Idx
    <3>2. CASE areas' = Append(areas, a)
      <4>1. /\ Idx = 1 .. Len(areas) /\ Len(areas) \in Nat /\ Len(areas') = Len(areas) + 1
            /\ \A i \in Idx : areas'[i] = areas[i]
        BY <3>2, AreasAppend DEF RegistryInv
      <4>2. \A i \in Idx : i \in Idx' /\ areas'[i].name = areas[i].name
        BY <4>1 DEF Idx
      <4>3. QED
        BY <4>2
    <3>3. QED
      BY <2>1, <3>1, <3>2 DEF RegisterMemoryArea, registryVars
  <2>4. QED
    BY <2>2, <2>3 DEF StagingInv
<1>2. CASE \A a \in Areas : ~RegisterMemoryArea(a)
  <2>1. UNCHANGED areas /\ Names' = Names
    BY <1>2, OtherCalls DEF registryVars, Idx
  <2>2. CASE \E c \in {"stage", "load"} : StageElf(c)
    <3>1. staging' = << >> /\ pc' = "staging"
      BY <2>2 DEF StageElf
    <3>2. DOMAIN staging' = {}
      BY <3>1
    <3>3. QED
      BY <3>1, <3>2 DEF StagingInv
  <2>3. ASSUME NEW paddr \in 0 .. Lim - 1, NEW size \in 1 .. MaxSize, StageSegment(paddr, size)
        PROVE  StagingInv'
    <3>1. pc' = "staging"
      BY <2>3 DEF StageSegment
    <3>2. PICK i \in Idx :
            /\ DOMAIN staging' = DOMAIN staging \cup {areas[i].name}
            /\ \A n \in DOMAIN staging : n # areas[i].name => staging'[n] = staging[n]
            /\ Staged(staging'[areas[i].name])
      BY <2>3, StageSegmentLays DEF Laid
    <3>3. DOMAIN staging' \subseteq Names
      BY <3>2 DEF StagingInv
    <3>4. \A n \in DOMAIN staging' : Staged(staging'[n])
      BY <3>2 DEF StagingInv
    <3>5. QED
      BY <2>1, <3>1, <3>3, <3>4 DEF StagingInv
  <2>4. CASE UNCHANGED staging /\ (pc' = "loading" => todo' \subseteq Todo)
    BY <2>1, <2>4 DEF StagingInv
  <2>5. CASE StageDone
    <3>1. UNCHANGED staging /\ (pc' = "loading" => todo' \subseteq Todo)
      BY <2>5 DEF StageDone
    <3>2. QED
      BY <2>4, <3>1
  <2>6. CASE LoadSegment
    <3>1. UNCHANGED staging /\ todo' \subseteq todo /\ pc = "loading"
      BY <2>6 DEF LoadSegment, Throw
    <3>2. QED
      BY <2>4, <3>1 DEF StagingInv
  <2>7. CASE \E paddr \in 0 .. Lim - 1, size \in 1 .. MaxSize : FlattenSegment(paddr, size)
    BY <2>4, <2>7 DEF FlattenSegment
  <2>8. CASE StageRejects \/ LoadDone \/ FlattenRejects \/ FlattenWrite
    BY <2>4, <2>8 DEF StageRejects, LoadDone, FlattenRejects, FlattenWrite, Throw
  <2>9. CASE \E a \in Areas, type \in {"elf", "vmem", "unknown"} : LoadFileToNamedMem(a.name, type)
    BY <2>4, <2>9 DEF LoadFileToNamedMem, Ready
  <2>10. QED
    BY <1>2, <2>2, <2>3, <2>5, <2>6, <2>7, <2>8, <2>9 DEF Calls
<1>3. QED
  BY <1>1, <1>2

\* What the file f puts at address a: one byte, or nothing.
ImagePart(f, a) == IF Covered(f, a) THEN {ImageByte(f, a)} ELSE {}

LEMMA ImagePartAppend ==
  ASSUME NEW f, File(f), NEW s, File(Append(f, s)), s.id \in Nat \ {0}, NEW a
  PROVE  ImagePart(Append(f, s), a) = IF s.paddr <= a /\ a < s.paddr + s.size
                                      THEN {<<s.id, a - s.paddr + 1>>} ELSE ImagePart(f, a)
<1>1. ImageByte(Append(f, s), a) = IF s.paddr <= a /\ a < s.paddr + s.size
                                   THEN <<s.id, a - s.paddr + 1>> ELSE ImageByte(f, a)
  BY ImageOfAppend
<1>2. CASE s.paddr <= a /\ a < s.paddr + s.size
  <2>1. ImageByte(Append(f, s), a) = <<s.id, a - s.paddr + 1>>
    BY <1>1, <1>2
  <2>2. ImageByte(Append(f, s), a) # Zero
    BY <2>1 DEF Zero
  <2>3. QED
    BY <1>2, <2>1, <2>2 DEF ImagePart, Covered
<1>3. CASE ~(s.paddr <= a /\ a < s.paddr + s.size)
  BY <1>1, <1>3 DEF ImagePart, Covered
<1>4. QED
  BY <1>2, <1>3

\* The image of no file is nothing.
LEMMA EmptyImage == \A a : ImagePart(<<>>, a) = {}
<1> SUFFICES ASSUME NEW a PROVE ImagePart(<<>>, a) = {}
  OBVIOUS
<1>1. {i \in DOMAIN <<>> : <<>>[i].paddr <= a /\ a < <<>>[i].paddr + <<>>[i].size} = {}
  OBVIOUS
<1>2. ImageByte(<<>>, a) = Zero
  BY <1>1 DEF ImageByte
<1>3. QED
  BY <1>2 DEF ImagePart, Covered

LEMMA StagedIsImageAsBytes ==
  StagedIsImage <=>
    (call \in {"stage", "load"} =>
       \A i \in Idx : \A k \in 0 .. SizeBytes(areas[i]) - 1 :
         Bytes(GetMemoryData(areas[i].name).segs, k) = ImagePart(file, areas[i].base + k))
BY DEF StagedIsImage, Bytes, At, Holds, ImagePart

LEMMA StagedIsImageAsBytesPrimed ==
  StagedIsImage' <=>
    (call' \in {"stage", "load"} =>
       \A i \in Idx' : \A k \in 0 .. SizeBytes(areas'[i]) - 1 :
         Bytes(GetMemoryData(areas[i].name)'.segs, k) = ImagePart(file', areas'[i].base + k))
BY DEF StagedIsImage, Bytes, At, Holds, ImagePart, GetMemoryData

\* No address belongs to two areas.
LEMMA AreasApart ==
  ASSUME RegistryInv, NEW i \in Idx, NEW j \in Idx, i # j
  PROVE  \/ areas[i].base + SizeBytes(areas[i]) - 1 < areas[j].base
         \/ areas[j].base + SizeBytes(areas[j]) - 1 < areas[i].base
<1> DEFINE e == Entry(areas[i].base, TopOf(areas[i]), i)
           f == Entry(areas[j].base, TopOf(areas[j]), j)
<1>1. e \in addrToMem /\ f \in addrToMem /\ Disjoint(addrToMem)
  BY RegistryRanges
<1>2. e = f \/ e.hi < f.lo \/ f.hi < e.lo
  <2> HIDE DEF e, f
  <2>1. QED
    BY <1>1 DEF Disjoint
<1>3. /\ e.lo = areas[i].base /\ e.hi = TopOf(areas[i]) /\ e.val = i
      /\ f.lo = areas[j].base /\ f.hi = TopOf(areas[j]) /\ f.val = j
  BY DEF Entry
<1>4. /\ TopOf(areas[i]) = areas[i].base + SizeBytes(areas[i]) - 1
      /\ TopOf(areas[j]) = areas[j].base + SizeBytes(areas[j]) - 1
  BY RegistryRanges
<1> HIDE DEF e, f
<1>5. QED
  BY <1>2, <1>3, <1>4

\* A segment more in the file is a segment more in the staging area.
LEMMA StageSegmentIsImage ==
  ASSUME RegistryInv, FileInv, FileInv', StagingInv, StagedIsImage, CallInv,
         NEW paddr \in 0 .. Lim - 1, NEW size \in 1 .. MaxSize, StageSegment(paddr, size)
  PROVE  StagedIsImage'
<1> DEFINE s == [paddr |-> paddr, size |-> size, id |-> work + 1]
           seg == Payload(work + 1, size)
           Data(i) == GetMemoryData(areas[i].name).segs
           Data1(i) == GetMemoryData(areas[i].name)'.segs
<1>1. /\ file' = Append(file, s) /\ UNCHANGED areas /\ call \in {"stage", "load"}
  BY DEF StageSegment, registryVars, CallInv
<1>2. File(file) /\ File(Append(file, s))
  <2>1. File(file')
    BY DEF FileInv, File
  <2>2. QED
    BY <1>1, <2>1 DEF FileInv, File
<1>3. ASSUME NEW i \in Idx, NEW k \in 0 .. SizeBytes(areas[i]) - 1
      PROVE  Bytes(Data(i), k) = ImagePart(file, areas[i].base + k)
  BY <1>1, StagedIsImageAsBytes
<1>4. PICK i0 \in Idx :
        /\ areas[i0].base <= paddr
        /\ paddr + size <= areas[i0].base + SizeBytes(areas[i0])
        /\ DOMAIN staging' = DOMAIN staging \cup {areas[i0].name}
        /\ \A n \in DOMAIN staging : n # areas[i0].name => staging'[n] = staging[n]
        /\ Laid(GetMemoryData(areas[i0].name), staging'[areas[i0].name], paddr - areas[i0].base, size, seg)
  BY StageSegmentLays
<1>5. work + 1 \in 1 .. MaxWork /\ paddr \in Nat /\ size \in Nat \ {0} /\ work + 1 \in Nat \ {0}
  BY StageSegmentLays, BoundsAssumption
<1>6. ASSUME NEW a
      PROVE  ImagePart(file', a) = IF paddr <= a /\ a < paddr + size
                                   THEN {<<work + 1, a - paddr + 1>>} ELSE ImagePart(file, a)
  <2>1. s.paddr = paddr /\ s.size = size /\ s.id = work + 1
    OBVIOUS
  <2> HIDE DEF s
  <2>2. QED
    BY <1>1, <1>2, <1>5, <2>1, ImagePartAppend
<1> HIDE DEF s
<1>7. ASSUME NEW i \in Idx
      PROVE  areas[i].base \in Nat /\ SizeBytes(areas[i]) \in Nat
  BY RegistryRanges, AreaFacts
<1>8. ASSUME NEW k \in 0 .. SizeBytes(areas[i0]) - 1
      PROVE  Bytes(Data1(i0), k) = ImagePart(file', areas[i0].base + k)
  <2> DEFINE base == areas[i0].base
             off == paddr - base
  <2>1. /\ k \in Nat /\ base \in Nat /\ off \in Nat
        /\ off <= k /\ k <= off + size - 1 <=> paddr <= base + k /\ base + k < paddr + size
        /\ off <= k /\ k <= off + size - 1 =>
             k - off + 1 \in 1 .. size /\ k - off + 1 = (base + k) - paddr + 1
    BY <1>4, <1>5, <1>7
  <2>2. Data1(i0) = staging'[areas[i0].name].segs
    BY <1>1, <1>4 DEF GetMemoryData
  <2>3. Bytes(staging'[areas[i0].name].segs, k) =
          IF off <= k /\ k <= off + size - 1 THEN {seg[k - off + 1]} ELSE Bytes(Data(i0), k)
    BY <1>4, <2>1 DEF Laid
  <2>4. Bytes(Data(i0), k) = ImagePart(file, base + k)
    BY <1>3
  <2>5. off <= k /\ k <= off + size - 1 => seg[k - off + 1] = <<work + 1, k - off + 1>>
    BY <1>5, <2>1, PayloadIsBytes
  <2> HIDE DEF off, base, Data1, Data, seg
  <2>6. CASE off <= k /\ k <= off + size - 1
    <3>1. Bytes(Data1(i0), k) = {seg[k - off + 1]}
      BY <2>2, <2>3, <2>6
    <3>2. seg[k - off + 1] = <<work + 1, (base + k) - paddr + 1>>
      BY <2>1, <2>5, <2>6
    <3>3. ImagePart(file', base + k) = {<<work + 1, (base + k) - paddr + 1>>}
      BY <1>6, <2>1, <2>6
    <3>4. QED
      BY <3>1, <3>2, <3>3 DEF base
  <2>7. CASE ~(off <= k /\ k <= off + size - 1)
    <3>1. Bytes(Data1(i0), k) = ImagePart(file, base + k)
      BY <2>2, <2>3, <2>4, <2>7
    <3>2. ImagePart(file', base + k) = ImagePart(file, base + k)
      BY <1>6, <2>1, <2>7
    <3>3. QED
      BY <3>1, <3>2 DEF base
  <2>8. QED
    BY <2>6, <2>7
<1>9. ASSUME NEW i \in Idx, i # i0, NEW k \in 0 .. SizeBytes(areas[i]) - 1
      PROVE  Bytes(Data1(i), k) = ImagePart(file', areas[i].base + k)
  <2>1. areas[i].name # areas[i0].name
    BY <1>9 DEF RegistryInv
  <2>2. Data1(i) = Data(i)
    BY <1>1, <1>4, <2>1 DEF GetMemoryData
  <2>3. \/ areas[i].base + SizeBytes(areas[i]) - 1 < areas[i0].base
        \/ areas[i0].base + SizeBytes(areas[i0]) - 1 < areas[i].base
    BY <1>9, AreasApart
  <2>4. ~(paddr <= areas[i].base + k /\ areas[i].base + k < paddr + size)
    BY <1>4, <1>5, <1>7, <2>3
  <2>5. ImagePart(file', areas[i].base + k) = ImagePart(file, areas[i].base + k)
    BY <1>6, <2>4
  <2>6. Bytes(Data(i), k) = ImagePart(file, areas[i].base + k)
    BY <1>3
  <2> HIDE DEF Data, Data1
  <2>7. QED
    BY <2>2, <2>5, <2>6
<1>10. \A i \in Idx' : \A k \in 0 .. SizeBytes(areas'[i]) - 1 :
         Bytes(Data1(i), k) = ImagePart(file', areas'[i].base + k)
  <2>1. Idx' = Idx /\ areas' = areas
    BY <1>1 DEF Idx
  <2> HIDE DEF Data1
  <2>2. QED
    BY <1>8, <1>9, <2>1
<1>11. QED
  BY <1>10, StagedIsImageAsBytesPrimed

\* The staging area holds the image of the segments accepted so far.
LEMMA StagedIsImageStep ==
  ASSUME RegistryInv, CallInv, FileInv, FileInv', StagingInv, StagedIsImage, Calls
  PROVE  StagedIsImage'
<1>1. CASE call' \notin {"stage", "load"}
  BY <1>1 DEF StagedIsImage
<1>2. CASE UNCHANGED <<staging, file, areas, call>>
  BY <1>2 DEF StagedIsImage, GetMemoryData, Idx
<1>3. CASE \E c \in {"stage", "load"} : StageElf(c)
  <2>1. staging' = << >> /\ file' = <<>>
    BY <1>3 DEF StageElf
  <2>2. \A n : GetMemoryData(n)' = EmptyStaged
    BY <2>1 DEF GetMemoryData
  <2>3. \A i, k : Bytes(GetMemoryData(areas[i].name)'.segs, k) = {}
    <3>1. \A i : GetMemoryData(areas[i].name)' = EmptyStaged
      BY <2>1 DEF GetMemoryData
    <3>2. QED
      BY <3>1, EmptyIsStaged
  <2>4. \A a : ImagePart(file', a) = {}
    BY <2>1, EmptyImage
  <2>5. QED
    BY <2>3, <2>4, StagedIsImageAsBytesPrimed
<1>4. CASE \E a \in Areas : RegisterMemoryArea(a)
  BY <1>1, <1>4 DEF RegisterMemoryArea
<1>5. ASSUME NEW paddr \in 0 .. Lim - 1, NEW size \in 1 .. MaxSize,
             StageSegment(paddr, size) \/ FlattenSegment(paddr, size)
      PROVE  StagedIsImage'
  <2>1. CASE StageSegment(paddr, size)
    BY <2>1, StageSegmentIsImage
  <2>2. CASE FlattenSegment(paddr, size)
    BY <1>1, <2>2 DEF FlattenSegment, CallInv
  <2>3. QED
    BY <1>5, <2>1, <2>2
<1>6. CASE StageRejects \/ LoadDone
  BY <1>2, <1>6 DEF StageRejects, LoadDone, Throw, registryVars
<1>7. CASE StageDone
  BY <1>2, <1>7 DEF StageDone, registryVars
<1>8. CASE LoadSegment
  BY <1>2, <1>8 DEF LoadSegment, Throw, registryVars
<1>9. CASE \E a \in Areas, type \in {"elf", "vmem", "unknown"} : LoadFileToNamedMem(a.name, type)
  BY <1>1, <1>9 DEF LoadFileToNamedMem
<1>10. CASE FlattenRejects \/ FlattenWrite
  BY <1>1, <1>10 DEF FlattenRejects, FlattenWrite, Throw, CallInv
<1>11. QED
  BY <1>3, <1>4, <1>5, <1>6, <1>7, <1>8, <1>9, <1>10 DEF Calls

-----------------------------------------------------------------------------
(* The memories. *)

\* Quotient and remainder.
LEMMA DivFacts ==
  ASSUME NEW x \in Nat, NEW w \in Nat \ {0}
  PROVE  /\ x \div w \in Nat /\ x % w \in 0 .. w - 1
         /\ (x \div w) * w + (x % w) = x
OBVIOUS

\* A byte of a vector is in one of its words, the last one may be incomplete.
LEMMA LastWord ==
  ASSUME NEW k \in Nat, NEW len \in Nat, k < len, NEW w \in Nat \ {0}
  PROVE  k \div w < (len + w - 1) \div w
<1> DEFINE q == k \div w
           n == (len + w - 1) \div w
<1>1. q \in Nat /\ q * w <= k
  BY DivFacts
<1>2. len + w - 1 \in Nat
  OBVIOUS
<1>3. n \in Nat /\ n * w + ((len + w - 1) % w) = len + w - 1 /\ (len + w - 1) % w \in 0 .. w - 1
  BY <1>2, DivFacts
<1> HIDE DEF q, n
<1>4. len + w - 1 < n * w + w
  BY <1>3
<1>5. q * w < n * w
  BY <1>1, <1>3, <1>4
<1>6. q < n
  <2> SUFFICES ASSUME n <= q PROVE FALSE
    BY <1>1, <1>3
  <2>1. PICK d \in Nat : q = n + d
    BY <1>1, <1>3
  <2>2. q * w = n * w + d * w
    BY <1>3, <2>1
  <2>3. QED
    BY <1>1, <1>3, <1>5, <2>2
<1>7. QED
  BY <1>6 DEF q, n

\* A word of a memory holds bytes of the memory.
LEMMA WordInMemory ==
  ASSUME NEW k \in Nat, NEW off \in Nat, NEW w \in Nat \ {0}, NEW m \in Nat,
         off + k \div w < m \div w
  PROVE  off * w + k < m
<1> DEFINE q == k \div w
           n == m \div w
           d == n - (off + q + 1)
<1>1. q \in Nat /\ k < q * w + w
  BY DivFacts
<1>2. n \in Nat /\ n * w <= m
  BY DivFacts
<1>3. d \in Nat /\ n = off + q + 1 + d
  BY <1>1, <1>2
<1> HIDE DEF q, n, d
<1>4. n * w = off * w + q * w + w + d * w
  BY <1>1, <1>3
<1>5. off * w \in Nat /\ q * w \in Nat /\ d * w \in Nat
  BY <1>1, <1>3
<1>6. QED
  BY <1>1, <1>2, <1>4, <1>5

MemTyped(m) == /\ DOMAIN m = DOMAIN Memories
               /\ \A at \in DOMAIN Memories : m[at] \in [0 .. Memories[at] - 1 -> Byte]

\* A write leaves bytes behind, whatever it is refused.
LEMMA WriteTyped ==
  ASSUME MemTyped(mem), NEW a \in Areas, NEW off \in Nat, NEW data \in Seq(Byte), NEW refused,
         Write(a, off, data, refused)
  PROVE  MemTyped(mem')
<1>1. CASE ~ScopesExist(a)
  BY <1>1 DEF Write
<1>2. CASE ScopesExist(a)
  <2> DEFINE at == Instance(a)
             n == WordsOut(off, data, a)
  <2>1. PICK pad \in {Zero, Junk} :
          mem' = [mem EXCEPT ![at] = Written(mem[at], a, off, n, data, pad)]
    BY <1>2 DEF Write
  <2>2. at \in DOMAIN Memories /\ mem[at] \in [0 .. Memories[at] - 1 -> Byte]
    BY <1>2 DEF ScopesExist, MemTyped
  <2>3. off * a.width \in Nat
    BY AreaFacts
  <2>4. ASSUME NEW k \in Nat PROVE Padded(data, k, a, pad) \in Byte
    <3>1. Zero \in Byte /\ Junk \in Byte
      BY DEF Byte
    <3>2. CASE k < Len(data)
      <4>1. k + 1 \in 1 .. Len(data)
        BY <3>2, LenProperties
      <4>2. data[k + 1] \in Byte
        BY <4>1, ElementOfSeq
      <4>3. QED
        BY <3>2, <4>2 DEF Padded
    <3>3. CASE ~(k < Len(data))
      BY <3>1, <3>3 DEF Padded
    <3>4. QED
      BY <3>2, <3>3
  <2>5. Written(mem[at], a, off, n, data, pad) \in [0 .. Memories[at] - 1 -> Byte]
    <3> DEFINE w == Written(mem[at], a, off, n, data, pad)
    <3> SUFFICES ASSUME NEW k \in 0 .. Memories[at] - 1
                 PROVE  (IF off * a.width <= k /\ k < (off + n) * a.width
                         THEN Padded(data, k - off * a.width, a, pad) ELSE mem[at][k]) \in Byte
      <4>1. DOMAIN mem[at] = 0 .. Memories[at] - 1
        BY <2>2
      <4>2. QED
        BY <4>1 DEF Written
    <3>1. CASE off * a.width <= k /\ k < (off + n) * a.width
      <4>1. k - off * a.width \in Nat
        BY <2>2, <2>3, <3>1, MemoriesAssumption
      <4>2. QED
        BY <2>4, <3>1, <4>1
    <3>2. CASE ~(off * a.width <= k /\ k < (off + n) * a.width)
      BY <2>2, <3>2
    <3>3. QED
      BY <3>1, <3>2
  <2> HIDE DEF at, n
  <2>6. QED
    BY <2>1, <2>2, <2>5 DEF MemTyped
<1>3. QED
  BY <1>1, <1>2

\* If no word is refused, all words are there.
LEMMA AllWordsOut ==
  ASSUME NEW a \in Areas, NEW off \in Nat, NEW data \in Seq(Byte),
         ~(WordsOut(off, data, a) < DataWords(data, a))
  PROVE  /\ DataWords(data, a) \in Nat /\ WordsOut(off, data, a) = DataWords(data, a)
         /\ \A k \in 0 .. DataWords(data, a) - 1 : Reachable(a, off + k)
<1> DEFINE n == DataWords(data, a)
           S == 0 .. n - 1
           T == {k \in S : Reachable(a, off + k)}
<1>1. n \in Nat
  <2>1. Len(data) + a.width - 1 \in Nat /\ a.width \in Nat \ {0}
    BY AreaFacts, LenProperties
  <2>2. QED
    BY <2>1, DivFacts DEF DataWords
<1>2. ~(Cardinality(T) < n)
  BY DEF WordsOut
<1> HIDE DEF n
<1>3. IsFiniteSet(S) /\ Cardinality(S) = n
  <2>1. 0 \in Int /\ n - 1 \in Int
    BY <1>1
  <2>2. IsFiniteSet(S) /\ Cardinality(S) = IF 0 > n - 1 THEN 0 ELSE (n - 1) - 0 + 1
    BY <2>1, FS_Interval
  <2>3. QED
    BY <1>1, <2>2
<1>4. T \in SUBSET S
  OBVIOUS
<1> HIDE DEF S, T
<1>5. /\ IsFiniteSet(T) /\ Cardinality(T) <= Cardinality(S)
      /\ Cardinality(S) = Cardinality(T) => S = T
  BY <1>3, <1>4, FS_Subset
<1>6. Cardinality(T) \in Nat
  BY <1>5, FS_CardinalityType
<1>7. Cardinality(T) = n /\ S = T
  BY <1>1, <1>2, <1>3, <1>5, <1>6
<1>8. \A k \in S : Reachable(a, off + k)
  BY <1>7 DEF T
<1>9. WordsOut(off, data, a) = Cardinality(T)
  BY DEF WordsOut, T, S, n
<1>10. QED
  BY <1>1, <1>7, <1>8, <1>9 DEF S, n

\* A write that is not refused leaves the data in the memory.
LEMMA WriteLands ==
  ASSUME MemTyped(mem), NEW a \in Areas, NEW off \in Nat, NEW data \in Seq(Byte),
         Write(a, off, data, FALSE)
  PROVE  \A k \in Nat : k < Len(data) =>
           /\ Instance(a) \in DOMAIN Memories /\ off * a.width + k < Memories[Instance(a)]
           /\ mem'[Instance(a)][off * a.width + k] = data[k + 1]
<1> SUFFICES ASSUME NEW k \in Nat, k < Len(data)
             PROVE  /\ Instance(a) \in DOMAIN Memories
                    /\ off * a.width + k < Memories[Instance(a)]
                    /\ mem'[Instance(a)][off * a.width + k] = data[k + 1]
  OBVIOUS
<1> DEFINE at == Instance(a)
           n == DataWords(data, a)
           w == a.width
           at0 == off * w
<1>1. ~(WordsOut(off, data, a) < n)
  BY DEF Write
<1>2. /\ n \in Nat /\ WordsOut(off, data, a) = n /\ \A i \in 0 .. n - 1 : Reachable(a, off + i)
  BY <1>1, AllWordsOut
<1>3. w \in Nat \ {0} /\ Len(data) \in Nat
  BY AreaFacts, LenProperties
<1>4. k \div w \in 0 .. n - 1 /\ k \div w \in Nat
  <2>1. k \div w \in Nat
    BY <1>3, DivFacts
  <2>2. k \div w < n
    <3> HIDE DEF w
    <3>1. k \div w < (Len(data) + w - 1) \div w
      BY <1>3, LastWord
    <3>2. QED
      BY <3>1 DEF w, DataWords
  <2>3. QED
    BY <1>2, <2>1, <2>2
<1>5. /\ ScopesExist(a) /\ at \in DOMAIN Memories
      /\ off + k \div w < Memories[at] \div w
  BY <1>2, <1>4 DEF Reachable, ScopesExist
<1>6. Memories[at] \in Nat
  BY <1>5, MemoriesAssumption
<1> HIDE DEF w, n, at
<1>7. at0 + k < Memories[at] /\ at0 \in Nat
  <2>1. off * w + k < Memories[at]
    BY <1>3, <1>5, <1>6, WordInMemory, Zenon
  <2>2. QED
    BY <1>3, <2>1
<1>8. k < n * w
  <2>1. (k \div w) * w + (k % w) = k /\ (k % w) \in 0 .. w - 1
    BY <1>3, DivFacts
  <2>2. PICK q \in Nat, d \in Nat : q = k \div w /\ n = q + 1 + d
    <3>1. n - (k \div w + 1) \in Nat /\ n = k \div w + 1 + (n - (k \div w + 1))
      BY <1>2, <1>4
    <3>2. QED
      BY <1>4, <3>1
  <2>3. n * w = q * w + w + d * w /\ d * w \in Nat /\ q * w \in Nat
    BY <1>3, <2>2
  <2>4. k < q * w + w
    BY <1>3, <2>1, <2>2
  <2>5. QED
    BY <1>3, <2>3, <2>4
<1>9. (off + n) * w = at0 + n * w /\ n * w \in Nat
  BY <1>2, <1>3
<1>10. at0 <= at0 + k /\ at0 + k < (off + n) * w /\ (at0 + k) - at0 = k
  BY <1>7, <1>8, <1>9
<1>11. PICK pad \in {Zero, Junk} :
         mem' = [mem EXCEPT ![at] = Written(mem[at], a, off, n, data, pad)]
  BY <1>2, <1>5 DEF Write, at
<1>12. mem[at] \in [0 .. Memories[at] - 1 -> Byte] /\ at \in DOMAIN mem
  BY <1>5 DEF MemTyped
<1>13. mem'[at] = Written(mem[at], a, off, n, data, pad)
  BY <1>11, <1>12
<1>14. at0 + k \in DOMAIN mem[at]
  BY <1>6, <1>7, <1>12
<1>15. Written(mem[at], a, off, n, data, pad)[at0 + k] = Padded(data, (at0 + k) - at0, a, pad)
  <2>1. \A j \in DOMAIN mem[at] :
          Written(mem[at], a, off, n, data, pad)[j] =
            IF at0 <= j /\ j < (off + n) * w THEN Padded(data, j - at0, a, pad) ELSE mem[at][j]
    BY DEF Written, w
  <2> HIDE DEF at0
  <2>2. QED
    BY <1>10, <1>14, <2>1
<1>16. Padded(data, k, a, pad) = data[k + 1]
  BY DEF Padded
<1>17. QED
  BY <1>5, <1>7, <1>10, <1>13, <1>15, <1>16 DEF at, w

\* The next segment to load is a staged one, of a registered memory.
LEMMA NextIsStaged ==
  ASSUME RegistryInv, StagingInv, result # "abort", pc = "loading", todo # {}
  PROVE  /\ NextTodo[2].lo \in Nat /\ NextTodo[2].val \in Seq(Byte)
         /\ nameToMem[NextTodo[1]] \in Idx
         /\ LET name == areas[nameToMem[NextTodo[1]]].name
            IN  /\ NextTodo \in todo /\ NextTodo = <<name, NextTodo[2]>>
                /\ name \in DOMAIN staging /\ NextTodo[2] \in staging[name].segs
                /\ Segment(NextTodo[2])
                /\ \A u \in todo : u[1] = name => NextTodo[2].lo <= u[2].lo
<1>1. ASSUME NEW t \in todo
      PROVE  /\ t[1] \in Nat /\ Segment(t[2]) /\ t[2].lo \in Nat
             /\ \E i \in Idx : t[1] = areas[i].name
             /\ t = <<t[1], t[2]>> /\ t[1] \in DOMAIN staging /\ t[2] \in staging[t[1]].segs
  <2>1. PICK n \in DOMAIN staging : \E e \in staging[n].segs : t = <<n, e>>
    BY DEF StagingInv
  <2>2. PICK e \in staging[n].segs : t = <<n, e>>
    BY <2>1
  <2>3. PICK i \in Idx : n = areas[i].name
    BY DEF StagingInv
  <2>4. n \in Nat
    BY <2>3, RegistryRanges, AreaFacts
  <2>5. Segment(e)
    BY <2>2, SegmentsFacts DEF StagingInv, Staged
  <2>6. QED
    BY <2>2, <2>3, <2>4, <2>5, SegmentFacts
<1>2. PICK n \in {t[1] : t \in todo} : \A m \in {t[1] : t \in todo} : n <= m
  <2> DEFINE T == {t[1] : t \in todo}
  <2>1. T \subseteq Nat /\ T # {}
    BY <1>1
  <2> HIDE DEF T
  <2>2. \E x \in T : \A y \in T : x <= y
    BY <2>1, LeastNatural
  <2>3. QED
    BY <2>2 DEF T
<1> DEFINE Of == {t \in todo : t[1] = n}
<1>3. Of # {} /\ Of \subseteq todo
  BY <1>2
<1>4. PICK lo \in {t[2].lo : t \in Of} : \A m \in {t[2].lo : t \in Of} : lo <= m
  <2> DEFINE T == {t[2].lo : t \in Of}
  <2>1. T \subseteq Nat /\ T # {}
    BY <1>1, <1>3
  <2> HIDE DEF T
  <2>2. \E x \in T : \A y \in T : x <= y
    BY <2>1, LeastNatural
  <2>3. QED
    BY <2>2 DEF T
<1>5. PICK t \in Of : t[2].lo = lo
  BY <1>4
<1>6. ASSUME NEW u \in todo PROVE t[1] < u[1] \/ (t[1] = u[1] /\ t[2].lo <= u[2].lo)
  <2>1. t \in todo /\ t[1] = n /\ n \in Nat /\ u[1] \in Nat /\ n <= u[1]
    BY <1>1, <1>2, <1>5
  <2>2. CASE u[1] = n
    BY <1>4, <1>5, <2>1, <2>2
  <2>3. CASE u[1] # n
    BY <2>1, <2>3
  <2>4. QED
    BY <2>2, <2>3
<1>7. /\ NextTodo \in todo
      /\ \A u \in todo : NextTodo[1] < u[1] \/ (NextTodo[1] = u[1] /\ NextTodo[2].lo <= u[2].lo)
  BY <1>5, <1>6 DEF NextTodo
<1>8. PICK i \in Idx : NextTodo[1] = areas[i].name
  BY <1>1, <1>7
<1>9. nameToMem[NextTodo[1]] = i
  BY <1>8 DEF RegistryInv
<1>10. NextTodo[2].lo \in Nat /\ NextTodo[2].val \in Seq(Byte)
  BY <1>1, <1>7 DEF Segment
<1>11. NextTodo[1] \in Nat /\ \A u \in todo : u[1] = NextTodo[1] => ~(NextTodo[1] < u[1])
  BY <1>1, <1>7
<1>12. \A u \in todo : u[1] = NextTodo[1] => NextTodo[2].lo <= u[2].lo
  BY <1>7, <1>11
<1>13. /\ NextTodo = <<NextTodo[1], NextTodo[2]>> /\ NextTodo[1] \in DOMAIN staging
       /\ NextTodo[2] \in staging[NextTodo[1]].segs /\ Segment(NextTodo[2])
  BY <1>1, <1>7
<1>14. QED
  BY <1>7, <1>8, <1>9, <1>10, <1>12, <1>13

\* What FlattenElfFile returns, for any file.
LEMMA FlattenedIsBytes ==
  ASSUME FileInv
  PROVE  FlattenElfFile(file) \in Seq(Byte)
<1>1. CASE file = <<>>
  BY <1>1, EmptySeq DEF FlattenElfFile
<1>2. CASE file # <<>>
  <2>1. File(file)
    BY DEF FileInv, File
  <2>2. QED
    BY <1>2, <2>1, FlattenIsImage
<1>3. QED
  BY <1>1, <1>2

\* Whatever is called, the memories keep their sizes and hold bytes.
LEMMA MemStep ==
  ASSUME TypeOK, RegistryInv, CallInv, FileInv, StagingInv, Calls
  PROVE  MemTyped(mem')
<1>1. MemTyped(mem)
  BY DEF TypeOK, MemTyped
<1>2. \A i \in Idx : areas[i] \in Areas
  BY RegistryRanges
<1>3. CASE UNCHANGED mem
  BY <1>1, <1>3
<1>4. CASE \E a \in Areas : RegisterMemoryArea(a)
  BY <1>3, <1>4 DEF RegisterMemoryArea
<1>5. CASE \E c \in {"stage", "load"} : StageElf(c)
  BY <1>3, <1>5 DEF StageElf
<1>6. CASE \E paddr \in 0 .. Lim - 1, size \in 1 .. MaxSize :
             StageSegment(paddr, size) \/ FlattenSegment(paddr, size)
  BY <1>3, <1>6 DEF StageSegment, FlattenSegment
<1>7. CASE StageRejects \/ StageDone \/ LoadDone \/ FlattenRejects
  BY <1>3, <1>7 DEF StageRejects, StageDone, LoadDone, FlattenRejects
<1>8. CASE LoadSegment
  <2> DEFINE idx == nameToMem[NextTodo[1]]
             e == NextTodo[2]
             off == e.lo \div areas[idx].width
  <2>1. pc = "loading" /\ todo # {} /\ result # "abort"
    BY <1>8 DEF LoadSegment, CallInv
  <2>2. e.lo \in Nat /\ e.val \in Seq(Byte) /\ idx \in Idx
    BY <2>1, NextIsStaged
  <2>3. areas[idx] \in Areas /\ off \in Nat
    BY <1>2, <2>2, AreaFacts, DivFacts
  <2>4. UNCHANGED mem \/ \E refused \in BOOLEAN : Write(areas[idx], off, e.val, refused)
    BY <1>8 DEF LoadSegment
  <2> HIDE DEF idx, e, off
  <2>5. QED
    BY <1>1, <1>3, <2>2, <2>3, <2>4, WriteTyped
<1>9. ASSUME NEW a \in Areas, NEW type \in {"elf", "vmem", "unknown"},
             LoadFileToNamedMem(a.name, type)
      PROVE  MemTyped(mem')
  <2> DEFINE b == areas[nameToMem[a.name]]
             at == Instance(b)
  <2>1. UNCHANGED mem \/ (TakesVmem(b) /\ LoadVmem(b))
    BY <1>9 DEF LoadFileToNamedMem
  <2>2. ASSUME TakesVmem(b), LoadVmem(b) PROVE MemTyped(mem')
    <3>1. at \in DOMAIN Memories
      BY <2>2 DEF TakesVmem, ScopesExist
    <3>2. PICK words \in SUBSET (0 .. Memories[at] \div b.width - 1) :
            mem' = [mem EXCEPT ![at] =
                      [k \in DOMAIN mem[at] |-> IF k \div b.width \in words THEN Vmem ELSE mem[at][k]]]
      BY <2>2 DEF LoadVmem
    <3>3. Vmem \in Byte
      BY DEF Byte
    <3> HIDE DEF at, b
    <3>4. mem[at] \in [0 .. Memories[at] - 1 -> Byte]
      BY <1>1, <3>1 DEF MemTyped
    <3>5. [k \in DOMAIN mem[at] |-> IF k \div b.width \in words THEN Vmem ELSE mem[at][k]]
            \in [0 .. Memories[at] - 1 -> Byte]
      BY <3>3, <3>4
    <3>6. QED
      BY <1>1, <3>1, <3>2, <3>5 DEF MemTyped
  <2>3. QED
    BY <1>3, <2>1, <2>2
<1>10. CASE FlattenWrite
  <2> DEFINE flat == FlattenElfFile(file)
  <2>1. flat \in Seq(Byte)
    BY FlattenedIsBytes
  <2>2. areas[target] \in Areas
    BY <1>2, <1>10 DEF FlattenWrite, CallInv
  <2>3. UNCHANGED mem \/ \E refused \in BOOLEAN : Write(areas[target], 0, flat, refused)
    BY <1>10 DEF FlattenWrite
  <2> HIDE DEF flat
  <2>4. QED
    BY <1>1, <1>3, <2>1, <2>2, <2>3, WriteTyped
<1>11. QED
  BY <1>4, <1>5, <1>6, <1>7, <1>8, <1>9, <1>10 DEF Calls

\* The types of what the calls say.
LEMMA WordsStep ==
  ASSUME TypeOK, Calls
  PROVE  /\ call' \in {"none", "register", "stage", "load", "elf", "vmem", "unknown"}
         /\ pc' \in {"idle", "staging", "loading", "flattening"}
         /\ result' \in {"none", "ok", "runtime_error", "elf_error", "abort"}
<1>1. /\ call \in {"none", "register", "stage", "load", "elf", "vmem", "unknown"}
      /\ pc \in {"idle", "staging", "loading", "flattening"}
      /\ result \in {"none", "ok", "runtime_error", "elf_error", "abort"}
  BY DEF TypeOK
<1>2. CASE \E a \in Areas : RegisterMemoryArea(a)
  BY <1>1, <1>2 DEF RegisterMemoryArea
<1>3. CASE \E c \in {"stage", "load"} : StageElf(c)
  BY <1>3 DEF StageElf
<1>4. CASE \E paddr \in 0 .. Lim - 1, size \in 1 .. MaxSize :
             StageSegment(paddr, size) \/ FlattenSegment(paddr, size)
  BY <1>1, <1>4 DEF StageSegment, FlattenSegment
<1>5. CASE StageRejects \/ StageDone \/ LoadDone \/ FlattenRejects
  BY <1>1, <1>5 DEF StageRejects, StageDone, LoadDone, FlattenRejects, Throw
<1>6. CASE LoadSegment
  BY <1>1, <1>6 DEF LoadSegment, Throw
<1>7. CASE \E a \in Areas, type \in {"elf", "vmem", "unknown"} : LoadFileToNamedMem(a.name, type)
  BY <1>1, <1>7 DEF LoadFileToNamedMem
<1>8. CASE FlattenWrite
  BY <1>1, <1>8 DEF FlattenWrite, Throw
<1>9. QED
  BY <1>2, <1>3, <1>4, <1>5, <1>6, <1>7, <1>8 DEF Calls

\* The rest of TypeOK follows from the parts that say more.
Parts == /\ RegistryInv /\ FileInv /\ MemTyped(mem)
         /\ nameToMem \in [DOMAIN nameToMem -> Nat]
         /\ call \in {"none", "register", "stage", "load", "elf", "vmem", "unknown"}
         /\ pc \in {"idle", "staging", "loading", "flattening"}
         /\ result \in {"none", "ok", "runtime_error", "elf_error", "abort"}

LEMMA TypesFromParts == Parts => TypeOK
<1> SUFFICES ASSUME Parts PROVE TypeOK
  OBVIOUS
<1>0. RegistryInv /\ FileInv
  BY DEF Parts
<1>1. \A e \in addrToMem : e.lo \in 0 .. Lim - 1 /\ e.hi \in 0 .. Lim - 1
  <2> SUFFICES ASSUME NEW e \in addrToMem PROVE e.lo \in 0 .. Lim - 1 /\ e.hi \in 0 .. Lim - 1
    OBVIOUS
  <2>1. PICK i \in Idx : e = Entry(areas[i].base, TopOf(areas[i]), i)
    BY <1>0 DEF RegistryInv
  <2>2. e.lo = areas[i].base /\ e.hi = TopOf(areas[i])
    BY <2>1 DEF Entry
  <2>3. areas[i] \in Areas
    BY <1>0, RegistryRanges
  <2>4. TopOf(areas[i]) \in 0 .. Lim - 1 /\ areas[i].base \in Nat /\ areas[i].base < Lim
    BY <2>3, AreaFacts
  <2>5. QED
    BY <2>2, <2>4, BoundsAssumption
<1>2. \A i \in DOMAIN file : file[i].size \in 1 .. MaxSize
  <2>1. File(file)
    BY <1>0 DEF FileInv, File
  <2>2. QED
    BY <2>1, FileFacts
<1>3. areas \in Seq(Areas)
  BY <1>0 DEF RegistryInv
<1>4. QED
  BY <1>1, <1>2, <1>3 DEF TypeOK, MemTyped, Parts

\* The index of a memory is a number.
LEMMA NamesStep ==
  ASSUME TypeOK, RegistryInv, CallInv, Calls
  PROVE  nameToMem' \in [DOMAIN nameToMem' -> Nat]
<1>1. CASE UNCHANGED nameToMem
  BY <1>1 DEF TypeOK
<1>2. CASE \A a \in Areas : ~RegisterMemoryArea(a)
  BY <1>1, <1>2, OtherCalls DEF registryVars
<1>3. ASSUME NEW a \in Areas, RegisterMemoryArea(a)
      PROVE  nameToMem' \in [DOMAIN nameToMem' -> Nat]
  <2>1. UNCHANGED nameToMem \/ nameToMem' = Put(nameToMem, a.name, Len(areas) + 1)
    BY <1>3 DEF RegisterMemoryArea, registryVars
  <2>2. Len(areas) + 1 \in Nat
    BY LenProperties DEF RegistryInv
  <2>3. QED
    BY <1>1, <2>1, <2>2 DEF Put, TypeOK
<1>4. QED
  BY <1>2, <1>3

\* A byte read back is a byte of the memory behind the area.
LEMMA ReadBackIsMem ==
  ASSUME UNCHANGED <<areas, target, caller>>, areas[target] \in Areas, NEW k \in Nat
  PROVE  ReadBack(target, k)' = mem'[Instance(areas[target])][k]
<1> DEFINE a == areas[target]
           w == a.width
<1>1. k \div w \in Nat /\ (k % w) \in 0 .. w - 1 /\ (k \div w) * w + (k % w) = k
  BY AreaFacts, DivFacts
<1>2. ReadBack(target, k)' =
        [b \in 0 .. w - 1 |-> mem'[Instance(a)][(k \div w) * w + b]][k % w]
  BY DEF ReadBack, Read, Instance, InstanceFrom
<1> HIDE DEF w, a
<1>3. ReadBack(target, k)' = mem'[Instance(a)][(k \div w) * w + (k % w)]
  BY <1>1, <1>2
<1>4. ReadBack(target, k)' = mem'[Instance(a)][k]
  BY <1>1, <1>3
<1>5. QED
  BY <1>4 DEF a

\* A file that has been written by name is in its memory.
LEMMA FlattenWriteIsImage ==
  ASSUME TypeOK, RegistryInv, CallInv, FileInv, FlattenWrite, UNCHANGED caller, result' = "ok"
  PROVE  NamedIsImage'
<1> DEFINE a == areas[target]
           flat == FlattenElfFile(file)
<1>1. UNCHANGED <<areas, file, target, caller>> /\ a \in Areas /\ MemTyped(mem)
  <2>1. target \in Idx
    BY DEF FlattenWrite, CallInv
  <2>2. QED
    BY <2>1, RegistryRanges DEF FlattenWrite, Throw, registryVars, TypeOK, MemTyped
<1>2. Write(a, 0, flat, FALSE)
  BY DEF FlattenWrite, Throw
<1> SUFFICES ASSUME file # <<>>, NEW k \in 0 .. SizeBytes(a) - 1
             PROVE  /\ Covered(file, Low(file) + k) =>
                         ReadBack(target, k)' = ImageByte(file, Low(file) + k)
                    /\ (/\ ~Covered(file, Low(file) + k)
                        /\ \E j \in k + 1 .. Lim : Covered(file, Low(file) + j)) =>
                          ReadBack(target, k)' = Zero
  BY <1>1 DEF NamedIsImage, ReadBack, Read, Instance, InstanceFrom
<1>3. /\ flat \in Seq(Byte)
      /\ \A j \in Nat : Covered(file, Low(file) + j) =>
           j < Len(flat) /\ flat[j + 1] = ImageByte(file, Low(file) + j)
      /\ \A j \in Nat : j < Len(flat) /\ ~Covered(file, Low(file) + j) => flat[j + 1] = Zero
  <2>1. File(file)
    BY DEF FileInv, File
  <2>2. QED
    BY <2>1, FlattenIsImage
<1>4. k \in Nat
  BY <1>1, AreaFacts
<1>5. k < Len(flat) => ReadBack(target, k)' = flat[k + 1]
  <2>1. \A j \in Nat : j < Len(flat) => mem'[Instance(a)][0 * a.width + j] = flat[j + 1]
    <3> HIDE DEF flat, a
    <3>1. QED
      BY <1>1, <1>2, <1>3, WriteLands
  <2>2. 0 * a.width + k = k
    BY <1>1, <1>4, AreaFacts
  <2>3. k < Len(flat) => mem'[Instance(a)][k] = flat[k + 1]
    BY <1>4, <2>1, <2>2
  <2>4. QED
    BY <1>1, <1>4, <2>3, ReadBackIsMem
<1> HIDE DEF flat
<1>6. ASSUME NEW j \in k + 1 .. Lim, Covered(file, Low(file) + j) PROVE k < Len(flat)
  <2>1. j \in Nat /\ k < j
    BY <1>4, BoundsAssumption
  <2>2. j < Len(flat) /\ Len(flat) \in Nat
    BY <1>3, <1>6, <2>1, LenProperties
  <2>3. QED
    BY <1>4, <2>1, <2>2
<1>7. QED
  BY <1>3, <1>4, <1>5, <1>6

LEMMA NamedIsImageStep ==
  ASSUME TypeOK, RegistryInv, CallInv, FileInv, Calls, UNCHANGED caller
  PROVE  NamedIsImage'
<1>1. CASE ~(call' = "elf" /\ result' = "ok")
  BY <1>1 DEF NamedIsImage
<1>2. CASE \E a \in Areas : RegisterMemoryArea(a)
  BY <1>1, <1>2 DEF RegisterMemoryArea
<1>3. CASE \E c \in {"stage", "load"} : StageElf(c)
  BY <1>1, <1>3 DEF StageElf
<1>4. CASE \E paddr \in 0 .. Lim - 1, size \in 1 .. MaxSize :
             StageSegment(paddr, size) \/ FlattenSegment(paddr, size)
  BY <1>1, <1>4 DEF StageSegment, FlattenSegment, CallInv
<1>5. CASE StageRejects \/ StageDone \/ LoadDone
  BY <1>1, <1>5 DEF StageRejects, StageDone, LoadDone, Throw, CallInv
<1>6. CASE LoadSegment
  BY <1>1, <1>6 DEF LoadSegment, Throw, CallInv
<1>7. CASE \E a \in Areas, type \in {"elf", "vmem", "unknown"} : LoadFileToNamedMem(a.name, type)
  BY <1>1, <1>7 DEF LoadFileToNamedMem
<1>8. CASE FlattenRejects
  BY <1>1, <1>8 DEF FlattenRejects, Throw
<1>9. CASE FlattenWrite
  BY <1>1, <1>9, FlattenWriteIsImage
<1>10. QED
  BY <1>2, <1>3, <1>4, <1>5, <1>6, <1>7, <1>8, <1>9 DEF Calls

-----------------------------------------------------------------------------
(* The invariant. *)

LEMMA InitInv == Init => IInv
<1> SUFFICES ASSUME Init PROVE IInv
  OBVIOUS
<1>1. areas = <<>> /\ Len(areas) = 0 /\ Idx = {} /\ areas \in Seq(Areas)
  BY EmptySeq DEF Init, Idx
<1>2. addrToMem = {} /\ nameToMem = << >> /\ DOMAIN nameToMem = {} /\ staging = << >> /\ DOMAIN staging = {}
  BY DEF Init
<1>3. RegistryInv
  BY <1>1, <1>2 DEF RegistryInv, Disjoint
<1>4. CallInv
  BY DEF Init, CallInv
<1>5. FileInv
  BY EmptySeq DEF Init, FileInv
<1>6. StagingInv
  BY <1>2 DEF Init, StagingInv
<1>7. StagedIsImage /\ NamedIsImage
  BY DEF Init, StagedIsImage, NamedIsImage
<1>8. MemTyped(mem)
  BY DEF Init, MemTyped, Byte
<1>9. nameToMem \in [DOMAIN nameToMem -> Nat]
  BY <1>2
<1>10. TypeOK
  BY <1>3, <1>5, <1>8, <1>9, TypesFromParts DEF Init, Parts
<1>11. QED
  BY <1>3, <1>4, <1>5, <1>6, <1>7, <1>10 DEF IInv

LEMMA NextInv == IInv /\ [Next]_vars => IInv'
<1> SUFFICES ASSUME IInv, [Next]_vars PROVE IInv'
  OBVIOUS
<1> USE DEF IInv
<1>1. CASE Next
  <2>1. Calls /\ UNCHANGED caller
    BY <1>1 DEF Next
  <2>2. RegistryInv'
    BY <2>1, RegistryStep
  <2>3. CallInv'
    BY <2>1, CallStep
  <2>4. FileInv'
    BY <2>1, FileStep
  <2>5. StagingInv'
    BY <2>1, StagingStep
  <2>6. StagedIsImage'
    BY <2>1, <2>4, StagedIsImageStep
  <2>7. NamedIsImage'
    BY <2>1, NamedIsImageStep
  <2>8. TypeOK'
    <3>1. Parts'
      BY <2>1, <2>2, <2>4, MemStep, NamesStep, WordsStep DEF Parts, MemTyped
    <3>2. QED
      BY <3>1, TypesFromParts, PTL
  <2>9. QED
    BY <2>2, <2>3, <2>4, <2>5, <2>6, <2>7, <2>8
<1>2. CASE UNCHANGED vars
  <2>1. TypeOK'
    BY <1>2 DEF vars, TypeOK
  <2>2. RegistryInv' /\ CallInv' /\ FileInv' /\ StagingInv'
    BY <1>2 DEF vars, RegistryInv, CallInv, FileInv, StagingInv, Idx
  <2>3. StagedIsImage'
    BY <1>2 DEF vars, StagedIsImage, GetMemoryData, Idx
  <2>4. NamedIsImage'
    <3>1. UNCHANGED <<areas, call, result, file, target, mem, caller>>
      BY <1>2 DEF vars
    <3>2. \A k : ReadBack(target, k)' = ReadBack(target, k)
      BY <3>1 DEF ReadBack, Read, Instance, InstanceFrom
    <3>3. NamedIsImage
      OBVIOUS
    <3>4. NamedIsImage' <=>
            (call = "elf" /\ result = "ok" /\ file # <<>> =>
               \A k \in 0 .. SizeBytes(areas[target]) - 1 :
                 /\ Covered(file, Low(file) + k) =>
                      ReadBack(target, k)' = ImageByte(file, Low(file) + k)
                 /\ (/\ ~Covered(file, Low(file) + k)
                     /\ \E j \in k + 1 .. Lim : Covered(file, Low(file) + j)) =>
                       ReadBack(target, k)' = Zero)
      BY <3>1 DEF NamedIsImage, ReadBack, Read, Instance, InstanceFrom
    <3>5. QED
      BY <3>2, <3>3, <3>4 DEF NamedIsImage
  <2>5. QED
    BY <2>1, <2>2, <2>3, <2>4
<1>3. QED
  BY <1>1, <1>2

\* The inductive invariant holds in every state of every run.
THEOREM MemUtilInvariant == Spec => []IInv
<1>1. QED
  BY InitInv, NextInv, PTL DEF Spec

\* The registers of the loader hold values of their types, and the memories keep their sizes.
THEOREM MemUtilTyped == Spec => []TypeOK
<1>1. IInv => TypeOK
  BY DEF IInv
<1>2. QED
  BY <1>1, MemUtilInvariant, PTL

\* RegisterMemoryArea keeps its two maps and three vectors in step, and the areas apart.
THEOREM RegistryIsConsistent == Spec => []RegistryConsistent
<1>1. IInv => RegistryConsistent
  BY RegistryInvIsConsistent DEF IInv
<1>2. QED
  BY <1>1, MemUtilInvariant, PTL

\* Whatever segments StageElf accepts, in whatever order and with whatever overlaps, the staging
\* area holds their image.
THEOREM StagedIsTheImage == Spec => []StagedIsImage
<1>1. IInv => StagedIsImage
  BY DEF IInv
<1>2. QED
  BY <1>1, MemUtilInvariant, PTL

\* A file that LoadFileToNamedMem has loaded is in the memory it names, byte for byte.
THEOREM NamedIsTheImage == Spec => []NamedIsImage
<1>1. IInv => NamedIsImage
  BY DEF IInv
<1>2. QED
  BY <1>1, MemUtilInvariant, PTL

-----------------------------------------------------------------------------
(* Loading: what LoadElfToMemories has written stays written. *)

\* Two registered areas are two memories.
LEMMA InstancesApart ==
  ASSUME DistinctMemories, RegistryInv, caller \in Callers, NEW i \in Idx, NEW j \in Idx, i # j
  PROVE  Instance(areas[i]) # Instance(areas[j])
<1> DEFINE a == areas[i]
           b == areas[j]
<1>1. /\ a \in Areas /\ b \in Areas /\ a.name # b.name
      /\ a.base <= TopOf(a) /\ b.base <= TopOf(b)
      /\ TopOf(a) = a.base + SizeBytes(a) - 1 /\ TopOf(b) = b.base + SizeBytes(b) - 1
  BY RegistryRanges DEF RegistryInv
<1>2. TopOf(a) < b.base \/ TopOf(b) < a.base
  BY <1>1, AreasApart
<1> HIDE DEF a, b
<1>3. InstanceFrom(caller, a) # InstanceFrom(caller, b)
  <2>1. CASE TopOf(a) < b.base
    BY <1>1, <2>1 DEF DistinctMemories
  <2>2. CASE TopOf(b) < a.base
    BY <1>1, <2>2 DEF DistinctMemories
  <2>3. QED
    BY <1>2, <2>1, <2>2
<1>4. QED
  BY <1>3 DEF a, b, Instance

\* Whole words that hold lo .. hi, in a memory of so many words.
LEMMA WordsFit ==
  ASSUME NEW lo \in Nat, NEW len \in Nat, NEW w \in Nat \ {0}, NEW words \in Nat,
         lo % w = 0, lo + len <= words * w
  PROVE  /\ (lo \div w) * w = lo
         /\ lo \div w + (len + w - 1) \div w <= words
<1> DEFINE q == lo \div w
           n == (len + w - 1) \div w
<1>1. q \in Nat /\ q * w = lo
  <2>1. q \in Nat /\ q * w + (lo % w) = lo
    BY DivFacts
  <2>2. q * w \in Nat
    BY <2>1
  <2> HIDE DEF q
  <2>3. QED
    BY <2>1, <2>2
<1>2. len + w - 1 \in Nat
  OBVIOUS
<1>3. n \in Nat /\ n * w + ((len + w - 1) % w) = len + w - 1 /\ (len + w - 1) % w \in 0 .. w - 1
  BY <1>2, DivFacts
<1> HIDE DEF q, n
<1>4. n * w \in Nat /\ n * w <= len + w - 1
  BY <1>3
<1>5. q + n <= words
  <2> SUFFICES ASSUME ~(q + n <= words) PROVE FALSE
    OBVIOUS
  <2>1. q + n - (words + 1) \in Nat /\ q + n = words + 1 + (q + n - (words + 1))
    BY <1>1, <1>3
  <2>2. PICK d \in Nat : q + n = words + 1 + d
    BY <2>1
  <2>3. (q + n) * w = q * w + n * w /\ (words + 1 + d) * w = words * w + w + d * w
    BY <1>1, <1>3
  <2>4. q * w + n * w = words * w + w + d * w /\ d * w \in Nat /\ words * w \in Nat
    BY <2>2, <2>3
  <2>5. QED
    BY <1>1, <1>4, <2>4
<1>6. QED
  BY <1>1, <1>5 DEF q, n

\* A segment that fits is never refused by the assertions on the way.
LEMMA FitPassesAsserts ==
  ASSUME RegistryInv, NEW i \in Idx, NEW e, Segment(e),
         e.lo % areas[i].width = 0, e.hi < SizeBytes(areas[i])
  PROVE  /\ LoadAsserts(i, e)
         /\ (e.lo \div areas[i].width) * areas[i].width = e.lo
<1> DEFINE w == areas[i].width
           len == Len(e.val)
           words == areas[i].words
<1>1. areas[i] \in Areas
  BY RegistryRanges
<1>2. /\ w \in Nat \ {0} /\ words \in Nat \ {0}
      /\ e.lo \in Nat /\ e.hi \in Nat /\ e.lo <= e.hi /\ len = e.hi - e.lo + 1
  BY <1>1, AreaFacts, SegmentFacts
<1>3. e.hi < words * w
  <2>1. words * w \in Nat /\ Lim \in Nat \ {0}
    BY <1>2, BoundsAssumption
  <2>2. SizeBytes(areas[i]) = (words * w) % Lim
    BY DEF SizeBytes
  <2>3. \A x \in Nat, l \in Nat \ {0} : x % l <= x /\ x % l \in Nat
    OBVIOUS
  <2>4. SizeBytes(areas[i]) <= words * w /\ SizeBytes(areas[i]) \in Nat
    BY <2>1, <2>2, <2>3
  <2> HIDE DEF w, words, len
  <2>5. QED
    BY <1>2, <2>1, <2>4
<1>4. e.lo % w = 0 /\ DataWords(e.val, areas[i]) = (len + w - 1) \div w
  BY DEF DataWords
<1>5. (e.lo \div w) * w = e.lo /\ e.lo \div w + (len + w - 1) \div w <= words
  <2> HIDE DEF w, words, len
  <2>1. words * w \in Nat /\ len \in Nat
    BY <1>2
  <2>2. e.lo + len <= words * w
    BY <1>2, <1>3, <2>1
  <2>3. QED
    BY <1>2, <1>4, <2>1, <2>2, WordsFit, Zenon
<1>6. QED
  BY <1>4, <1>5 DEF LoadAsserts

\* A write leaves the other memories alone, and the bytes below it.
LEMMA WriteKeeps ==
  ASSUME MemTyped(mem), NEW a \in Areas, NEW off \in Nat, NEW data, NEW refused,
         Write(a, off, data, refused),
         NEW at \in DOMAIN Memories, NEW k \in 0 .. Memories[at] - 1,
         at # Instance(a) \/ k < off * a.width
  PROVE  mem'[at][k] = mem[at][k]
<1>1. CASE ~ScopesExist(a)
  BY <1>1 DEF Write
<1>2. CASE ScopesExist(a)
  <2> DEFINE n == WordsOut(off, data, a)
  <2>1. PICK pad : mem' = [mem EXCEPT ![Instance(a)] =
                             Written(mem[Instance(a)], a, off, n, data, pad)]
    BY <1>2 DEF Write
  <2> HIDE DEF n
  <2>2. CASE at # Instance(a)
    BY <2>1, <2>2
  <2>3. CASE at = Instance(a)
    <3>1. at \in DOMAIN mem /\ k \in DOMAIN mem[at]
      BY DEF MemTyped
    <3>2. mem'[at] = Written(mem[at], a, off, n, data, pad)
      BY <2>1, <2>3, <3>1
    <3>3. ~(off * a.width <= k)
      BY <2>3, AreaFacts, MemoriesAssumption
    <3>4. Written(mem[at], a, off, n, data, pad)[k] = mem[at][k]
      BY <3>1, <3>3 DEF Written
    <3>5. QED
      BY <3>2, <3>4
  <2>4. QED
    BY <2>2, <2>3
<1>3. QED
  BY <1>1, <1>2

\* Segment e is in the memory behind area a once the contents are m.
InContents(m, a, e) ==
  /\ Instance(a) \in DOMAIN Memories
  /\ \A k \in 0 .. Len(e.val) - 1 : /\ e.lo + k < Memories[Instance(a)]
                                  /\ m[Instance(a)][e.lo + k] = e.val[k + 1]

LEMMA InMemoryPrimed ==
  ASSUME UNCHANGED <<areas, caller>>
  PROVE  \A i, e : InMemory(areas[i], e)' <=> InContents(mem', areas[i], e)
BY DEF InMemory, InContents, Instance, InstanceFrom

\* The staged segments of an area.
LEMMA DataFacts ==
  ASSUME StagingInv, NEW name
  PROVE  LET segs == GetMemoryData(name).segs
         IN  /\ Disjoint(segs) /\ \A e \in segs : Segment(e)
             /\ segs # {} => name \in DOMAIN staging
             /\ name \in DOMAIN staging => segs = staging[name].segs
<1>1. Segments(GetMemoryData(name).segs)
  BY DataIsStaged DEF Staged
<1>2. GetMemoryData(name).segs # {} => name \in DOMAIN staging
  BY DEF GetMemoryData, EmptyStaged
<1>3. name \in DOMAIN staging => GetMemoryData(name).segs = staging[name].segs
  BY DEF GetMemoryData
<1>4. QED
  BY <1>1, <1>2, <1>3, SegmentsFacts

\* Accepted segments start on a word and fit; merged ones start where one of them did.
LEMMA FitStep ==
  ASSUME RegistryInv, FileInv, StagingInv, FitInv, CallInv, Calls
  PROVE  FitInv'
<1> DEFINE Fits(i, e) == e.lo % areas[i].width = 0 /\ e.hi < SizeBytes(areas[i])
<1>1. CASE UNCHANGED <<areas, staging>>
  BY <1>1 DEF FitInv, Idx, GetMemoryData
<1>2. CASE \E a \in Areas : RegisterMemoryArea(a)
  <2>1. PICK a \in Areas : RegisterMemoryArea(a)
    BY <1>2
  <2>2. UNCHANGED staging
    BY <2>1 DEF RegisterMemoryArea
  <2>3. CASE UNCHANGED areas
    BY <1>1, <2>2, <2>3
  <2>4. CASE areas' = Append(areas, a) /\ a.name \notin DOMAIN nameToMem /\ result # "abort"
    <3>1. /\ Idx = 1 .. Len(areas) /\ Len(areas) \in Nat /\ Len(areas') = Len(areas) + 1
          /\ \A i \in Idx : areas'[i] = areas[i]
          /\ areas'[Len(areas) + 1] = a
      BY <2>4, AreasAppend DEF RegistryInv
    <3>2. a.name \notin DOMAIN staging
      BY <2>4 DEF StagingInv, RegistryInv
    <3>3. ASSUME NEW i \in Idx', NEW e \in GetMemoryData(areas[i].name)'.segs
          PROVE  e.lo % areas'[i].width = 0 /\ e.hi < SizeBytes(areas'[i])
      <4>1. i \in Idx \/ i = Len(areas) + 1
        BY <3>1 DEF Idx
      <4>2. CASE i \in Idx
        <5>1. e \in GetMemoryData(areas[i].name).segs
          BY <2>2, <3>1, <3>3, <4>2 DEF GetMemoryData
        <5>2. QED
          BY <3>1, <4>2, <5>1 DEF FitInv
      <4>3. CASE i = Len(areas) + 1
        <5>1. e \in EmptyStaged.segs
          BY <2>2, <3>1, <3>2, <3>3, <4>3 DEF GetMemoryData
        <5>2. QED
          BY <5>1 DEF EmptyStaged
      <4>4. QED
        BY <4>1, <4>2, <4>3
    <3>4. QED
      BY <3>3 DEF FitInv
  <2>5. QED
    BY <2>1, <2>3, <2>4 DEF RegisterMemoryArea, Ready, registryVars
<1>3. CASE \E c \in {"stage", "load"} : StageElf(c)
  <2>1. staging' = << >>
    BY <1>3 DEF StageElf
  <2>2. \A i : GetMemoryData(areas[i].name)'.segs = {}
    BY <2>1 DEF GetMemoryData, EmptyStaged
  <2>3. QED
    BY <2>2 DEF FitInv
<1>4. ASSUME NEW paddr \in 0 .. Lim - 1, NEW size \in 1 .. MaxSize, StageSegment(paddr, size)
      PROVE  FitInv'
  <2>1. UNCHANGED areas /\ Idx' = Idx
    BY <1>4 DEF StageSegment, registryVars, Idx
  <2>2. PICK i0 \in Idx :
          /\ areas[i0] \in Areas
          /\ areas[i0].base <= paddr
          /\ paddr + size <= areas[i0].base + SizeBytes(areas[i0])
          /\ (paddr - areas[i0].base) % areas[i0].width = 0
          /\ DOMAIN staging' = DOMAIN staging \cup {areas[i0].name}
          /\ \A n \in DOMAIN staging : n # areas[i0].name => staging'[n] = staging[n]
          /\ Laid(GetMemoryData(areas[i0].name), staging'[areas[i0].name], paddr - areas[i0].base,
                  size, Payload(work + 1, size))
    BY <1>4, StageSegmentLays
  <2> DEFINE name == areas[i0].name
             off == paddr - areas[i0].base
             before == GetMemoryData(name)
             after == staging'[name]
  <2>3. /\ paddr \in Nat /\ size \in Nat /\ areas[i0].base \in Nat
        /\ SizeBytes(areas[i0]) \in Nat /\ off \in Nat /\ off + size <= SizeBytes(areas[i0])
    <3>1. paddr \in Nat /\ size \in Nat /\ areas[i0].base \in Nat /\ SizeBytes(areas[i0]) \in Nat
      BY <2>2, AreaFacts, BoundsAssumption
    <3>2. QED
      BY <2>2, <3>1
  <2>4. ASSUME NEW e \in after.segs PROVE Fits(i0, e)
    <3>1. Starts(e.lo, off, before.segs) /\ off % areas[i0].width = 0
      BY <2>2 DEF Laid
    <3>2. e.lo % areas[i0].width = 0
      <4>1. \A f \in before.segs : f.lo % areas[i0].width = 0
        BY DEF FitInv
      <4> HIDE DEF off
      <4>2. QED
        BY <3>1, <4>1 DEF Starts
    <3>3. Segment(e) /\ e.hi \in Nat /\ Holds(e, e.hi)
      <4>1. Segment(e)
        BY <2>2, SegmentsFacts DEF Laid, Staged
      <4>2. QED
        BY <4>1, SegmentFacts DEF Holds
    <3>4. Bytes(after.segs, e.hi) # {}
      BY <3>3 DEF Bytes
    <3>5. CASE off <= e.hi /\ e.hi <= off + size - 1
      BY <2>3, <3>2, <3>3, <3>5
    <3>6. CASE ~(off <= e.hi /\ e.hi <= off + size - 1)
      <4>1. Bytes(before.segs, e.hi) # {}
        BY <2>2, <3>3, <3>4, <3>6 DEF Laid
      <4>2. PICK f \in before.segs : Holds(f, e.hi)
        BY <4>1 DEF Bytes
      <4>3. f.hi < SizeBytes(areas[i0]) /\ Segment(f)
        BY DataFacts DEF FitInv
      <4>4. f.hi \in Nat /\ e.hi <= f.hi
        BY <4>2, <4>3, SegmentFacts DEF Holds
      <4>5. QED
        BY <2>3, <3>2, <3>3, <4>3, <4>4
    <3>7. QED
      BY <3>5, <3>6
  <2>5. ASSUME NEW i \in Idx, NEW e \in GetMemoryData(areas[i].name)'.segs PROVE Fits(i, e)
    <3>1. CASE i = i0
      <4>1. GetMemoryData(areas[i].name)' = staging'[areas[i0].name]
        BY <2>1, <2>2, <3>1 DEF GetMemoryData
      <4>2. QED
        BY <2>4, <2>5, <3>1, <4>1
    <3>2. CASE i # i0
      <4>1. areas[i].name # areas[i0].name
        BY <3>2 DEF RegistryInv
      <4>2. GetMemoryData(areas[i].name)' = GetMemoryData(areas[i].name)
        BY <2>1, <2>2, <4>1 DEF GetMemoryData
      <4>3. QED
        BY <2>5, <4>2 DEF FitInv
    <3>3. QED
      BY <3>1, <3>2
  <2>6. QED
    BY <2>1, <2>5 DEF FitInv
<1>5. CASE /\ \A a \in Areas : ~RegisterMemoryArea(a)
           /\ ~\E c \in {"stage", "load"} : StageElf(c)
           /\ ~\E paddr \in 0 .. Lim - 1, size \in 1 .. MaxSize : StageSegment(paddr, size)
  <2>1. UNCHANGED areas
    BY <1>5, OtherCalls DEF registryVars
  <2>2. UNCHANGED staging
    BY <1>5 DEF Calls, FlattenSegment, StageRejects, StageDone, LoadSegment, LoadDone,
                LoadFileToNamedMem, FlattenRejects, FlattenWrite, Throw
  <2>3. QED
    BY <1>1, <2>1, <2>2
<1>6. QED
  BY <1>2, <1>3, <1>4, <1>5

\* A segment that is written is in its memory, and what was in a memory before stays there: the
\* segments below it, which neither it nor its padding touches, and those of other areas.
LEMMA WriteLoads ==
  ASSUME DistinctMemories, RegistryInv, StagingInv, FitInv, MemTyped(mem), caller \in Callers,
         NEW i \in Idx, NEW e \in GetMemoryData(areas[i].name).segs,
         NEW refused \in BOOLEAN,
         Write(areas[i], e.lo \div areas[i].width, e.val, refused)
  PROVE  /\ ~refused => InContents(mem', areas[i], e)
         /\ \A j \in Idx : \A f \in GetMemoryData(areas[j].name).segs :
              InMemory(areas[j], f) /\ (j = i => f.lo < e.lo) => InContents(mem', areas[j], f)
<1> DEFINE a == areas[i]
           off == e.lo \div a.width
<1>1. /\ a \in Areas /\ Segment(e) /\ e.val \in Seq(Byte)
      /\ e.lo \in Nat /\ off \in Nat /\ off * a.width = e.lo
  <2>1. a \in Areas /\ Segment(e)
    BY RegistryRanges, DataFacts
  <2>2. e.lo \in Nat /\ e.val \in Seq(Byte) /\ a.width \in Nat \ {0}
    BY <2>1, SegmentFacts, AreaFacts
  <2>3. off * a.width = e.lo
    BY <2>1, FitPassesAsserts DEF FitInv
  <2>4. off \in Nat
    BY <2>2, DivFacts
  <2>5. QED
    BY <2>1, <2>2, <2>3, <2>4
<1>2. Write(a, off, e.val, refused)
  OBVIOUS
<1> HIDE DEF a, off
<1>3. ASSUME ~refused PROVE InContents(mem', a, e)
  <2>1. Write(a, off, e.val, FALSE)
    BY <1>2, <1>3
  <2>2. \A k \in Nat : k < Len(e.val) =>
           /\ Instance(a) \in DOMAIN Memories /\ e.lo + k < Memories[Instance(a)]
           /\ mem'[Instance(a)][e.lo + k] = e.val[k + 1]
    <3>1. \A k \in Nat : k < Len(e.val) =>
             /\ Instance(a) \in DOMAIN Memories /\ off * a.width + k < Memories[Instance(a)]
             /\ mem'[Instance(a)][off * a.width + k] = e.val[k + 1]
      BY <1>1, <2>1, WriteLands
    <3>2. QED
      BY <1>1, <3>1
  <2>3. Len(e.val) \in Nat \ {0}
    BY <1>1, SegmentFacts
  <2>4. QED
    BY <2>2, <2>3 DEF InContents
<1>4. ASSUME NEW j \in Idx, NEW f \in GetMemoryData(areas[j].name).segs,
             InMemory(areas[j], f), j = i => f.lo < e.lo
      PROVE  InContents(mem', areas[j], f)
  <2> DEFINE at == Instance(areas[j])
  <2>1. at \in DOMAIN Memories /\ Segment(f) /\ f.lo \in Nat /\ f.hi \in Nat
        /\ Len(f.val) = f.hi - f.lo + 1 /\ Memories[at] \in Nat
    BY <1>4, DataFacts, SegmentFacts, MemoriesAssumption DEF InMemory
  <2>2. ASSUME NEW k \in 0 .. Len(f.val) - 1
        PROVE  /\ f.lo + k < Memories[at] /\ mem'[at][f.lo + k] = f.val[k + 1]
    <3>1. f.lo + k < Memories[at] /\ mem[at][f.lo + k] = f.val[k + 1]
      BY <1>4 DEF InMemory
    <3>2. f.lo + k \in 0 .. Memories[at] - 1 /\ f.lo + k <= f.hi
      BY <2>1, <3>1
    <3>3. at # Instance(a) \/ f.lo + k < off * a.width
      <4>1. CASE j = i
        <5>1. f # e /\ f \in GetMemoryData(areas[i].name).segs /\ f.lo < e.lo
          BY <1>1, <1>4, <2>1, <4>1
        <5>2. f.hi < e.lo \/ e.hi < f.lo
          BY <5>1, DataFacts DEF Disjoint
        <5>3. e.hi \in Nat /\ e.lo <= e.hi
          BY <1>1, SegmentFacts
        <5>4. f.hi < e.lo
          BY <1>1, <2>1, <5>1, <5>2, <5>3
        <5>5. QED
          BY <1>1, <2>1, <3>2, <5>4
      <4>2. CASE j # i
        BY <4>2, InstancesApart DEF a
      <4>3. QED
        BY <4>1, <4>2
    <3>4. mem'[at][f.lo + k] = mem[at][f.lo + k]
      <4> HIDE DEF at
      <4>1. QED
        BY <1>1, <1>2, <2>1, <3>2, <3>3, WriteKeeps
    <3>5. QED
      BY <3>1, <3>4
  <2>3. QED
    BY <2>1, <2>2 DEF InContents
<1>5. QED
  BY <1>3, <1>4 DEF a

\* LoadSegment takes the lowest segment left of a memory and writes it; it never asserts.
LEMMA LoadSegmentStep ==
  ASSUME DistinctMemories, RegistryInv, CallInv, StagingInv, FitInv, LoadingInv, MemTyped(mem),
         caller \in Callers, LoadSegment, UNCHANGED caller
  PROVE  LoadingInv'
<1> DEFINE idx == nameToMem[NextTodo[1]]
           e == NextTodo[2]
           name == areas[idx].name
           off == e.lo \div areas[idx].width
<1>1. /\ pc = "loading" /\ todo # {} /\ result = "none" /\ call = "load"
      /\ UNCHANGED <<areas, staging, call, caller>>
  BY DEF LoadSegment, CallInv, Throw, registryVars
<1>2. /\ idx \in Idx /\ NextTodo \in todo /\ NextTodo = <<name, e>>
      /\ name \in DOMAIN staging /\ e \in staging[name].segs /\ Segment(e)
      /\ \A u \in todo : u[1] = name => e.lo <= u[2].lo
  BY <1>1, NextIsStaged
<1>3. e \in GetMemoryData(name).segs
  BY <1>2 DEF GetMemoryData
<1>4. LoadAsserts(idx, e)
  BY <1>2, <1>3, FitPassesAsserts DEF FitInv
<1>5. CASE pc' = "idle" /\ result' = "runtime_error"
  BY <1>5 DEF LoadingInv
<1>6. CASE Write(areas[idx], off, e.val, FALSE) /\ todo' = todo \ {NextTodo} /\ UNCHANGED <<pc, result>>
  <2> HIDE DEF idx, e
  <2>1. /\ InContents(mem', areas[idx], e)
        /\ \A j \in Idx : \A f \in GetMemoryData(areas[j].name).segs :
             InMemory(areas[j], f) /\ (j = idx => f.lo < e.lo) => InContents(mem', areas[j], f)
    BY <1>2, <1>3, <1>6, WriteLoads
  <2>2. ASSUME NEW t \in todo, NEW f \in staging[t[1]].segs, <<t[1], f>> \notin todo
        PROVE  f.lo < t[2].lo
    BY <1>1, <2>2 DEF LoadingInv
  <2>3. ASSUME NEW i \in Idx, NEW f \in GetMemoryData(areas[i].name).segs,
               ~InMemory(areas[i], f)'
        PROVE  <<areas[i].name, f>> \in todo'
    <3>1. ~InContents(mem', areas[i], f)
      BY <1>1, <2>3, InMemoryPrimed
    <3>2. i # idx \/ f # e
      BY <2>1, <3>1
    <3>3. <<areas[i].name, f>> # NextTodo
      BY <1>2, <3>2 DEF RegistryInv
    <3>4. CASE <<areas[i].name, f>> \in todo
      BY <1>6, <3>3, <3>4
    <3>5. CASE <<areas[i].name, f>> \notin todo
      <4>1. InMemory(areas[i], f)
        BY <1>1, <3>5 DEF LoadingInv
      <4>2. ASSUME i = idx PROVE f.lo < e.lo
        <5>1. NextTodo[1] = name /\ NextTodo[2] = e
          BY <1>2
        <5>2. f \in staging[name].segs
          BY <1>2, <4>2, DataFacts
        <5>3. QED
          BY <1>2, <2>2, <3>5, <4>2, <5>1, <5>2
      <4>3. QED
        BY <2>1, <3>1, <4>1, <4>2
    <3>6. QED
      BY <3>4, <3>5
  <2>4. ASSUME NEW t \in todo', NEW f \in staging[t[1]].segs, <<t[1], f>> \notin todo'
        PROVE  f.lo < t[2].lo
    <3>1. t \in todo /\ t # NextTodo
      BY <1>6
    <3>2. CASE <<t[1], f>> \notin todo
      BY <2>2, <3>1, <3>2
    <3>3. CASE <<t[1], f>> \in todo
      <4>1. t[1] = name /\ f = e
        BY <1>2, <1>6, <2>4, <3>3
      <4>2. t = <<t[1], t[2]>> /\ t[2] \in staging[t[1]].segs
        BY <1>1, <3>1 DEF StagingInv
      <4>3. t[2] # e
        BY <1>2, <3>1, <4>1, <4>2
      <4>4. e.lo <= t[2].lo
        BY <1>2, <3>1, <4>1
      <4>5. e.hi < t[2].lo \/ t[2].hi < e.lo
        <5>1. Disjoint(staging[name].segs)
          BY <1>2 DEF StagingInv, Staged, Segments
        <5>2. QED
          BY <1>2, <4>1, <4>2, <4>3, <5>1 DEF Disjoint
      <4>6. Segment(t[2])
        BY <1>2, <4>1, <4>2, SegmentsFacts DEF StagingInv, Staged
      <4>7. /\ e.lo \in Nat /\ e.hi \in Nat /\ e.lo <= e.hi
            /\ t[2].lo \in Nat /\ t[2].hi \in Nat /\ t[2].lo <= t[2].hi
        BY <1>2, <4>6, SegmentFacts
      <4>8. QED
        BY <4>1, <4>4, <4>5, <4>7
    <3>4. QED
      BY <3>2, <3>3
  <2>5. /\ pc' = "loading" /\ result' = "none" /\ Idx' = Idx /\ areas' = areas
        /\ staging' = staging
    BY <1>1, <1>6 DEF Idx
  <2>6. \A n : GetMemoryData(n)' = GetMemoryData(n)
    BY <2>5 DEF GetMemoryData
  <2>7. QED
    BY <2>3, <2>4, <2>5, <2>6 DEF LoadingInv
<1>7. QED
  BY <1>4, <1>5, <1>6 DEF LoadSegment, Throw

\* What LoadElfToMemories has loaded stays loaded until it is done.
LEMMA LoadingStep ==
  ASSUME DistinctMemories, RegistryInv, CallInv, StagingInv, FitInv, LoadingInv, MemTyped(mem),
         caller \in Callers, Calls, UNCHANGED caller
  PROVE  LoadingInv'
<1>1. CASE call' # "load" /\ pc' # "loading"
  BY <1>1 DEF LoadingInv
<1>2. CASE pc' # "loading" /\ result' \notin {"ok", "abort"}
  BY <1>2 DEF LoadingInv
<1>3. CASE \E a \in Areas : RegisterMemoryArea(a)
  BY <1>1, <1>3 DEF RegisterMemoryArea, Ready
<1>4. CASE \E c \in {"stage", "load"} : StageElf(c)
  BY <1>2, <1>4 DEF StageElf
<1>5. CASE \E paddr \in 0 .. Lim - 1, size \in 1 .. MaxSize :
             StageSegment(paddr, size) \/ FlattenSegment(paddr, size)
  <2>1. (pc' = "staging" \/ pc' = "flattening") /\ result' = "none"
    BY <1>5 DEF StageSegment, FlattenSegment, CallInv
  <2>2. QED
    BY <1>2, <2>1
<1>6. CASE StageRejects
  BY <1>2, <1>6 DEF StageRejects, Throw
<1>7. CASE StageDone
  <2>1. CASE call = "load"
    <3>1. /\ pc' = "loading" /\ result' = "none" /\ UNCHANGED <<areas, staging>>
          /\ todo' = UNION {{<<n, e>> : e \in staging[n].segs} : n \in DOMAIN staging}
      BY <1>7, <2>1 DEF StageDone, registryVars
    <3>2. ASSUME NEW n \in DOMAIN staging, NEW e \in staging[n].segs PROVE <<n, e>> \in todo'
      BY <3>1
    <3>3. ASSUME NEW i \in Idx, NEW e \in GetMemoryData(areas[i].name).segs
          PROVE  <<areas[i].name, e>> \in todo'
      <4>1. areas[i].name \in DOMAIN staging /\ e \in staging[areas[i].name].segs
        BY <3>3, DataFacts
      <4>2. QED
        BY <3>2, <4>1
    <3>4. ASSUME NEW t \in todo', NEW e \in staging[t[1]].segs PROVE <<t[1], e>> \in todo'
      <4>1. t[1] \in DOMAIN staging
        BY <3>1
      <4>2. QED
        BY <3>2, <4>1
    <3>5. \A n : GetMemoryData(n)' = GetMemoryData(n)
      BY <3>1 DEF GetMemoryData
    <3>6. Idx' = Idx
      BY <3>1 DEF Idx
    <3>7. QED
      BY <3>1, <3>3, <3>4, <3>5, <3>6 DEF LoadingInv
  <2>2. CASE call # "load"
    BY <1>1, <1>7, <2>2 DEF StageDone
  <2>3. QED
    BY <2>1, <2>2
<1>8. CASE LoadSegment
  BY <1>8, LoadSegmentStep
<1>9. CASE LoadDone
  <2>1. /\ pc = "loading" /\ todo = {} /\ pc' = "idle" /\ result' = "ok" /\ call = "load"
        /\ UNCHANGED <<areas, staging, call, mem, caller>>
    BY <1>9 DEF LoadDone, Throw, registryVars, CallInv
  <2>2. ASSUME NEW i \in Idx, NEW e \in GetMemoryData(areas[i].name).segs
        PROVE  InMemory(areas[i], e)'
    <3>1. InMemory(areas[i], e)
      BY <2>1 DEF LoadingInv
    <3>2. QED
      BY <2>1, <3>1 DEF InMemory, Instance, InstanceFrom
  <2>3. \A n : GetMemoryData(n)' = GetMemoryData(n)
    BY <2>1 DEF GetMemoryData
  <2>4. Idx' = Idx
    BY <2>1 DEF Idx
  <2>5. QED
    BY <2>1, <2>2, <2>3, <2>4 DEF LoadingInv
<1>10. CASE \E a \in Areas, type \in {"elf", "vmem", "unknown"} : LoadFileToNamedMem(a.name, type)
  BY <1>1, <1>10 DEF LoadFileToNamedMem, Ready
<1>11. CASE FlattenRejects \/ FlattenWrite
  BY <1>1, <1>11 DEF FlattenRejects, FlattenWrite, Throw, CallInv
<1>12. QED
  BY <1>3, <1>4, <1>5, <1>6, <1>7, <1>8, <1>9, <1>10, <1>11 DEF Calls

LEMMA InitLoading == Init => LInv
<1> SUFFICES ASSUME Init PROVE LInv
  OBVIOUS
<1>1. Idx = {}
  BY DEF Init, Idx
<1>2. FitInv
  BY <1>1 DEF FitInv
<1>3. LoadingInv
  BY DEF Init, LoadingInv
<1>4. QED
  BY <1>2, <1>3, InitInv DEF LInv, Init

LEMMA NextLoading ==
  ASSUME DistinctMemories
  PROVE  LInv /\ [Next]_vars => LInv'
<1> SUFFICES ASSUME LInv, [Next]_vars PROVE LInv'
  OBVIOUS
<1>1. IInv /\ IInv' /\ FitInv /\ LoadingInv /\ caller \in Callers
  BY NextInv DEF LInv
<1>2. MemTyped(mem)
  BY <1>1 DEF IInv, TypeOK, MemTyped
<1>3. CASE Next
  <2>1. Calls /\ UNCHANGED caller
    BY <1>3 DEF Next
  <2>2. FitInv'
    BY <1>1, <2>1, FitStep DEF IInv
  <2>3. LoadingInv'
    BY <1>1, <1>2, <2>1, LoadingStep DEF IInv
  <2>4. QED
    BY <1>1, <2>1, <2>2, <2>3 DEF LInv
<1>4. CASE UNCHANGED vars
  <2>1. /\ UNCHANGED <<areas, staging, call, pc, result, todo, mem, caller>>
        /\ Idx' = Idx
    BY <1>4 DEF vars, Idx
  <2>2. \A n : GetMemoryData(n)' = GetMemoryData(n)
    BY <2>1 DEF GetMemoryData
  <2>3. FitInv'
    BY <1>1, <2>1, <2>2 DEF FitInv
  <2>4. \A i, e : InMemory(areas[i], e)' <=> InMemory(areas[i], e)
    BY <2>1 DEF InMemory, Instance, InstanceFrom
  <2>5. LoadingInv'
    BY <1>1, <2>1, <2>2, <2>4 DEF LoadingInv
  <2>6. QED
    BY <1>1, <2>1, <2>3, <2>5 DEF LInv
<1>5. QED
  BY <1>3, <1>4

\* When all segments are in their memories, so is the image.
LEMMA LoadingIsImage == LInv => LoadedIsImage
<1> SUFFICES ASSUME LInv, call = "load" PROVE LoadedIsImage
  BY DEF LoadedIsImage
<1>1. RegistryInv /\ CallInv /\ StagingInv /\ StagedIsImage /\ LoadingInv
  BY DEF LInv, IInv
<1>2. ASSUME result = "ok", NEW i \in Idx, NEW k \in 0 .. SizeBytes(areas[i]) - 1,
             Covered(file, areas[i].base + k)
      PROVE  ReadBack(i, k) = ImageByte(file, areas[i].base + k)
  <2> DEFINE a == areas[i]
             w == a.width
             segs == GetMemoryData(a.name).segs
             byte == ImageByte(file, a.base + k)
  <2>1. pc = "idle"
    BY <1>1, <1>2 DEF CallInv
  <2>2. Bytes(segs, k) = {byte}
    BY <1>1, <1>2, StagedIsImageAsBytes DEF ImagePart
  <2>3. PICK e \in segs : Holds(e, k) /\ At(e, k) = byte
    BY <2>2 DEF Bytes
  <2>4. InMemory(a, e) /\ Segment(e)
    BY <1>1, <1>2, <2>1, DataFacts DEF LoadingInv
  <2>5. a \in Areas /\ k \in Nat /\ w \in Nat \ {0}
    BY <1>1, RegistryRanges, AreaFacts
  <2>6. mem[Instance(a)][k] = byte
    <3>1. /\ e.lo \in Nat /\ e.hi \in Nat /\ Len(e.val) = e.hi - e.lo + 1
      BY <2>4, SegmentFacts
    <3>2. k - e.lo \in 0 .. Len(e.val) - 1 /\ e.lo + (k - e.lo) = k
      BY <2>3, <2>5, <3>1 DEF Holds
    <3>3. mem[Instance(a)][k] = e.val[(k - e.lo) + 1]
      BY <2>4, <3>2 DEF InMemory
    <3>4. QED
      BY <2>3, <3>3 DEF At
  <2>7. k \div w \in Nat /\ (k % w) \in 0 .. w - 1 /\ (k \div w) * w + (k % w) = k
    BY <2>5, DivFacts
  <2>8. ReadBack(i, k) = [b \in 0 .. w - 1 |-> mem[Instance(a)][(k \div w) * w + b]][k % w]
    BY DEF ReadBack, Read
  <2> HIDE DEF w, a, byte
  <2>9. ReadBack(i, k) = mem[Instance(a)][(k \div w) * w + (k % w)]
    BY <2>7, <2>8
  <2>10. ReadBack(i, k) = byte
    BY <2>6, <2>7, <2>9
  <2>11. QED
    BY <2>10 DEF a, byte
<1>3. result # "abort"
  BY <1>1 DEF LoadingInv
<1>4. QED
  BY <1>2, <1>3 DEF LoadedIsImage

\* A load that succeeds leaves the whole image in the memories, and no file makes it abort, if
\* areas that can be registered together are different memories.
THEOREM LoadedIsTheImage ==
  ASSUME DistinctMemories
  PROVE  Spec => []LoadedIsImage
<1>1. Init => LInv
  BY InitLoading
<1>2. LInv /\ [Next]_vars => LInv'
  BY NextLoading
<1>3. LInv => LoadedIsImage
  BY LoadingIsImage
<1>4. QED
  BY <1>1, <1>2, <1>3, PTL DEF Spec
=============================================================================
