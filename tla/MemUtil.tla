------------------------------- MODULE MemUtil -------------------------------
(***************************************************************************)
(* DpiMemUtil, the loader that places images in the memories of the        *)
(* simulated design: the registry of memory areas, the staging area and    *)
(* the word-wise accesses of MemArea in the scopes of the design.  Calls   *)
(* do not overlap; a call that loops over segments is one action per       *)
(* segment, because each iteration may throw and leave behind what the     *)
(* earlier ones did.                                                       *)
(*                                                                         *)
(* A byte of an image is the pair <<number of the segment, offset in it>>, *)
(* so that every byte of every file can be told from every other.          *)
(***************************************************************************)
EXTENDS Integers, FiniteSets, RangedMap, SvScope

CONSTANTS
  Lim,       \* number of addresses: uint32_t holds 0 .. Lim-1
  Areas,     \* memories to register: [name, base, words, width, kind, scope]
  Memories,  \* the memories in the design: scope -> number of bytes
  KeyScopes, \* the scopes that export a scrambling key and nonce
  Callers,   \* scopes that may be set when the loader is called
  MaxAreas,  \* bound on the registered areas
  MaxFile,   \* bound on the segments of one file
  MaxSize,   \* bound on the size of a segment, in bytes
  MaxWork    \* bound on the loads of a run and their segments, together

ASSUME AreasAssumption ==
  \A a \in Areas : /\ a.base \in 0 .. Lim - 1 /\ a.name \in Nat
                   /\ a.words \in Nat \ {0} /\ a.width \in Nat \ {0}
                   /\ a.kind \in {"plain", "ecc", "scrambled"}
                   /\ a.scope.dots \in Nat
ASSUME MemoriesAssumption == \A at \in DOMAIN Memories : Memories[at] \in Nat
ASSUME BoundsAssumption == Lim \in Nat \ {0} /\ MaxSize \in Nat /\ MaxWork \in Nat

Zero == <<0, 0>>
Junk == <<0, 1>>   \* a byte from beyond the end of a vector
Vmem == <<0, 2>>   \* a byte of a vmem file
Byte == ((1 .. MaxWork) \X (1 .. MaxSize)) \cup {Zero, Junk, Vmem}

VARIABLES
  areas,       \* mem_areas_, base_addrs_ and names_: a sequence of records
  nameToMem,   \* name_to_mem_: name -> index
  addrToMem,   \* addr_to_mem_: RangedMap of indices
  staging,     \* staging_area_: name -> StagedMem
  call, pc,    \* the API call, and how far it is
  result,      \* outcome of the last call
  file,        \* segments of the file the call has accepted so far
  todo,        \* staged segments LoadElfToMemories has yet to write
  target,      \* index of the memory of LoadFileToNamedMem
  mem,         \* contents of the memories, by scope
  caller,      \* the scope the caller has set
  work         \* loads and segments so far

vars == <<areas, nameToMem, addrToMem, staging, call, pc, result, file, todo,
          target, mem, caller, work>>
registryVars == <<areas, nameToMem, addrToMem>>

Idx == 1 .. Len(areas)

\* GetSizeBytes, in 32 bits.
SizeBytes(a) == (a.words * a.width) % Lim

\* "Must be positive", says mem_area.h:30: a size that wraps to 0 is not a size.
ASSUME SizeAssumption == \A a \in Areas : SizeBytes(a) # 0

\* Mutant: the top of an area is computed without wrapping around.
TopOfUnwrapped(a) == a.base + SizeBytes(a) - 1

\* The last address of an area, in 32 bits.
TopOf(a) == (a.base + SizeBytes(a) - 1) % Lim

\* A std::map with a value stored under a key.
Put(map, key, val) == [k \in DOMAIN map \cup {key} |-> IF k = key THEN val ELSE map[k]]

EmptyStaged == [min |-> Lim - 1, max |-> 0, segs |-> {}]

GetMemoryData(name) == IF name \in DOMAIN staging THEN staging[name] ELSE EmptyStaged

\* The data of segment number i.
Payload(i, size) == [k \in 1 .. size |-> <<i, k>>]

-----------------------------------------------------------------------------
(* StagedMem *)

\* Mutant: the kept tail of the older segment starts one byte too early.
MergeSegmentsEarly(seg0, seg1) ==
  IF seg1.lo <= seg0.lo
  THEN IF seg0.hi <= seg1.hi THEN seg1.val
       ELSE LET srcOff == seg1.hi - seg0.lo
            IN  seg1.val \o SubSeq(seg0.val, srcOff + 1, srcOff + (seg0.hi - seg1.hi))
  ELSE LET newLen == 1 + IF seg0.hi >= seg1.hi THEN seg0.hi - seg0.lo
                                               ELSE seg1.hi - seg0.lo
           off == seg1.lo - seg0.lo
       IN  [k \in 1 .. newLen |->
              IF off < k /\ k <= off + Len(seg1.val) THEN seg1.val[k - off]
              ELSE IF k <= Len(seg0.val) THEN seg0.val[k] ELSE Zero]

\* The newer segment seg1 over the older seg0: only the bytes of seg0 that
\* stick out are kept, on the right of seg1 or around it.
MergeSegments(seg0, seg1) ==
  IF seg1.lo <= seg0.lo
  THEN IF seg0.hi <= seg1.hi THEN seg1.val
       ELSE LET srcOff == 1 + (seg1.hi - seg0.lo)
            IN  seg1.val \o SubSeq(seg0.val, srcOff + 1, srcOff + (seg0.hi - seg1.hi))
  ELSE LET newLen == 1 + IF seg0.hi >= seg1.hi THEN seg0.hi - seg0.lo
                                               ELSE seg1.hi - seg0.lo
           off == seg1.lo - seg0.lo
       IN  [k \in 1 .. newLen |->
              IF off < k /\ k <= off + Len(seg1.val) THEN seg1.val[k - off]
              ELSE IF k <= Len(seg0.val) THEN seg0.val[k] ELSE Zero]

\* One iteration of the merge loop of Emplace: the older entry e under the accumulated newer one.
MergeInto(acc, e) == Entry(IF acc.lo <= e.lo THEN acc.lo ELSE e.lo,
                           IF acc.hi >= e.hi THEN acc.hi ELSE e.hi,
                           MergeSegments(e, acc))

\* The merge loop goes through the hits from the lowest on: what the new entry is after those
\* that start below n.
MergeHits(hits, new) ==
  LET acc[n \in 0 .. Lim] ==
        IF n = 0 THEN new
        ELSE IF \E e \in hits : e.lo = n - 1
             THEN MergeInto(acc[n - 1], CHOOSE e \in hits : e.lo = n - 1)
             ELSE acc[n - 1]
  IN  acc

Emplace(map, new) ==
  LET hits == Hits(map, new.lo, new.hi)
  IN  IF hits = {} THEN Insert(map, new)
      ELSE Insert(map \ hits, MergeHits(hits, new)[Lim])

AddSegment(staged, offset, seg) ==
  LET segTop == (offset + Len(seg) - 1) % Lim IN
  IF seg = <<>> THEN staged
  ELSE [min |-> IF offset < staged.min THEN offset ELSE staged.min,
        max |-> IF segTop > staged.max THEN segTop ELSE staged.max,
        segs |-> Emplace(staged.segs, Entry(offset, segTop, seg))]

\* Mutant: the last byte of every segment is left out.
GetFlatShort(staged) ==
  [k \in 1 .. 1 + ((staged.max - staged.min) % Lim) |->
     LET at == {e \in staged.segs : e.lo - staged.min < k /\ k <= e.hi - staged.min}
     IN  IF at = {} THEN Zero
         ELSE LET e == CHOOSE e \in at : TRUE IN e.val[k - (e.lo - staged.min)]]

\* The bytes of a staged memory from its lowest to its highest, with zeros in
\* the gaps; byte k of the vector is at index k + 1 here.
GetFlat(staged) ==
  [k \in 1 .. 1 + ((staged.max - staged.min) % Lim) |->
     LET at == {e \in staged.segs : e.lo - staged.min < k /\ k <= 1 + e.hi - staged.min}
     IN  IF at = {} THEN Zero
         ELSE LET e == CHOOSE e \in at : TRUE IN e.val[k - (e.lo - staged.min)]]

-----------------------------------------------------------------------------
(* RegisterMemoryArea *)

Ready == pc = "idle" /\ result # "abort"

RegisterMemoryArea(a) ==
  LET addrTop == TopOf(a)
      idx == Len(areas) + 1
      new == Entry(a.base, addrTop, idx)
      clash == Clashes(addrToMem, a.base, addrTop)
  IN
  /\ Ready /\ work = 0 /\ Len(areas) < MaxAreas
  /\ call' = "register"
  /\ \/ /\ addrTop < a.base \/ a.name \in DOMAIN nameToMem
        /\ result' = "runtime_error"
        /\ UNCHANGED registryVars
     \/ /\ addrTop >= a.base /\ a.name \notin DOMAIN nameToMem
        /\ clash = {}
        /\ addrToMem' = EmplaceDisjoint(addrToMem, new)
        /\ nameToMem' = Put(nameToMem, a.name, idx)
        /\ areas' = Append(areas, a)
        /\ result' = "ok"
     \* The name was entered first and is taken out again on a clash; the
     \* assertion on the way looks at the index stored in the clashing entry,
     \* which is 0 for the first area.
     \/ /\ addrTop >= a.base /\ a.name \notin DOMAIN nameToMem
        /\ \E e \in clash :
             IF e.val = 1
             THEN result' = "abort" /\ nameToMem' = Put(nameToMem, a.name, idx)
             ELSE result' = "runtime_error" /\ nameToMem' = nameToMem
        /\ UNCHANGED <<areas, addrToMem>>
  /\ UNCHANGED <<staging, pc, file, todo, target, mem, work>>

-----------------------------------------------------------------------------
(* MemArea: one word at a time, each in a scope of its own. *)

\* The memory behind an area, as named from a scope: ScrambledEcc32MemArea takes the scope of
\* the scrambled RAM, which has the key, and finds the memory below it.
InstanceFrom(scope, a) ==
  Resolved(scope, IF a.kind = "scrambled" THEN JoinScopes(a.scope, <<"mem">>) ELSE a.scope)

Instance(a) == InstanceFrom(caller, a)

\* Areas that can be registered together are different memories, whichever scope is set.
DistinctMemories ==
  \A scope \in Callers : \A a, b \in Areas :
    a.name # b.name /\ a.base <= TopOf(a) /\ TopOf(a) < b.base /\ b.base <= TopOf(b) =>
      InstanceFrom(scope, a) # InstanceFrom(scope, b)

ScopesExist(a) ==
  /\ Instance(a) \in DOMAIN Memories
  /\ a.kind = "scrambled" => Resolved(caller, a.scope) \in KeyScopes

\* simutil_set_mem and simutil_get_mem refuse an index that is not one of the memory.
Reachable(a, word) == ScopesExist(a) /\ word < Memories[Instance(a)] \div a.width

\* Byte k (from 0) of the word-wise image of data: the last word is padded.
\* An Ecc32MemArea takes whole words from the vector, whatever its length.
Padded(data, k, a, pad) == IF k < Len(data) THEN data[k + 1]
                           ELSE IF a.kind = "plain" THEN Zero ELSE pad

\* The memory of area a after the first `words` words of data are written at
\* word offset off.
Written(contents, a, off, words, data, pad) ==
  [k \in DOMAIN contents |->
     IF off * a.width <= k /\ k < (off + words) * a.width
     THEN Padded(data, k - off * a.width, a, pad) ELSE contents[k]]

\* Mutant: an incomplete last word is not counted.
DataWordsDown(data, a) == Len(data) \div a.width

DataWords(data, a) == (Len(data) + a.width - 1) \div a.width

\* How many words of data go out before one is refused.
WordsOut(off, data, a) ==
  Cardinality({k \in 0 .. DataWords(data, a) - 1 : Reachable(a, off + k)})

\* All words go out, or one is refused and the write throws with the words before it
\* already in the memory.
Write(a, off, data, refused) ==
  /\ refused <=> WordsOut(off, data, a) < DataWords(data, a)
  /\ IF ~ScopesExist(a) THEN mem' = mem
     ELSE \E pad \in {Zero, Junk} :
            mem' = [mem EXCEPT ![Instance(a)] = Written(@, a, off, WordsOut(off, data, a), data, pad)]

\* What Read returns of one word.
Read(a, word) == [b \in 0 .. a.width - 1 |-> mem[Instance(a)][word * a.width + b]]

\* Memories with ECC refuse vmem files, and so does a scope that is not there.
TakesVmem(a) == a.kind = "plain" /\ ScopesExist(a)

\* simutil_memload: a vmem file has data for any words of the memory.
LoadVmem(a) ==
  \E words \in SUBSET (0 .. Memories[Instance(a)] \div a.width - 1) :
    mem' = [mem EXCEPT ![Instance(a)] =
              [k \in DOMAIN @ |-> IF k \div a.width \in words THEN Vmem ELSE @[k]]]

-----------------------------------------------------------------------------
(* StageElf, and LoadElfToMemories on top of it *)

Throw(error) == /\ pc' = "idle" /\ result' = error
                /\ UNCHANGED <<registryVars, call, target, work>>

\* The staging area is cleared before the file is looked at.
StageElf(c) ==
  /\ Ready /\ areas # <<>> /\ work < MaxWork
  /\ call' = c /\ work' = work + 1 /\ pc' = "staging"
  /\ staging' = << >> /\ file' = <<>> /\ todo' = {} /\ result' = "none"
  /\ UNCHANGED <<registryVars, target, mem>>

\* GetRegionForSegment: the area the first byte is in has to hold the last one.
RegionFits(paddr, size) ==
  /\ paddr + size - 1 < Lim
  /\ \E e \in Find(addrToMem, paddr) :
       SizeBytes(areas[e.val]) > paddr + size - 1 - areas[e.val].base

\* A segment is accepted if a region holds it, it starts on a word of it, and
\* its data lies within the file.
StageSegment(paddr, size) ==
  /\ pc = "staging" /\ Len(file) < MaxFile /\ work < MaxWork
  /\ RegionFits(paddr, size)
  /\ LET idx == (CHOOSE e \in Find(addrToMem, paddr) : TRUE).val
         local == paddr - areas[idx].base
         name == areas[idx].name
         seg == Payload(work + 1, size)
     IN  /\ local % areas[idx].width = 0
         /\ staging' = Put(staging, name, AddSegment(GetMemoryData(name), local, seg))
  /\ work' = work + 1
  /\ file' = Append(file, [paddr |-> paddr, size |-> size, id |-> work + 1])
  /\ UNCHANGED <<registryVars, call, pc, result, todo, target, mem>>

\* A segment outside every region, one that is not aligned, or one whose data
\* lies outside the file ends the call; what was staged before it stays.
StageRejects ==
  /\ pc = "staging"
  /\ Throw("elf_error")
  /\ UNCHANGED <<staging, file, todo, mem>>

\* After the last segment StageElf returns, and LoadElfToMemories goes on.
StageDone ==
  /\ pc = "staging"
  /\ IF call = "load"
     THEN /\ pc' = "loading" /\ result' = "none"
          /\ todo' = UNION {{<<n, e>> : e \in staging[n].segs} : n \in DOMAIN staging}
     ELSE pc' = "idle" /\ result' = "ok" /\ todo' = todo
  /\ UNCHANGED <<registryVars, staging, call, file, target, mem, work>>

\* The next staged segment in the order of the two maps.
NextTodo == CHOOSE t \in todo :
              \A u \in todo : t[1] < u[1] \/ (t[1] = u[1] /\ t[2].lo <= u[2].lo)

\* The two assertions on the way: the segment starts on a word, and the words
\* it fills are words of the memory.
LoadAsserts(idx, e) ==
  /\ e.lo % areas[idx].width = 0
  /\ e.lo \div areas[idx].width + DataWords(e.val, areas[idx]) <= areas[idx].words

LoadSegment ==
  /\ pc = "loading" /\ todo # {}
  /\ LET name == NextTodo[1]
         e == NextTodo[2]
         idx == nameToMem[name]
         off == e.lo \div areas[idx].width
     IN  IF LoadAsserts(idx, e)
         THEN \/ /\ Write(areas[idx], off, e.val, FALSE)
                 /\ todo' = todo \ {NextTodo}
                 /\ UNCHANGED <<registryVars, call, pc, result, target, work>>
              \/ /\ Write(areas[idx], off, e.val, TRUE)
                 /\ Throw("runtime_error") /\ todo' = todo
         ELSE Throw("abort") /\ UNCHANGED <<todo, mem>>
  /\ UNCHANGED <<staging, file>>

LoadDone == /\ pc = "loading" /\ todo = {}
            /\ Throw("ok")
            /\ UNCHANGED <<staging, file, todo, mem>>

-----------------------------------------------------------------------------
(* LoadFileToNamedMem *)

\* The types there are; it comes from a name, or else from the extension of the file, and
\* a file without one is taken for an ELF file.
ImageTypes == {"elf", "vmem"}

\* The type is looked at first.
LoadFileToNamedMem(name, type) ==
  /\ Ready /\ areas # <<>> /\ work < MaxWork
  /\ call' = type /\ work' = work + 1 /\ file' = <<>>
  /\ IF type \notin ImageTypes \/ name \notin DOMAIN nameToMem
     THEN pc' = pc /\ result' = "runtime_error" /\ UNCHANGED <<target, mem>>
     ELSE LET a == areas[nameToMem[name]] IN
          /\ target' = nameToMem[name]
          /\ \/ /\ type = "elf"
                /\ pc' = "flattening" /\ result' = "none" /\ mem' = mem
             \/ /\ type = "vmem" /\ pc' = pc
                /\ IF TakesVmem(a)
                   THEN result' = "ok" /\ LoadVmem(a)
                   ELSE result' = "runtime_error" /\ mem' = mem
  /\ UNCHANGED <<registryVars, staging, todo>>

\* FlattenElfFile looks at all segments, the first time for their bounds only.
FlattenSegment(paddr, size) ==
  /\ pc = "flattening" /\ Len(file) < MaxFile /\ work < MaxWork
  /\ paddr + size - 1 < Lim
  /\ work' = work + 1
  /\ file' = Append(file, [paddr |-> paddr, size |-> size, id |-> work + 1])
  /\ UNCHANGED <<registryVars, staging, call, pc, result, todo, target, mem>>

\* A segment that wraps around or whose data lies outside the file.
FlattenRejects == /\ pc = "flattening"
                  /\ Throw("elf_error")
                  /\ UNCHANGED <<staging, file, todo, mem>>

\* The lowest address of the file.
Low(f) == CHOOSE a \in {f[i].paddr : i \in DOMAIN f} :
            \A i \in DOMAIN f : a <= f[i].paddr

\* The first n segments of the file put together, relative to its lowest address.
Flattened(f) ==
  LET staged[n \in 0 .. Len(f)] ==
        IF n = 0 THEN EmptyStaged
        ELSE AddSegment(staged[n - 1], f[n].paddr - Low(f), Payload(f[n].id, f[n].size))
  IN  staged

\* The file as one vector.
FlattenElfFile(f) == IF f = <<>> THEN <<>> ELSE GetFlat(Flattened(f)[Len(f)])

\* Nothing is checked before MemArea::Write asserts that the image fits.
FlattenWrite ==
  /\ pc = "flattening"
  /\ LET flat == FlattenElfFile(file) IN
       IF DataWords(flat, areas[target]) <= areas[target].words
       THEN \/ Write(areas[target], 0, flat, FALSE) /\ Throw("ok")
            \/ Write(areas[target], 0, flat, TRUE) /\ Throw("runtime_error")
       ELSE Throw("abort") /\ mem' = mem
  /\ UNCHANGED <<staging, file, todo>>

-----------------------------------------------------------------------------

Init == /\ areas = <<>> /\ nameToMem = << >> /\ addrToMem = {}
        /\ staging = << >> /\ call = "none" /\ pc = "idle" /\ result = "none"
        /\ file = <<>> /\ todo = {} /\ target = 0 /\ work = 0
        /\ mem = [at \in DOMAIN Memories |-> [k \in 0 .. Memories[at] - 1 |-> Zero]]
        /\ caller \in Callers

Calls ==
  \/ \E a \in Areas : RegisterMemoryArea(a)
  \/ \E c \in {"stage", "load"} : StageElf(c)
  \/ \E paddr \in 0 .. Lim - 1, size \in 1 .. MaxSize :
       \/ StageSegment(paddr, size)
       \/ FlattenSegment(paddr, size)
  \/ StageRejects \/ StageDone \/ LoadSegment \/ LoadDone
  \/ \E a \in Areas, type \in {"elf", "vmem", "unknown"} : LoadFileToNamedMem(a.name, type)
  \/ FlattenRejects \/ FlattenWrite

\* Every access restores the scope it has found, also when it throws.
Next == Calls /\ UNCHANGED caller

Spec == Init /\ [][Next]_vars

-----------------------------------------------------------------------------
(* Properties. *)

\* The registers of the loader hold values of their types.
TypeOK ==
  /\ areas \in Seq(Areas) /\ nameToMem \in [DOMAIN nameToMem -> Nat]
  /\ \A e \in addrToMem : e.lo \in 0 .. Lim - 1 /\ e.hi \in 0 .. Lim - 1
  /\ call \in {"none", "register", "stage", "load", "elf", "vmem", "unknown"}
  /\ pc \in {"idle", "staging", "loading", "flattening"}
  /\ result \in {"none", "ok", "runtime_error", "elf_error", "abort"}
  /\ \A i \in DOMAIN file : file[i].size \in 1 .. MaxSize
  /\ DOMAIN mem = DOMAIN Memories
  /\ \A at \in DOMAIN Memories : mem[at] \in [0 .. Memories[at] - 1 -> Byte]

\* Whatever was registered, refused or rolled back: the two maps and the three
\* vectors describe the same areas, and no address belongs to two of them.
RegistryConsistent ==
  /\ Disjoint(addrToMem)
  /\ addrToMem = {Entry(areas[i].base, areas[i].base + SizeBytes(areas[i]) - 1, i) :
                    i \in Idx}
  /\ result # "abort" =>
       /\ DOMAIN nameToMem = {areas[i].name : i \in Idx}
       /\ \A i \in Idx : nameToMem[areas[i].name] = i

\* The byte of the file that belongs at an address: that of its last segment
\* there, or Zero.
ImageByte(f, a) ==
  LET at == {i \in DOMAIN f : f[i].paddr <= a /\ a < f[i].paddr + f[i].size}
      last == CHOOSE i \in at : \A j \in at : j <= i
  IN  IF at = {} THEN Zero ELSE <<f[last].id, a - f[last].paddr + 1>>

Covered(f, a) == ImageByte(f, a) # Zero

\* Whatever the order and the overlaps of the segments, the staging area holds
\* exactly the image of the segments staged so far, the later ones on top.
StagedIsImage ==
  call \in {"stage", "load"} =>
    \A i \in Idx : \A k \in 0 .. SizeBytes(areas[i]) - 1 :
      LET segs == GetMemoryData(areas[i].name).segs
          at == {e \in segs : e.lo <= k /\ k <= e.hi}
      IN  {e.val[k - e.lo + 1] : e \in at} =
            IF Covered(file, areas[i].base + k)
            THEN {ImageByte(file, areas[i].base + k)} ELSE {}

\* Byte k of area i as it is read back.
ReadBack(i, k) == Read(areas[i], k \div areas[i].width)[k % areas[i].width]

\* A load that succeeds leaves every byte of the image in its memory, whatever an earlier
\* load has left there that failed midway: the padding of one segment never runs over
\* the data of another.  And a segment that was accepted never makes the loader abort.
LoadedIsImage ==
  call = "load" =>
    /\ result # "abort"
    /\ result = "ok" =>
         \A i \in Idx : \A k \in 0 .. SizeBytes(areas[i]) - 1 :
           Covered(file, areas[i].base + k) =>
             ReadBack(i, k) = ImageByte(file, areas[i].base + k)

\* A file loaded by name ends up in the memory from its lowest address on,
\* with zeros in its gaps.
NamedIsImage ==
  call = "elf" /\ result = "ok" /\ file # <<>> =>
    \A k \in 0 .. SizeBytes(areas[target]) - 1 :
      /\ Covered(file, Low(file) + k) => ReadBack(target, k) = ImageByte(file, Low(file) + k)
      /\ ~Covered(file, Low(file) + k) /\ (\E j \in k + 1 .. Lim : Covered(file, Low(file) + j))
           => ReadBack(target, k) = Zero

\* Registering a memory that overlaps another one is reported as a
\* std::runtime_error.
ClashIsReported == call = "register" => result # "abort"

-----------------------------------------------------------------------------
(* The inductive invariant behind the safety properties. *)

\* Disjoint segments, each with as many bytes as its range.
Segments(segs) ==
  /\ segs \subseteq [lo : 0 .. Lim - 1, hi : 0 .. Lim - 1, val : Seq(Byte)]
  /\ Disjoint(segs)
  /\ \A e \in segs : Len(e.val) = e.hi - e.lo + 1

\* Segments within the bounds that AddSegment keeps.
Staged(staged) ==
  /\ Segments(staged.segs)
  /\ staged.min \in 0 .. Lim - 1 /\ staged.max \in 0 .. Lim - 1
  /\ \A e \in staged.segs : staged.min <= e.lo /\ e.hi <= staged.max

\* No area wraps around, no two share an address or a name, and nothing but an abort leaves a
\* name behind.
RegistryInv ==
  /\ areas \in Seq(Areas)
  /\ \A i \in Idx : areas[i].base <= TopOf(areas[i])
  /\ addrToMem = {Entry(areas[i].base, TopOf(areas[i]), i) : i \in Idx}
  /\ Disjoint(addrToMem)
  /\ \A i, j \in Idx : areas[i].name = areas[j].name => i = j
  /\ result # "abort" =>
       /\ DOMAIN nameToMem = {areas[i].name : i \in Idx}
       /\ \A i \in Idx : nameToMem[areas[i].name] = i

\* A call has no result before it is over, and knows its memory.
CallInv ==
  /\ pc # "idle" => result = "none"
  /\ pc = "staging" => call \in {"stage", "load"}
  /\ pc = "loading" => call = "load"
  /\ pc = "flattening" => call = "elf" /\ target \in Idx

\* The segments of the file lie within the address space.
FileInv ==
  /\ work \in Nat
  /\ file \in Seq([paddr : 0 .. Lim - 1, size : 1 .. MaxSize, id : 1 .. MaxWork])
  /\ \A i \in DOMAIN file : file[i].paddr + file[i].size - 1 < Lim

\* What is staged is staged for a registered memory, and all that is left to load is staged.
StagingInv ==
  /\ DOMAIN staging \subseteq {areas[i].name : i \in Idx}
  /\ \A n \in DOMAIN staging : Staged(staging[n])
  /\ pc = "loading" =>
       todo \subseteq UNION {{<<n, e>> : e \in staging[n].segs} : n \in DOMAIN staging}

\* Staged segments start on a word of their memory and end within it.
FitInv ==
  \A i \in Idx : \A e \in GetMemoryData(areas[i].name).segs :
    e.lo % areas[i].width = 0 /\ e.hi < SizeBytes(areas[i])

\* Segment e is in the memory behind area a.
InMemory(a, e) ==
  /\ Instance(a) \in DOMAIN Memories
  /\ \A k \in 0 .. Len(e.val) - 1 : /\ e.lo + k < Memories[Instance(a)]
                                  /\ mem[Instance(a)][e.lo + k] = e.val[k + 1]

\* What LoadElfToMemories has taken from its list is in its memory, and lies below what is left
\* for that memory, whose padding therefore misses it.
LoadingInv ==
  /\ call = "load" => result # "abort"
  /\ call = "load" /\ (pc = "loading" \/ result = "ok") =>
       \A i \in Idx : \A e \in GetMemoryData(areas[i].name).segs :
         InMemory(areas[i], e) \/ (pc = "loading" /\ <<areas[i].name, e>> \in todo)
  /\ pc = "loading" =>
       \A t \in todo : \A e \in staging[t[1]].segs : <<t[1], e>> \notin todo => e.lo < t[2].lo

IInv == /\ TypeOK /\ RegistryInv /\ CallInv /\ FileInv /\ StagingInv
        /\ StagedIsImage /\ NamedIsImage

\* The invariant of loading, which needs DistinctMemories.
LInv == IInv /\ FitInv /\ LoadingInv /\ caller \in Callers
=============================================================================
