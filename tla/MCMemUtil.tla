------------------------------ MODULE MCMemUtil ------------------------------
(* A small design with three memories, and areas that name them from      *)
(* different places.                                                       *)
EXTENDS MemUtil

Area(name, base, words, width, kind, scope) ==
  [name |-> name, base |-> base, words |-> words, width |-> width, kind |-> kind, scope |-> scope]

\* A ROM, a RAM with ECC that is shorter than its area, and a scrambled RAM.
MCMemories == (<<"TOP", "rom">> :> 4) @@ (<<"TOP", "core", "ram">> :> 2)
              @@ (<<"TOP", "core", "scr", "mem">> :> 2)
MCKeyScopes == {<<"TOP", "core", "scr">>}
MCCallers == {<<"TOP">>, <<"TOP", "core", "scr">>}

\* Two areas side by side, one that overlaps both, one with a name that is
\* taken, and one that runs over the top of the address space.
MCAreas == {Area(1, 0, 2, 2, "plain", ScopeName(0, <<"TOP", "rom">>)),
            Area(2, 4, 3, 1, "ecc", ScopeName(2, <<"ram">>)),
            Area(3, 2, 2, 2, "plain", ScopeName(3, <<"rom">>)),
            Area(1, 6, 1, 2, "scrambled", ScopeName(1, <<>>)),
            Area(4, 7, 2, 1, "plain", ScopeName(0, <<"TOP", "spare">>))}

\* What LoadedIsImage needs: no two of them name the same memory and can be registered together.
ASSUME MCDistinct == DistinctMemories
=============================================================================
