----------------------------- MODULE HeapProofs -----------------------------
(***************************************************************************)
(* Proofs about Heap, for every page size, heap size and set of sizes that *)
(* are asked for.                                                          *)
(*                                                                         *)
(* Neither BlocksTileHeap nor AllocationsDisjoint is inductive, as neither *)
(* says anything about the blocks that are left after merges: Ordered does *)
(* and holds with and without them.  What Search computes is not needed:   *)
(* mem_alloc refuses to map a page twice, so that the heap grows only      *)
(* behind its last block, wherever the search stopped.                     *)
(***************************************************************************)
EXTENDS Heap, TLAPS

End(h, hdr) == hdr + 1 + h[hdr].size

\* Blocks do not reach into each other or behind the first top units, back
\* links lead to the header before, and nothing follows the last block.
Ordered(h, top) ==
    /\ DOMAIN h \subseteq Nat
    /\ \A a \in DOMAIN h : h[a] \in Header /\ End(h, a) <= top
    /\ \A a, b \in DOMAIN h : a < b => End(h, a) <= b
    /\ \A a \in DOMAIN h :
           h[a].prev # NULL => /\ h[a].prev \in DOMAIN h /\ h[a].prev < a
                               /\ \A b \in DOMAIN h : ~(h[a].prev < b /\ b < a)
    /\ \A a, b \in DOMAIN h : h[a].end => b <= a

\* The next header follows each block at once.
Tiled(h, top) ==
    \A a \in DOMAIN h :
        IF h[a].end THEN End(h, a) = top
        ELSE IsHeader(h, End(h, a)) /\ h[End(h, a)].prev = a

\* The users' view: what is allocated is marked as used and large enough.
Allocated(h, l) ==
    /\ DOMAIN l \subseteq DOMAIN h
    /\ \A a \in DOMAIN l : l[a] \in Sizes /\ l[a] <= h[a].size
    /\ \A a \in DOMAIN h : h[a].used <=> a \in DOMAIN l

Top == mapped * PageUnits

IInv ==
    /\ TypeOK
    /\ outcome = "ok" =>
           /\ Ordered(hdrs, Top)
           /\ Allocated(hdrs, live)
           /\ ~merges => Tiled(hdrs, Top)
-----------------------------------------------------------------------------
(***************************************************************************)
(* Taking a block.                                                         *)
(***************************************************************************)

\* A header with some of its fields changed.
LEMMA HeaderFields ==
    ASSUME NEW x \in Header, NEW u \in BOOLEAN, NEW e \in BOOLEAN, NEW s \in Nat,
           NEW p \in Nat \cup {NULL}
    PROVE  /\ [x EXCEPT !.used = u] = [used |-> u, end |-> x.end, size |-> x.size, prev |-> x.prev]
           /\ [x EXCEPT !.end = e] = [used |-> x.used, end |-> e, size |-> x.size, prev |-> x.prev]
           /\ [x EXCEPT !.size = s] = [used |-> x.used, end |-> x.end, size |-> s, prev |-> x.prev]
           /\ [x EXCEPT !.prev = p] = [used |-> x.used, end |-> x.end, size |-> x.size, prev |-> p]
           /\ [used |-> u, end |-> e, size |-> s, prev |-> p] \in Header
           /\ x.used \in BOOLEAN /\ x.end \in BOOLEAN /\ x.size \in Nat
           /\ x.prev \in Nat \cup {NULL}
  BY DEF Header

\* What Split does to a block that is just large enough: it is taken.
LEMMA SplitWhole ==
    ASSUME NEW h, NEW hdr \in DOMAIN h, NEW size \in Nat,
           \A a \in DOMAIN h : h[a] \in Header, h[hdr].size < size + 2
    PROVE  LET s == Split(h, hdr, size)
           IN  /\ DOMAIN s = DOMAIN h
               /\ \A a \in DOMAIN h : s[a] \in Header
               /\ \A a \in DOMAIN h : s[a].size = h[a].size
               /\ \A a \in DOMAIN h : s[a].end = h[a].end
               /\ \A a \in DOMAIN h : s[a].prev = h[a].prev
               /\ \A a \in DOMAIN h \ {hdr} : s[a].used = h[a].used
               /\ s[hdr].used = TRUE
<1> DEFINE s == Split(h, hdr, size)
<1>1. s = [h EXCEPT ![hdr] = [h[hdr] EXCEPT !.used = TRUE]]
  BY DEF Split, Header
<1>2. [h[hdr] EXCEPT !.used = TRUE] =
          [used |-> TRUE, end |-> h[hdr].end, size |-> h[hdr].size, prev |-> h[hdr].prev]
  BY HeaderFields
<1>3. [h[hdr] EXCEPT !.used = TRUE] \in Header
  BY <1>2 DEF Header
<1> HIDE DEF s
<1>4. DOMAIN s = DOMAIN h /\ \A a \in DOMAIN h \ {hdr} : s[a] = h[a]
  BY <1>1
<1>5. s[hdr] = [used |-> TRUE, end |-> h[hdr].end, size |-> h[hdr].size, prev |-> h[hdr].prev]
  BY <1>1, <1>2
<1>6. \A a \in DOMAIN h : s[a] \in Header
  BY <1>1, <1>2, <1>3, <1>4, <1>5
<1>7. \A a \in DOMAIN h : s[a].size = h[a].size
  BY <1>4, <1>5
<1>8. \A a \in DOMAIN h : s[a].end = h[a].end
  BY <1>4, <1>5
<1>9. \A a \in DOMAIN h : s[a].prev = h[a].prev
  BY <1>4, <1>5
<1>10. \A a \in DOMAIN h \ {hdr} : s[a].used = h[a].used
  BY <1>4
<1>11. s[hdr].used = TRUE
  BY <1>5
<1> QED
  BY <1>4, <1>6, <1>7, <1>8, <1>9, <1>10, <1>11, Zenon DEF s

\* s is h with the block at hdr cut in two behind size units: the rest gets a
\* header of its own, and the block that followed points back to it.
IsCut(s, h, hdr, size) ==
    LET rest == hdr + 1 + size
    IN  /\ DOMAIN s = DOMAIN h \cup {rest}
        /\ s[rest] = [used |-> FALSE, end |-> h[hdr].end, prev |-> hdr,
                      size |-> h[hdr].size - size - 1]
        /\ s[hdr] = [used |-> TRUE, end |-> FALSE, prev |-> h[hdr].prev, size |-> size]
        /\ \A a \in DOMAIN h \ {hdr} :
               IF a = End(h, hdr) /\ ~h[hdr].end
               THEN s[a] = [used |-> h[a].used, end |-> h[a].end, prev |-> rest,
                            size |-> h[a].size]
               ELSE s[a] = h[a]

\* What Split does to a larger block.
LEMMA SplitCut ==
    ASSUME NEW h, NEW hdr \in DOMAIN h, NEW size \in Nat, DOMAIN h \subseteq Nat,
           \A a \in DOMAIN h : h[a] \in Header, h[hdr].size >= size + 2,
           hdr + 1 + size \notin DOMAIN h
    PROVE  IsCut(Split(h, hdr, size), h, hdr, size)
<1> DEFINE rest == hdr + 1 + size
           next == End(h, hdr)
           f == [h EXCEPT ![hdr].used = TRUE, ![hdr].end = FALSE, ![hdr].size = size]
           r == [used |-> FALSE, end |-> h[hdr].end, prev |-> hdr,
                 size |-> h[hdr].size - size - 1]
           cut == Put(f, rest, r)
           s == Split(h, hdr, size)
<1>1. /\ DOMAIN f = DOMAIN h
      /\ f[hdr] = [used |-> TRUE, end |-> FALSE, prev |-> h[hdr].prev, size |-> size]
      /\ \A a \in DOMAIN h \ {hdr} : f[a] = h[a]
  BY DEF Header
<1>2. rest \in Nat /\ rest # hdr /\ rest # next /\ hdr # next
  BY DEF Header, End
<1>3. s = IF h[hdr].end THEN cut ELSE IF next \in DOMAIN h THEN [cut EXCEPT ![next].prev = rest] ELSE cut
  BY DEF Split, IsHeader, find_next_hdr, End, Header
<1> HIDE DEF f, r, s, next, rest
<1>4. /\ DOMAIN cut = DOMAIN h \cup {rest}
      /\ cut[rest] = r
      /\ cut[hdr] = f[hdr]
      /\ \A a \in DOMAIN h \ {hdr} : cut[a] = h[a]
  BY <1>1, <1>2 DEF Put, rest
<1> HIDE DEF cut
<1>5. CASE h[hdr].end \/ next \notin DOMAIN h
  <2>1. s = cut
    BY <1>3, <1>5
  <2> QED
    BY <2>1, <1>1, <1>4, <1>5 DEF r, s, rest, next, IsCut
<1>6. CASE ~h[hdr].end /\ next \in DOMAIN h
  <2>1. s = [cut EXCEPT ![next] = [cut[next] EXCEPT !.prev = rest]]
    BY <1>3, <1>6
  <2>2. cut[next] = h[next]
    BY <1>2, <1>4, <1>6
  <2>3. s[next] = [used |-> h[next].used, end |-> h[next].end, prev |-> rest, size |-> h[next].size]
    BY <1>2, <1>4, <1>6, <2>1, <2>2 DEF Header
  <2>4. DOMAIN s = DOMAIN h \cup {rest} /\ \A a \in (DOMAIN h \cup {rest}) \ {next} : s[a] = cut[a]
    BY <1>4, <2>1
  <2> QED
    BY <1>1, <1>2, <1>4, <1>6, <2>3, <2>4 DEF r, s, rest, next, IsCut
<1> QED
  BY <1>5, <1>6

\* Taking a block whole leaves the layout as it is.
LEMMA WholeKeeps ==
    ASSUME NEW h, NEW top \in Nat, NEW hdr \in DOMAIN h, NEW size \in Nat,
           Ordered(h, top), h[hdr].size < size + 2
    PROVE  LET s == Split(h, hdr, size)
           IN  Ordered(s, top) /\ (Tiled(h, top) => Tiled(s, top))
<1> DEFINE s == Split(h, hdr, size)
<1>0. \A a \in DOMAIN h : h[a] \in Header
  BY DEF Ordered
<1>1. /\ DOMAIN s = DOMAIN h
      /\ \A a \in DOMAIN h : s[a] \in Header
      /\ \A a \in DOMAIN h : s[a].size = h[a].size
      /\ \A a \in DOMAIN h : s[a].end = h[a].end
      /\ \A a \in DOMAIN h : s[a].prev = h[a].prev
  BY <1>0, SplitWhole
<1> HIDE DEF s
<1>2. \A a \in DOMAIN h : End(s, a) = End(h, a)
  BY <1>1 DEF End
<1>3. Ordered(s, top)
  BY <1>1, <1>2, Zenon DEF Ordered
<1>4. Tiled(h, top) => Tiled(s, top)
  BY <1>1, <1>2 DEF Tiled, IsHeader
<1> QED
  BY <1>3, <1>4 DEF s

\* Cutting a block in two keeps the order, unless the block is not the last
\* one and no header follows it.
LEMMA CutKeeps ==
    ASSUME NEW h, NEW top \in Nat, NEW hdr \in DOMAIN h, NEW size \in Nat,
           Ordered(h, top), h[hdr].size >= size + 2, ~SplitDerails(h, hdr, size)
    PROVE  LET s == Split(h, hdr, size)
           IN  Ordered(s, top) /\ (Tiled(h, top) => Tiled(s, top))
<1> DEFINE s == Split(h, hdr, size)
           rest == hdr + 1 + size
           next == End(h, hdr)
           D == DOMAIN h
<1>0. /\ D \subseteq Nat
      /\ \A a \in D : h[a] \in Header
      /\ \A a \in D : End(h, a) <= top
      /\ \A a, b \in D : a < b => End(h, a) <= b
      /\ \A a \in D : h[a].prev # NULL => h[a].prev \in D /\ h[a].prev < a
      /\ \A a, b \in D : h[a].prev # NULL => ~(h[a].prev < b /\ b < a)
      /\ \A a, b \in D : h[a].end => b <= a
  BY DEF Ordered
<1>1. \A a \in D : /\ h[a].used \in BOOLEAN /\ h[a].end \in BOOLEAN /\ h[a].size \in Nat
                    /\ h[a].prev \in Nat \cup {NULL} /\ End(h, a) \in Nat /\ a < End(h, a)
  BY <1>0 DEF Header, End
<1>2. rest \in Nat /\ hdr < rest /\ rest < next /\ next \in Nat /\ hdr \in Nat
  BY <1>0, <1>1 DEF End
<1>a. hdr \in D /\ next <= top /\ \A b \in D : hdr < b => next <= b
  BY <1>0
<1>3. rest \notin D
  BY <1>0, <1>2
<1>4. h[hdr].end \/ next \in D
  BY DEF SplitDerails, IsHeader, find_next_hdr, End
<1>5. /\ DOMAIN s = D \cup {rest}
      /\ s[rest] = [used |-> FALSE, end |-> h[hdr].end, prev |-> hdr,
                    size |-> h[hdr].size - size - 1]
      /\ s[hdr] = [used |-> TRUE, end |-> FALSE, prev |-> h[hdr].prev, size |-> size]
      /\ \A a \in D \ {hdr} :
             IF a = next /\ ~h[hdr].end
             THEN s[a] = [used |-> h[a].used, end |-> h[a].end, prev |-> rest, size |-> h[a].size]
             ELSE s[a] = h[a]
  <2>1. IsCut(s, h, hdr, size)
    BY <1>0, <1>3, SplitCut
  <2> QED
    BY <2>1 DEF IsCut
<1> HIDE DEF s
<1>6. /\ End(s, rest) = next /\ End(s, hdr) = rest
      /\ \A a \in D \ {hdr} : s[a].size = h[a].size /\ End(s, a) = End(h, a)
  BY <1>0, <1>1, <1>2, <1>5 DEF End
<1>7. /\ s[rest].end = h[hdr].end /\ s[hdr].end = FALSE
      /\ \A a \in D \ {hdr} : s[a].end = h[a].end
  BY <1>5
<1>8. /\ s[rest].prev = hdr /\ s[hdr].prev = h[hdr].prev
      /\ \A a \in D \ {hdr} : s[a].prev = IF a = next /\ ~h[hdr].end THEN rest ELSE h[a].prev
  BY <1>5
<1>9. \A a \in D \cup {rest} : s[a] \in Header
  <2>1. s[rest] \in Header /\ s[hdr] \in Header
    BY <1>1, <1>2, <1>5 DEF Header
  <2>2. \A a \in D \ {hdr} : s[a] \in Header
    BY <1>0, <1>1, <1>2, <1>5 DEF Header
  <2> QED
    BY <2>1, <2>2
<1> HIDE DEF rest, next, D
<1>10. \A a \in D \cup {rest} : End(s, a) <= top
  BY <1>0, <1>1, <1>2, <1>6, <1>a DEF next
<1>11. \A a, b \in D \cup {rest} : a < b => End(s, a) <= b
  <2> SUFFICES ASSUME NEW a \in D \cup {rest}, NEW b \in D \cup {rest}, a < b
               PROVE  End(s, a) <= b
    OBVIOUS
  <2>0. D \subseteq Nat
    BY <1>0
  <2>1. CASE a = rest
    <3>1. b \in D
      BY <1>2, <2>1
    <3>2. b \in Nat
      BY <2>0, <3>1
    <3>3. hdr < b
      BY <1>2, <2>1, <3>2
    <3> QED
      BY <1>6, <1>a, <2>1, <3>1, <3>3
  <2>2. CASE a = hdr
    <3>1. CASE b = rest
      BY <1>2, <1>6, <2>2, <3>1
    <3>2. CASE b \in D
      <4>1. b \in Nat
        BY <2>0, <3>2
      <4>2. next <= b
        BY <1>a, <2>2, <3>2
      <4> QED
        BY <1>2, <1>6, <2>2, <4>1, <4>2
    <3> QED
      BY <3>1, <3>2
  <2>3. CASE a \in D \ {hdr} /\ b = rest
    BY <1>0, <1>1, <1>2, <1>6, <1>a, <2>3
  <2>4. CASE a \in D \ {hdr} /\ b \in D
    BY <1>0, <1>6, <2>4
  <2> QED
    BY <2>1, <2>2, <2>3, <2>4
<1>12. \A a \in D \cup {rest} : s[a].prev # NULL =>
           /\ s[a].prev \in D \cup {rest} /\ s[a].prev < a
           /\ \A b \in D \cup {rest} : ~(s[a].prev < b /\ b < a)
  <2> SUFFICES ASSUME NEW a \in D \cup {rest}, s[a].prev # NULL
               PROVE  /\ s[a].prev \in D \cup {rest} /\ s[a].prev < a
                      /\ \A b \in D \cup {rest} : ~(s[a].prev < b /\ b < a)
    OBVIOUS
  <2>1. CASE a = rest
    BY <1>0, <1>2, <1>8, <1>a, <2>1
  <2>2. CASE a = hdr
    BY <1>0, <1>2, <1>8, <1>a, <2>2
  <2>3. CASE a \in D \ {hdr} /\ a = next /\ ~h[hdr].end
    BY <1>0, <1>2, <1>8, <1>a, <2>3
  <2>4. CASE a \in D \ {hdr} /\ ~(a = next /\ ~h[hdr].end)
    <3>1. s[a].prev = h[a].prev
      BY <1>8, <2>4
    <3>2. s[a].prev \in D /\ s[a].prev < a /\ \A b \in D : ~(s[a].prev < b /\ b < a)
      BY <1>0, <2>4, <3>1
    <3>3. ASSUME s[a].prev < rest, rest < a PROVE FALSE
      <4>1. s[a].prev = hdr
        <5>1. s[a].prev \in Nat /\ a \in Nat
          BY <1>0, <3>2, <2>4
        <5>2. ~(s[a].prev < hdr)
          BY <1>2, <1>a, <3>2, <3>3, <5>1
        <5>3. ~(hdr < s[a].prev)
          BY <1>2, <1>a, <3>2, <3>3, <5>1
        <5> QED
          BY <1>2, <5>1, <5>2, <5>3
      <4>2. ~h[hdr].end /\ next \in D
        BY <1>0, <1>2, <1>4, <1>a, <2>4, <3>3
      <4>3. next <= a
        <5>1. a \in Nat
          BY <1>0, <2>4
        <5>2. hdr < a
          BY <1>2, <3>3, <5>1
        <5> QED
          BY <1>a, <2>4, <5>2
      <4>4. a <= next
        BY <1>0, <1>2, <2>4, <3>2, <4>1, <4>2
      <4> QED
        BY <1>0, <1>2, <2>4, <4>2, <4>3, <4>4
    <3> QED
      BY <3>2, <3>3
  <2> QED
    BY <2>1, <2>2, <2>3, <2>4
<1>13. \A a, b \in D \cup {rest} : s[a].end => b <= a
  <2> SUFFICES ASSUME NEW a \in D \cup {rest}, NEW b \in D \cup {rest}, s[a].end
               PROVE  b <= a
    OBVIOUS
  <2>1. CASE a = rest
    BY <1>0, <1>2, <1>7, <1>a, <2>1
  <2>2. CASE a \in D
    <3>1. a # hdr /\ h[a].end
      BY <1>7, <2>2
    <3>2. hdr <= a /\ a \in Nat
      <4>1. hdr \in D
        BY <1>a
      <4> QED
        BY <1>0, <2>2, <3>1, <4>1
    <3>3. hdr < a
      BY <1>2, <3>1, <3>2
    <3>4. next <= a
      BY <1>a, <2>2, <3>3
    <3>5. CASE b = rest
      BY <1>2, <3>2, <3>4, <3>5
    <3>6. CASE b \in D
      BY <1>0, <2>2, <3>1, <3>6
    <3> QED
      BY <3>5, <3>6
  <2> QED
    BY <2>1, <2>2
<1>14. Ordered(s, top)
  <2>1. D \cup {rest} \subseteq Nat /\ DOMAIN s = D \cup {rest}
    BY <1>0, <1>2, <1>5
  <2> QED
    BY <2>1, <1>9, <1>10, <1>11, <1>12, <1>13, Zenon DEF Ordered
<1>15. ASSUME Tiled(h, top) PROVE Tiled(s, top)
  <2>0. hdr \in D /\ DOMAIN s = D \cup {rest}
    BY <1>5 DEF D, rest
  <2>1. \A a \in D : h[a].end => End(h, a) = top
    BY <1>15 DEF Tiled, D
  <2>2. \A a \in D : ~h[a].end => End(h, a) \in D /\ h[End(h, a)].prev = a
    BY <1>15 DEF Tiled, D, IsHeader
  <2> SUFFICES ASSUME NEW a \in D \cup {rest}
               PROVE  IF s[a].end THEN End(s, a) = top
                      ELSE End(s, a) \in D \cup {rest} /\ s[End(s, a)].prev = a
    BY <2>0 DEF Tiled, IsHeader
  <2>3. CASE a = rest
    <3>1. CASE h[hdr].end
      BY <1>6, <1>7, <1>a, <2>1, <2>3, <3>1 DEF next
    <3>2. CASE ~h[hdr].end
      BY <1>2, <1>6, <1>7, <1>8, <1>a, <2>2, <2>3, <3>2 DEF next
    <3> QED
      BY <3>1, <3>2
  <2>4. CASE a = hdr
    BY <1>6, <1>7, <1>8, <2>4
  <2>5. CASE a \in D \ {hdr} /\ h[a].end
    BY <1>6, <1>7, <2>1, <2>5
  <2>6. CASE a \in D \ {hdr} /\ ~h[a].end
    <3>1. End(s, a) \in D /\ h[End(s, a)].prev = a /\ ~s[a].end
      BY <1>6, <1>7, <2>2, <2>6
    <3>2. ~(End(s, a) = next /\ ~h[hdr].end)
      BY <1>a, <2>2, <2>6, <3>1 DEF next
    <3>3. s[End(s, a)].prev = a
      BY <1>8, <3>1, <3>2
    <3> QED
      BY <3>1, <3>3
  <2> QED
    BY <2>3, <2>4, <2>5, <2>6
<1> QED
  BY <1>14, <1>15 DEF s

\* Taking a block, split or not and derailed or not, leaves headers below top
\* and gives the user a block that is marked as used and large enough.
LEMMA SplitAllocates ==
    ASSUME NEW h, NEW l, NEW top \in Nat, NEW hdr \in DOMAIN h, NEW size \in Sizes,
           Ordered(h, top), Allocated(h, l), h[hdr].size >= size
    PROVE  LET s == Split(h, hdr, size)
           IN  /\ DOMAIN s \subseteq 0..(top - 1)
               /\ \A a \in DOMAIN s : s[a] \in Header
               /\ Allocated(s, Put(l, hdr, size))
<1> DEFINE s == Split(h, hdr, size)
           m == Put(l, hdr, size)
           D == DOMAIN h
           rest == hdr + 1 + size
<1>0. /\ D \subseteq Nat
      /\ \A a \in D : h[a] \in Header
      /\ \A a \in D : End(h, a) <= top
      /\ \A a, b \in D : a < b => End(h, a) <= b
  BY DEF Ordered
<1>1. \A a \in D : /\ h[a].used \in BOOLEAN /\ h[a].end \in BOOLEAN /\ h[a].size \in Nat
                    /\ h[a].prev \in Nat \cup {NULL}
  BY <1>0 DEF Header
<1>2. /\ DOMAIN l \subseteq D
      /\ \A a \in DOMAIN l : l[a] \in Sizes /\ l[a] <= h[a].size
      /\ \A a \in D : h[a].used <=> a \in DOMAIN l
  BY DEF Allocated
<1>3. size \in Nat
  BY SizesAssumption
<1>4. /\ DOMAIN m = DOMAIN l \cup {hdr}
      /\ m[hdr] = size
      /\ \A a \in DOMAIN l \ {hdr} : m[a] = l[a]
  BY DEF Put
<1>5. D \subseteq 0..(top - 1)
  BY <1>0, <1>1 DEF End
<1> HIDE DEF s, m, D, rest
<1>6. CASE h[hdr].size < size + 2
  <2>1. /\ DOMAIN s = D
        /\ \A a \in D : s[a] \in Header
        /\ \A a \in D : s[a].size = h[a].size
        /\ \A a \in D \ {hdr} : s[a].used = h[a].used
        /\ s[hdr].used = TRUE
    BY <1>0, <1>3, <1>6, SplitWhole DEF s, D
  <2>2. DOMAIN m \subseteq D /\ \A a \in DOMAIN m : m[a] \in Sizes
    BY <1>2, <1>4 DEF D
  <2>3. \A a \in DOMAIN m : m[a] <= s[a].size
    BY <1>2, <1>4, <2>1 DEF D
  <2>4. \A a \in D : s[a].used <=> a \in DOMAIN m
    BY <1>2, <1>4, <2>1 DEF D
  <2> QED
    BY <1>5, <2>1, <2>2, <2>3, <2>4 DEF s, m, Allocated
<1>7. CASE h[hdr].size >= size + 2
  <2>0. hdr \in D /\ hdr \in Nat
    BY <1>0 DEF D
  <2>1. rest \in Nat /\ rest \notin D /\ rest < top
    <3>1. rest \in Nat /\ hdr < rest /\ rest < End(h, hdr) /\ End(h, hdr) \in Nat
      BY <1>1, <1>3, <1>7, <2>0 DEF rest, End
    <3> QED
      BY <1>0, <2>0, <3>1
  <2>2. IsCut(s, h, hdr, size)
    BY <1>0, <1>3, <1>7, <2>1, SplitCut DEF s, D, rest
  <2>3. /\ DOMAIN s = D \cup {rest}
        /\ s[rest] = [used |-> FALSE, end |-> h[hdr].end, prev |-> hdr,
                      size |-> h[hdr].size - size - 1]
        /\ s[hdr] = [used |-> TRUE, end |-> FALSE, prev |-> h[hdr].prev, size |-> size]
        /\ \A a \in D \ {hdr} :
               \/ s[a] = [used |-> h[a].used, end |-> h[a].end, prev |-> rest, size |-> h[a].size]
               \/ s[a] = h[a]
    BY <2>2, Zenon DEF IsCut, D, rest
  <2>4. \A a \in D \cup {rest} : s[a] \in Header
    <3>1. s[rest] \in Header /\ s[hdr] \in Header
      BY <1>1, <1>3, <1>7, <2>0, <2>1, <2>3 DEF Header
    <3>2. \A a \in D \ {hdr} : s[a] \in Header
      BY <1>0, <1>1, <2>1, <2>3 DEF Header
    <3> QED
      BY <3>1, <3>2
  <2>5. /\ s[rest].used = FALSE /\ s[hdr].used = TRUE /\ s[hdr].size = size
        /\ \A a \in D \ {hdr} : s[a].used = h[a].used
        /\ \A a \in D \ {hdr} : s[a].size = h[a].size
    BY <2>3
  <2>6. DOMAIN m \subseteq D /\ \A a \in DOMAIN m : m[a] \in Sizes
    BY <1>2, <1>4 DEF D
  <2>7. \A a \in DOMAIN m : m[a] <= s[a].size
    BY <1>2, <1>3, <1>4, <2>5
  <2>8. \A a \in D \cup {rest} : s[a].used <=> a \in DOMAIN m
    BY <1>2, <1>4, <2>1, <2>0, <2>5
  <2>9. D \cup {rest} \subseteq 0..(top - 1)
    BY <1>5, <2>1
  <2> QED
    BY <2>3, <2>4, <2>6, <2>7, <2>8, <2>9 DEF s, m, Allocated
<1> QED
  BY <1>1, <1>3, <1>6, <1>7 DEF D

\* Taking a block from an ordered heap.
LEMMA SplitKeeps ==
    ASSUME NEW h, NEW top \in Nat, NEW hdr \in DOMAIN h, NEW size \in Sizes,
           Ordered(h, top), ~SplitDerails(h, hdr, size)
    PROVE  LET s == Split(h, hdr, size)
           IN  Ordered(s, top) /\ (Tiled(h, top) => Tiled(s, top))
<1>1. size \in Nat /\ h[hdr].size \in Nat
  BY SizesAssumption DEF Ordered, Header
<1>2. CASE h[hdr].size < size + 2
  BY <1>1, <1>2, WholeKeeps
<1>3. CASE h[hdr].size >= size + 2
  BY <1>1, <1>3, CutKeeps
<1> QED
  BY <1>1, <1>2, <1>3
-----------------------------------------------------------------------------
(***************************************************************************)
(* Extending the heap.                                                     *)
(***************************************************************************)

\* More pages have at least as many units.
LEMMA Monotone ==
    ASSUME NEW a \in Nat, NEW b \in Nat, NEW w \in Nat, a <= b
    PROVE  a * w <= b * w
<1>1. b * w = a * w + (b - a) * w
  OBVIOUS
<1>2. (b - a) * w \in Nat /\ a * w \in Nat /\ b * w \in Nat
  OBVIOUS
<1> QED
  BY <1>1, <1>2

\* The pages malloc asks for have room for the block and a header, with a unit
\* to spare.
LEMMA PagesForFits ==
    ASSUME NEW size \in Nat
    PROVE  /\ PagesFor(size) \in Nat
           /\ PagesFor(size) * PageUnits \in Nat
           /\ PagesFor(size) * PageUnits >= size + 2
<1> DEFINE q == (size + 1) \div PageUnits
<1>1. /\ PageUnits \in Nat \ {0}
      /\ q \in Nat
      /\ (size + 1) % PageUnits \in 0..(PageUnits - 1)
      /\ size + 1 = q * PageUnits + ((size + 1) % PageUnits)
  BY PageUnitsAssumption
<1>2. PagesFor(size) = q + 1
  BY DEF PagesFor
<1> HIDE DEF q
<1>3. (q + 1) * PageUnits = q * PageUnits + PageUnits /\ q * PageUnits \in Nat
  BY <1>1
<1> QED
  BY <1>1, <1>2, <1>3

\* mem_alloc agrees only to pages behind the ones that are mapped, and up to
\* the end of the heap.
LEMMA MemAllocBounds ==
    ASSUME NEW start \in Nat, NEW n \in Nat, mapped \in Nat, mem_alloc(start, n) # NULL
    PROVE  /\ mapped * PageUnits <= start
           /\ start + n * PageUnits <= HeapPages * PageUnits
           /\ start = mapped * PageUnits => mapped + n <= HeapPages
           /\ (mapped + n) * PageUnits = mapped * PageUnits + n * PageUnits
<1> DEFINE q == start \div PageUnits
<1> USE HeapPagesAssumption
<1>0. PageUnits \in Nat \ {0}
  BY PageUnitsAssumption
<1>1. /\ start + n * PageUnits <= HeapPages * PageUnits
      /\ ~(q < mapped)
  <2>1. ~(\/ start + n * PageUnits > HeapPages * PageUnits
          \/ start \div PageUnits < mapped)
    BY DEF mem_alloc
  <2>2. n * PageUnits \in Nat /\ HeapPages * PageUnits \in Nat
    BY <1>0
  <2> QED
    BY <2>1, <2>2
<1>2. /\ q \in Nat
      /\ start % PageUnits \in 0..(PageUnits - 1)
      /\ start = q * PageUnits + (start % PageUnits)
  BY <1>0
<1> HIDE DEF q
<1>3. q * PageUnits \in Nat /\ mapped * PageUnits \in Nat /\ n * PageUnits \in Nat
  BY <1>0, <1>2
<1>4. mapped * PageUnits <= q * PageUnits
  BY <1>0, <1>1, <1>2, Monotone
<1>5. mapped * PageUnits <= start
  BY <1>2, <1>3, <1>4
<1>6. (mapped + n) * PageUnits = mapped * PageUnits + n * PageUnits
  BY <1>0
<1>7. ASSUME start = mapped * PageUnits PROVE mapped + n <= HeapPages
  <2> SUFFICES ASSUME HeapPages + 1 <= mapped + n PROVE FALSE
    OBVIOUS
  <2>1. (HeapPages + 1) * PageUnits <= (mapped + n) * PageUnits
    BY <1>0, Monotone
  <2>2. (HeapPages + 1) * PageUnits = HeapPages * PageUnits + PageUnits
    BY <1>0
  <2>3. HeapPages * PageUnits \in Nat
    BY <1>0
  <2> QED
    BY <1>0, <1>1, <1>3, <1>6, <1>7, <2>1, <2>2, <2>3
<1> QED
  BY <1>1, <1>5, <1>6, <1>7

\* The new block follows the last one, whichever header malloc has arrived
\* at, and the extended heap is as the old one was.
LEMMA GrownKeeps ==
    ASSUME NEW hdr \in Nat \cup {NULL}, NEW size \in Nat, NEW top \in Nat, NEW l,
           hdr # NULL => hdr \in DOMAIN hdrs,
           NEW start \in Nat, start = IF hdr = NULL THEN 0 ELSE find_next_hdr(hdrs, hdr),
           Ordered(hdrs, top), Allocated(hdrs, l), top <= start
    PROVE  LET g == Grown(hdr, size)
               t == top + PagesFor(size) * PageUnits
           IN  /\ start = top
               /\ start \in DOMAIN g /\ g[start].size >= size
               /\ Ordered(g, t) /\ Allocated(g, l)
               /\ Tiled(hdrs, top) => Tiled(g, t)
<1> DEFINE g == Grown(hdr, size)
           n == PagesFor(size) * PageUnits
           t == top + n
           D == DOMAIN hdrs
           f == IF hdr = NULL THEN hdrs ELSE [hdrs EXCEPT ![hdr].end = FALSE]
<1>0. /\ D \subseteq Nat
      /\ \A a \in D : hdrs[a] \in Header
      /\ \A a \in D : End(hdrs, a) <= top
      /\ \A a, b \in D : a < b => End(hdrs, a) <= b
      /\ \A a \in D : hdrs[a].prev # NULL => hdrs[a].prev \in D /\ hdrs[a].prev < a
      /\ \A a, b \in D : hdrs[a].prev # NULL => ~(hdrs[a].prev < b /\ b < a)
      /\ \A a, b \in D : hdrs[a].end => b <= a
  BY DEF Ordered
<1>1. \A a \in D : /\ hdrs[a].used \in BOOLEAN /\ hdrs[a].end \in BOOLEAN /\ hdrs[a].size \in Nat
                    /\ hdrs[a].prev \in Nat \cup {NULL}
                    /\ End(hdrs, a) \in Nat /\ a < End(hdrs, a)
  BY <1>0 DEF Header, End
<1>2. n \in Nat /\ n >= size + 2
  BY PagesForFits
<1>3. \A a \in D : a < top
  BY <1>0, <1>1
<1>4. start = top /\ (hdr = NULL => D = {}) /\ (hdr # NULL => \A b \in D : b <= hdr)
  <2>1. CASE hdr = NULL
    <3>1. start = 0 /\ top = 0
      BY <2>1
    <3>2. \A a \in D : FALSE
      BY <1>0, <1>3, <3>1
    <3>3. D = {}
      BY <3>2, Zenon
    <3> QED
      BY <2>1, <3>1, <3>3
  <2>2. CASE hdr # NULL
    <3>1. hdr \in D /\ start = End(hdrs, hdr)
      BY <2>2 DEF find_next_hdr, End
    <3>2. start = top
      BY <1>0, <1>1, <3>1
    <3>3. ASSUME NEW b \in D PROVE b <= hdr
      <4>1. b \in Nat /\ hdr \in Nat /\ b < top
        BY <1>0, <1>3, <3>1
      <4>2. hdr < b => End(hdrs, hdr) <= b
        BY <1>0, <3>1
      <4> QED
        BY <3>1, <3>2, <4>1, <4>2
    <3> QED
      BY <2>2, <3>2, <3>3
  <2> QED
    BY <2>1, <2>2
<1>5. start \notin D
  BY <1>0, <1>3, <1>4
<1>6. /\ DOMAIN f = D
      /\ \A a \in D \ {hdr} : f[a] = hdrs[a]
      /\ hdr # NULL => f[hdr] = [used |-> hdrs[hdr].used, end |-> FALSE,
                                prev |-> hdrs[hdr].prev, size |-> hdrs[hdr].size]
  <2>1. CASE hdr = NULL
    BY <2>1
  <2>2. CASE hdr # NULL
    <3>1. hdr \in D /\ hdrs[hdr] \in Header
      BY <1>0, <2>2
    <3>2. PICK r \in Header : r = hdrs[hdr]
      BY <3>1
    <3>3. [r EXCEPT !.end = FALSE] =
              [used |-> r.used, end |-> FALSE, size |-> r.size, prev |-> r.prev]
      BY HeaderFields
    <3>4. f = [hdrs EXCEPT ![hdr] = [r EXCEPT !.end = FALSE]]
      BY <2>2, <3>2
    <3> QED
      BY <2>2, <3>1, <3>2, <3>3, <3>4
  <2> QED
    BY <2>1, <2>2
<1>7. g = Put(f, start, [used |-> FALSE, end |-> TRUE, prev |-> hdr, size |-> n - 1])
  BY DEF Grown
<1> HIDE DEF f, g, n, D
<1>8. /\ DOMAIN g = D \cup {start}
      /\ g[start] = [used |-> FALSE, end |-> TRUE, prev |-> hdr, size |-> n - 1]
      /\ \A a \in D : g[a] = f[a]
  BY <1>5, <1>6, <1>7 DEF Put
<1>9. /\ g[start].used = FALSE /\ g[start].end = TRUE /\ g[start].prev = hdr
      /\ g[start].size = n - 1
  BY <1>8
<1>10. /\ \A a \in D : g[a].used = hdrs[a].used
       /\ \A a \in D : g[a].size = hdrs[a].size
       /\ \A a \in D : g[a].prev = hdrs[a].prev
       /\ \A a \in D \ {hdr} : g[a].end = hdrs[a].end
       /\ hdr # NULL => g[hdr].end = FALSE
  <2>1. hdr # NULL => hdr \in D
    BY DEF D
  <2>2. \A a \in D \ {hdr} : g[a] = hdrs[a]
    BY <1>6, <1>8
  <2>3. hdr # NULL => g[hdr] = [used |-> hdrs[hdr].used, end |-> FALSE,
                                prev |-> hdrs[hdr].prev, size |-> hdrs[hdr].size]
    BY <1>6, <1>8, <2>1
  <2>4. hdr \in D => hdr # NULL
    BY <1>0 DEF NULL
  <2>5. hdr # NULL => /\ g[hdr].used = hdrs[hdr].used /\ g[hdr].end = FALSE
                      /\ g[hdr].prev = hdrs[hdr].prev /\ g[hdr].size = hdrs[hdr].size
    BY <2>3
  <2> QED
    BY <2>2, <2>4, <2>5
<1>11. \A a \in D \cup {start} : g[a] \in Header
  <2>1. g[start] \in Header
    BY <1>2, <1>8 DEF Header
  <2>2. \A a \in D \ {hdr} : g[a] \in Header
    BY <1>0, <1>6, <1>8
  <2>3. hdr # NULL => g[hdr] \in Header
    <3> SUFFICES ASSUME hdr # NULL PROVE g[hdr] \in Header
      OBVIOUS
    <3>1. hdr \in D
      BY DEF D
    <3>2. g[hdr] = [used |-> hdrs[hdr].used, end |-> FALSE,
                    prev |-> hdrs[hdr].prev, size |-> hdrs[hdr].size]
      BY <1>6, <1>8, <3>1
    <3> QED
      BY <1>1, <3>1, <3>2 DEF Header
  <2> QED
    BY <1>0, <2>1, <2>2, <2>3 DEF NULL
<1>12. End(g, start) = t /\ \A a \in D : End(g, a) = End(hdrs, a)
  BY <1>2, <1>4, <1>9, <1>10 DEF End
<1>13. \A a \in D : ~g[a].end
  <2> SUFFICES ASSUME NEW a \in D, g[a].end PROVE FALSE
    OBVIOUS
  <2>1. hdr # NULL /\ hdr \in D /\ a \in Nat /\ hdr \in Nat
    BY <1>0, <1>4 DEF D
  <2>2. a # hdr /\ hdrs[a].end
    BY <1>10, <2>1
  <2> QED
    BY <1>0, <1>4, <2>1, <2>2
<1>14. Ordered(g, t)
  <2>1. D \cup {start} \subseteq Nat
    BY <1>0
  <2>2. \A a \in D \cup {start} : End(g, a) <= t
    BY <1>0, <1>1, <1>2, <1>12
  <2>3. \A a, b \in D \cup {start} : a < b => End(g, a) <= b
    BY <1>0, <1>3, <1>4, <1>12
  <2>4. \A a \in D \cup {start} : g[a].prev # NULL =>
            /\ g[a].prev \in D \cup {start} /\ g[a].prev < a
            /\ \A b \in D \cup {start} : ~(g[a].prev < b /\ b < a)
    <3> SUFFICES ASSUME NEW a \in D \cup {start}, g[a].prev # NULL
                 PROVE  /\ g[a].prev \in D \cup {start} /\ g[a].prev < a
                        /\ \A b \in D \cup {start} : ~(g[a].prev < b /\ b < a)
      OBVIOUS
    <3>1. CASE a = start
      <4>1. g[a].prev = hdr /\ hdr \in D /\ hdr # NULL
        BY <1>9, <3>1 DEF D
      <4> QED
        BY <1>0, <1>3, <1>4, <3>1, <4>1
    <3>2. CASE a \in D
      BY <1>0, <1>3, <1>4, <1>10, <3>2
    <3> QED
      BY <3>1, <3>2
  <2>5. \A a, b \in D \cup {start} : g[a].end => b <= a
    <3> SUFFICES ASSUME NEW a \in D \cup {start}, NEW b \in D \cup {start}, g[a].end
                 PROVE  b <= a
      OBVIOUS
    <3>1. a = start
      BY <1>13
    <3> QED
      BY <1>0, <1>3, <1>4, <3>1
  <2> HIDE DEF t
  <2> QED
    BY <1>8, <1>11, <2>1, <2>2, <2>3, <2>4, <2>5, Zenon DEF Ordered
<1>15. Allocated(g, l)
  <2>1. /\ DOMAIN l \subseteq D
        /\ \A a \in DOMAIN l : l[a] \in Sizes /\ l[a] <= hdrs[a].size
        /\ \A a \in D : hdrs[a].used <=> a \in DOMAIN l
    BY DEF Allocated, D
  <2>2. \A a \in DOMAIN l : l[a] \in Sizes /\ l[a] <= g[a].size
    BY <2>1, <1>10
  <2>3. \A a \in D \cup {start} : g[a].used <=> a \in DOMAIN l
    BY <2>1, <1>5, <1>9, <1>10
  <2> QED
    BY <2>1, <2>2, <2>3, <1>8 DEF Allocated
<1>16. ASSUME Tiled(hdrs, top) PROVE Tiled(g, t)
  <2> SUFFICES ASSUME NEW a \in D \cup {start}
               PROVE  IF g[a].end THEN End(g, a) = t
                      ELSE End(g, a) \in D \cup {start} /\ g[End(g, a)].prev = a
    BY <1>8 DEF Tiled, IsHeader
  <2>1. CASE a = start
    BY <1>9, <1>12, <2>1
  <2>2. CASE a \in D /\ a = hdr
    <3>1. End(hdrs, hdr) = start
      BY <1>0, <2>2 DEF find_next_hdr, End, NULL
    <3> QED
      BY <1>9, <1>12, <1>13, <2>2, <3>1
  <2>3. CASE a \in D /\ a # hdr
    <3>1. ~hdrs[a].end
      BY <1>10, <1>13, <2>3
    <3>2. End(hdrs, a) \in D /\ hdrs[End(hdrs, a)].prev = a
      BY <1>16, <2>3, <3>1 DEF Tiled, IsHeader, D
    <3> QED
      BY <1>10, <1>12, <1>13, <2>3, <3>2
  <2> QED
    BY <2>1, <2>2, <2>3
<1>17. start \in DOMAIN g /\ g[start].size >= size
  BY <1>2, <1>8, <1>9
<1> QED
  BY <1>4, <1>14, <1>15, <1>16, <1>17 DEF g, n
-----------------------------------------------------------------------------
(***************************************************************************)
(* Giving a block back.                                                    *)
(***************************************************************************)

\* s is h with the block at gone added to the one at hdr.
IsMerged(s, h, hdr, gone) ==
    /\ DOMAIN s = DOMAIN h \ {gone}
    /\ s[hdr] = [used |-> h[hdr].used, end |-> h[hdr].end \/ h[gone].end,
                 prev |-> h[hdr].prev, size |-> h[hdr].size + h[gone].size]

\* What MergePrev does to the headers.
LEMMA MergePrevFields ==
    ASSUME NEW ptr \in DOMAIN hdrs, hdrs[ptr].prev \in DOMAIN hdrs, hdrs[ptr].prev # ptr,
           \A a \in DOMAIN hdrs : hdrs[a] \in Header
    PROVE  LET s    == MergePrev(ptr)
               prev == hdrs[ptr].prev
           IN  /\ IsMerged(s, hdrs, prev, ptr)
               /\ \A a \in DOMAIN hdrs \ {prev, ptr} : s[a] = hdrs[a]
<1> DEFINE prev == hdrs[ptr].prev
           f == [hdrs EXCEPT ![prev].size = @ + hdrs[ptr].size,
                             ![prev].end  = @ \/ hdrs[ptr].end]
<1>1. /\ DOMAIN f = DOMAIN hdrs
      /\ f[prev] = [used |-> hdrs[prev].used, end |-> hdrs[prev].end \/ hdrs[ptr].end,
                    prev |-> hdrs[prev].prev, size |-> hdrs[prev].size + hdrs[ptr].size]
      /\ \A a \in DOMAIN hdrs \ {prev} : f[a] = hdrs[a]
  BY DEF Header
<1>2. MergePrev(ptr) = Drop(f, ptr)
  BY DEF MergePrev
<1> HIDE DEF f
<1> QED
  BY <1>1, <1>2 DEF Drop, IsMerged

\* What MergeNext does to the headers.
LEMMA MergeNextFields ==
    ASSUME NEW h, NEW hdr \in DOMAIN h, End(h, hdr) \in DOMAIN h, DOMAIN h \subseteq Nat,
           \A a \in DOMAIN h : h[a] \in Header
    PROVE  LET s    == MergeNext(h, hdr)
               next == End(h, hdr)
           IN  /\ IsMerged(s, h, hdr, next)
               /\ \A a \in DOMAIN h \ {hdr, next} :
                      IF a = End(h, next) /\ ~h[next].end
                      THEN s[a] = [used |-> h[a].used, end |-> h[a].end, prev |-> hdr,
                                   size |-> h[a].size]
                      ELSE s[a] = h[a]
<1> DEFINE next == End(h, hdr)
           nextnext == End(h, next)
           f == [h EXCEPT ![hdr].size = @ + h[next].size,
                          ![hdr].end  = @ \/ h[next].end]
           m == Drop(f, next)
           s == MergeNext(h, hdr)
<1>1. /\ DOMAIN f = DOMAIN h
      /\ f[hdr] = [used |-> h[hdr].used, end |-> h[hdr].end \/ h[next].end,
                   prev |-> h[hdr].prev, size |-> h[hdr].size + h[next].size]
      /\ \A a \in DOMAIN h \ {hdr} : f[a] = h[a]
  BY DEF Header
<1>2. s = IF ~h[next].end /\ nextnext \in DOMAIN h THEN [m EXCEPT ![nextnext].prev = hdr] ELSE m
  BY DEF MergeNext, IsHeader, find_next_hdr, End
<1>3. next # hdr /\ nextnext # hdr /\ nextnext # next
  BY DEF Header, End
<1> HIDE DEF f, s, nextnext, next
<1>4. /\ DOMAIN m = DOMAIN h \ {next}
      /\ m[hdr] = f[hdr]
      /\ \A a \in DOMAIN h \ {hdr, next} : m[a] = h[a]
  BY <1>1, <1>3 DEF Drop
<1> HIDE DEF m
<1>5. CASE ~(~h[next].end /\ nextnext \in DOMAIN h)
  <2>1. s = m
    BY <1>2, <1>5
  <2> QED
    BY <2>1, <1>1, <1>4, <1>5 DEF s, next, nextnext, IsMerged
<1>6. CASE ~h[next].end /\ nextnext \in DOMAIN h
  <2>1. s = [m EXCEPT ![nextnext] = [m[nextnext] EXCEPT !.prev = hdr]]
    BY <1>2, <1>6
  <2>2. m[nextnext] = h[nextnext]
    BY <1>3, <1>4, <1>6
  <2>3. s[nextnext] = [used |-> h[nextnext].used, end |-> h[nextnext].end, prev |-> hdr,
                       size |-> h[nextnext].size]
    BY <1>3, <1>4, <1>6, <2>1, <2>2 DEF Header
  <2>4. DOMAIN s = DOMAIN h \ {next} /\ \A a \in DOMAIN h \ {next, nextnext} : s[a] = m[a]
    BY <1>4, <2>1
  <2> QED
    BY <1>1, <1>3, <1>4, <1>6, <2>3, <2>4 DEF s, next, nextnext, IsMerged
<1> QED
  BY <1>5, <1>6

\* What Freed does to the headers.
LEMMA FreedFields ==
    ASSUME NEW h, NEW hdr \in DOMAIN h, \A a \in DOMAIN h : h[a] \in Header
    PROVE  LET s == Freed(h, hdr)
           IN  /\ DOMAIN s = DOMAIN h
               /\ \A a \in DOMAIN h : s[a] \in Header
               /\ \A a \in DOMAIN h : s[a].size = h[a].size
               /\ \A a \in DOMAIN h : s[a].end = h[a].end
               /\ \A a \in DOMAIN h : s[a].prev = h[a].prev
               /\ \A a \in DOMAIN h \ {hdr} : s[a].used = h[a].used
               /\ s[hdr].used = FALSE
<1> DEFINE s == Freed(h, hdr)
<1>1. s = [h EXCEPT ![hdr] = [h[hdr] EXCEPT !.used = FALSE]]
  BY DEF Freed
<1>2. [h[hdr] EXCEPT !.used = FALSE] =
          [used |-> FALSE, end |-> h[hdr].end, size |-> h[hdr].size, prev |-> h[hdr].prev]
  BY HeaderFields
<1>3. [h[hdr] EXCEPT !.used = FALSE] \in Header
  BY <1>2 DEF Header
<1> HIDE DEF s
<1>4. DOMAIN s = DOMAIN h /\ \A a \in DOMAIN h \ {hdr} : s[a] = h[a]
  BY <1>1
<1>5. s[hdr] = [used |-> FALSE, end |-> h[hdr].end, size |-> h[hdr].size, prev |-> h[hdr].prev]
  BY <1>1, <1>2
<1>6. \A a \in DOMAIN h : s[a] \in Header
  BY <1>1, <1>2, <1>3, <1>4, <1>5
<1>7. \A a \in DOMAIN h : s[a].size = h[a].size
  BY <1>4, <1>5
<1>8. \A a \in DOMAIN h : s[a].end = h[a].end
  BY <1>4, <1>5
<1>9. \A a \in DOMAIN h : s[a].prev = h[a].prev
  BY <1>4, <1>5
<1>10. \A a \in DOMAIN h \ {hdr} : s[a].used = h[a].used
  BY <1>4
<1>11. s[hdr].used = FALSE
  BY <1>5
<1> QED
  BY <1>4, <1>6, <1>7, <1>8, <1>9, <1>10, <1>11, Zenon DEF s

\* As Allocated, but whether the block at hdr is marked as used is open: its
\* user has just given it back.
AllocatedBut(h, l, hdr) ==
    /\ DOMAIN l \subseteq DOMAIN h \ {hdr}
    /\ \A a \in DOMAIN l : l[a] \in Sizes /\ l[a] <= h[a].size
    /\ \A a \in DOMAIN h \ {hdr} : h[a].used <=> a \in DOMAIN l

\* Clearing the mark of a block that has no user keeps everything else.
LEMMA FreedKeeps ==
    ASSUME NEW h, NEW l, NEW top \in Nat, NEW hdr \in DOMAIN h,
           Ordered(h, top), AllocatedBut(h, l, hdr)
    PROVE  LET s == Freed(h, hdr)
           IN  Ordered(s, top) /\ Allocated(s, l) /\ (Tiled(h, top) => Tiled(s, top))
<1> DEFINE s == Freed(h, hdr)
<1>0. \A a \in DOMAIN h : h[a] \in Header
  BY DEF Ordered
<1>1. /\ DOMAIN s = DOMAIN h
      /\ \A a \in DOMAIN h : s[a] \in Header
      /\ \A a \in DOMAIN h : s[a].size = h[a].size
      /\ \A a \in DOMAIN h : s[a].end = h[a].end
      /\ \A a \in DOMAIN h : s[a].prev = h[a].prev
      /\ \A a \in DOMAIN h \ {hdr} : s[a].used = h[a].used
      /\ s[hdr].used = FALSE
  BY <1>0, FreedFields
<1> HIDE DEF s
<1>2. \A a \in DOMAIN h : End(s, a) = End(h, a)
  BY <1>1 DEF End
<1>3. Ordered(s, top)
  BY <1>1, <1>2, Zenon DEF Ordered
<1>4. Tiled(h, top) => Tiled(s, top)
  BY <1>1, <1>2 DEF Tiled, IsHeader
<1>5. Allocated(s, l)
  <2>1. DOMAIN l \subseteq DOMAIN s /\ \A a \in DOMAIN l : l[a] \in Sizes /\ l[a] <= s[a].size
    BY <1>1 DEF AllocatedBut
  <2>2. \A a \in DOMAIN s : s[a].used <=> a \in DOMAIN l
    BY <1>1 DEF AllocatedBut
  <2> QED
    BY <2>1, <2>2 DEF Allocated
<1> QED
  BY <1>3, <1>4, <1>5 DEF s

\* Ordered, one fact per shape, and the types of the fields.
LEMMA OrderedFacts ==
    ASSUME NEW h, NEW top \in Nat, Ordered(h, top)
    PROVE  /\ DOMAIN h \subseteq Nat
           /\ \A a \in DOMAIN h : h[a] \in Header
           /\ \A a \in DOMAIN h : End(h, a) <= top
           /\ \A a, b \in DOMAIN h : a < b => End(h, a) <= b
           /\ \A a \in DOMAIN h : h[a].prev # NULL => h[a].prev \in DOMAIN h /\ h[a].prev < a
           /\ \A a, b \in DOMAIN h : h[a].prev # NULL => ~(h[a].prev < b /\ b < a)
           /\ \A a, b \in DOMAIN h : h[a].end => b <= a
           /\ \A a \in DOMAIN h : End(h, a) \in Nat /\ a < End(h, a)
           /\ \A a \in DOMAIN h : h[a].used \in BOOLEAN /\ h[a].end \in BOOLEAN
           /\ \A a \in DOMAIN h : h[a].size \in Nat /\ h[a].prev \in Nat \cup {NULL}
<1>1. /\ DOMAIN h \subseteq Nat
      /\ \A a \in DOMAIN h : h[a] \in Header
      /\ \A a \in DOMAIN h : End(h, a) <= top
      /\ \A a, b \in DOMAIN h : a < b => End(h, a) <= b
      /\ \A a \in DOMAIN h : h[a].prev # NULL => h[a].prev \in DOMAIN h /\ h[a].prev < a
      /\ \A a, b \in DOMAIN h : h[a].prev # NULL => ~(h[a].prev < b /\ b < a)
      /\ \A a, b \in DOMAIN h : h[a].end => b <= a
  BY DEF Ordered
<1>2. \A a \in DOMAIN h : /\ h[a].used \in BOOLEAN /\ h[a].end \in BOOLEAN
                           /\ h[a].size \in Nat /\ h[a].prev \in Nat \cup {NULL}
  BY <1>1 DEF Header
<1>3. \A a \in DOMAIN h : End(h, a) \in Nat /\ a < End(h, a)
  BY <1>1, <1>2 DEF End
<1> QED
  BY <1>1, <1>2, <1>3

\* A block and the free one before it, if the block is the last: the merged
\* block is the last.
LEMMA MergePrevKeeps ==
    ASSUME NEW ptr \in DOMAIN hdrs, NEW top \in Nat, Ordered(hdrs, top),
           Allocated(hdrs, live), ptr \in DOMAIN live, MergesPrev(ptr)
    PROVE  LET s    == MergePrev(ptr)
               prev == hdrs[ptr].prev
           IN  /\ prev \in DOMAIN s /\ ~s[prev].used
               /\ DOMAIN s \subseteq DOMAIN hdrs
               /\ \A a \in DOMAIN s : s[a] \in Header
               /\ AllocatedBut(s, Drop(live, ptr), prev)
               /\ s[prev].end => Ordered(s, top)
               /\ ~s[prev].end => End(s, prev) \notin DOMAIN s
<1> DEFINE s == MergePrev(ptr)
           prev == hdrs[ptr].prev
           D == DOMAIN hdrs
           l == Drop(live, ptr)
<1>0. /\ D \subseteq Nat
      /\ \A a \in D : hdrs[a] \in Header
      /\ \A a \in D : End(hdrs, a) <= top
      /\ \A a, b \in D : a < b => End(hdrs, a) <= b
      /\ \A a \in D : hdrs[a].prev # NULL => hdrs[a].prev \in D /\ hdrs[a].prev < a
      /\ \A a, b \in D : hdrs[a].prev # NULL => ~(hdrs[a].prev < b /\ b < a)
      /\ \A a, b \in D : hdrs[a].end => b <= a
      /\ \A a \in D : End(hdrs, a) \in Nat /\ a < End(hdrs, a)
      /\ \A a \in D : hdrs[a].used \in BOOLEAN /\ hdrs[a].end \in BOOLEAN
      /\ \A a \in D : hdrs[a].size \in Nat /\ hdrs[a].prev \in Nat \cup {NULL}
  BY OrderedFacts
<1>1. prev \in D /\ prev < ptr /\ ~hdrs[prev].used /\ ptr \in Nat /\ prev \in Nat
  BY <1>0 DEF MergesPrev
<1>2. \A b \in D : ~(prev < b /\ b < ptr)
  BY <1>0 DEF MergesPrev
<1>3. /\ DOMAIN s = D \ {ptr}
      /\ s[prev] = [used |-> hdrs[prev].used, end |-> hdrs[prev].end \/ hdrs[ptr].end,
                    prev |-> hdrs[prev].prev, size |-> hdrs[prev].size + hdrs[ptr].size]
      /\ \A a \in D \ {prev, ptr} : s[a] = hdrs[a]
  <2>1. prev \in DOMAIN hdrs /\ prev # ptr
    BY <1>1
  <2>2. IsMerged(s, hdrs, prev, ptr) /\ \A a \in D \ {prev, ptr} : s[a] = hdrs[a]
    BY <1>0, <2>1, MergePrevFields
  <2> QED
    BY <2>2 DEF IsMerged
<1> HIDE DEF s, prev, D, l
<1>4. ptr \in D
  BY DEF D
<1>5. /\ s[prev].used = hdrs[prev].used
      /\ s[prev].prev = hdrs[prev].prev
      /\ s[prev].size = hdrs[prev].size + hdrs[ptr].size
  BY <1>3
<1>6. s[prev].end <=> hdrs[ptr].end
  <2>1. s[prev].end = (hdrs[prev].end \/ hdrs[ptr].end)
    BY <1>3
  <2>2. ~hdrs[prev].end
    BY <1>0, <1>1, <1>4
  <2> QED
    BY <2>1, <2>2
<1>7. \A a \in D \ {ptr} : s[a] \in Header
  <2>1. s[prev] \in Header
    BY <1>0, <1>1, <1>3, <1>4 DEF Header
  <2> QED
    BY <1>0, <1>3, <2>1
<1>8. AllocatedBut(s, l, prev)
  <2>1. /\ DOMAIN live \subseteq D
        /\ \A a \in DOMAIN live : live[a] \in Sizes /\ live[a] <= hdrs[a].size
        /\ \A a \in D : hdrs[a].used <=> a \in DOMAIN live
    BY DEF Allocated, D
  <2>2. DOMAIN l = DOMAIN live \ {ptr} /\ \A a \in DOMAIN l : l[a] = live[a]
    BY DEF Drop, l
  <2>3. prev \notin DOMAIN live
    BY <1>1, <2>1
  <2>4. DOMAIN l \subseteq DOMAIN s \ {prev}
    BY <1>3, <2>1, <2>2, <2>3
  <2>5. \A a \in DOMAIN l : l[a] \in Sizes /\ l[a] <= s[a].size
    BY <1>3, <2>1, <2>2, <2>3
  <2>6. \A a \in DOMAIN s \ {prev} : s[a].used <=> a \in DOMAIN l
    BY <1>3, <2>1, <2>2
  <2> QED
    BY <2>4, <2>5, <2>6 DEF AllocatedBut
<1>9. /\ End(s, prev) \in Nat /\ prev < End(s, prev) /\ End(s, prev) < End(hdrs, ptr)
      /\ \A a \in D \ {prev, ptr} : End(s, a) = End(hdrs, a)
  <2>1. End(s, prev) = End(hdrs, prev) + hdrs[ptr].size
    BY <1>0, <1>1, <1>4, <1>5 DEF End
  <2>2. End(hdrs, prev) <= ptr /\ End(hdrs, prev) \in Nat /\ prev < End(hdrs, prev)
    BY <1>0, <1>1, <1>4
  <2>3. End(hdrs, ptr) = ptr + 1 + hdrs[ptr].size
    BY DEF End
  <2>4. hdrs[ptr].size \in Nat
    BY <1>0, <1>4
  <2>5. \A a \in D \ {prev, ptr} : End(s, a) = End(hdrs, a)
    BY <1>3 DEF End
  <2> QED
    BY <1>1, <2>1, <2>2, <2>3, <2>4, <2>5
<1>10. ASSUME End(s, prev) \in DOMAIN s PROVE FALSE
  <2>1. PICK y \in D \ {ptr} : y = End(s, prev)
    BY <1>3, <1>10
  <2>2. ~(y < ptr) /\ y \in Nat
    BY <1>0, <1>2, <1>9, <2>1
  <2>3. ptr < y
    BY <1>1, <2>1, <2>2
  <2>4. End(hdrs, ptr) <= y
    BY <1>0, <1>4, <2>1, <2>3
  <2>5. End(hdrs, ptr) \in Nat
    BY <1>0, <1>4
  <2> QED
    BY <1>9, <2>1, <2>2, <2>4, <2>5
<1>11. ASSUME s[prev].end PROVE Ordered(s, top)
  <2>0. \A b \in D : b <= ptr
    BY <1>0, <1>4, <1>6, <1>11
  <2>1. \A b \in D \ {ptr} : b <= prev
    <3> SUFFICES ASSUME NEW b \in D, b # ptr, prev < b PROVE FALSE
      BY <1>0, <1>1
    <3> QED
      BY <1>0, <1>1, <1>2, <2>0
  <2>2. \A a \in D \ {ptr} : End(s, a) <= top
    BY <1>0, <1>1, <1>4, <1>9
  <2>3. \A a, b \in D \ {ptr} : a < b => End(s, a) <= b
    <3> SUFFICES ASSUME NEW a \in D \ {ptr}, NEW b \in D \ {ptr}, a < b
                 PROVE  End(s, a) <= b
      OBVIOUS
    <3>1. a # prev
      BY <1>0, <1>1, <2>1
    <3> QED
      BY <1>0, <1>9, <3>1
  <2>4. \A a \in D \ {ptr} : s[a].prev = hdrs[a].prev
    BY <1>3, <1>5
  <2>5. \A a \in D \ {ptr} : s[a].prev # NULL =>
            /\ s[a].prev \in D \ {ptr} /\ s[a].prev < a
            /\ \A b \in D \ {ptr} : ~(s[a].prev < b /\ b < a)
    <3> SUFFICES ASSUME NEW a \in D \ {ptr}, s[a].prev # NULL
                 PROVE  /\ s[a].prev \in D \ {ptr} /\ s[a].prev < a
                        /\ \A b \in D \ {ptr} : ~(s[a].prev < b /\ b < a)
      OBVIOUS
    <3>1. s[a].prev \in D /\ s[a].prev < a
      BY <1>0, <2>4
    <3>2. \A b \in D : ~(s[a].prev < b /\ b < a)
      BY <1>0, <2>4
    <3>3. s[a].prev # ptr
      BY <1>0, <1>1, <2>0, <3>1
    <3> QED
      BY <3>1, <3>2, <3>3
  <2>6. \A a, b \in D \ {ptr} : s[a].end => b <= a
    <3> SUFFICES ASSUME NEW a \in D \ {ptr}, NEW b \in D \ {ptr}, s[a].end PROVE b <= a
      OBVIOUS
    <3>1. CASE a = prev
      BY <2>1, <3>1
    <3>2. CASE a # prev
      BY <1>0, <1>3, <3>2
    <3> QED
      BY <3>1, <3>2
  <2>7. D \ {ptr} \subseteq Nat
    BY <1>0
  <2> QED
    BY <1>3, <1>7, <2>2, <2>3, <2>5, <2>6, <2>7, Zenon DEF Ordered
<1>12. prev \in DOMAIN s /\ ~s[prev].used /\ DOMAIN s \subseteq D
  BY <1>1, <1>3, <1>5
<1> QED
  BY <1>3, <1>7, <1>8, <1>10, <1>11, <1>12 DEF s, prev, l, D

\* A block and the free one after it, unless that one is not the last and no
\* header follows it.
LEMMA MergeNextKeeps ==
    ASSUME NEW hdr \in DOMAIN hdrs, NEW top \in Nat, Ordered(hdrs, top),
           Allocated(hdrs, live), hdr \in DOMAIN live,
           End(hdrs, hdr) \in DOMAIN hdrs, ~hdrs[End(hdrs, hdr)].used
    PROVE  LET s    == MergeNext(hdrs, hdr)
               next == End(hdrs, hdr)
           IN  /\ hdr \in DOMAIN s /\ DOMAIN s \subseteq DOMAIN hdrs
               /\ \A a \in DOMAIN s : s[a] \in Header
               /\ AllocatedBut(s, Drop(live, hdr), hdr)
               /\ hdrs[next].end \/ End(hdrs, next) \in DOMAIN hdrs => Ordered(s, top)
<1> DEFINE s == MergeNext(hdrs, hdr)
           next == End(hdrs, hdr)
           nextnext == End(hdrs, next)
           D == DOMAIN hdrs
           l == Drop(live, hdr)
<1>0. /\ D \subseteq Nat
      /\ \A a \in D : hdrs[a] \in Header
      /\ \A a \in D : End(hdrs, a) <= top
      /\ \A a, b \in D : a < b => End(hdrs, a) <= b
      /\ \A a \in D : hdrs[a].prev # NULL => hdrs[a].prev \in D /\ hdrs[a].prev < a
      /\ \A a, b \in D : hdrs[a].prev # NULL => ~(hdrs[a].prev < b /\ b < a)
      /\ \A a, b \in D : hdrs[a].end => b <= a
      /\ \A a \in D : End(hdrs, a) \in Nat /\ a < End(hdrs, a)
      /\ \A a \in D : hdrs[a].used \in BOOLEAN /\ hdrs[a].end \in BOOLEAN
      /\ \A a \in D : hdrs[a].size \in Nat /\ hdrs[a].prev \in Nat \cup {NULL}
  BY OrderedFacts
<1>1. /\ hdr \in D /\ next \in D /\ ~hdrs[next].used
      /\ hdr \in Nat /\ next \in Nat /\ nextnext \in Nat /\ hdr < next /\ next < nextnext
  BY <1>0
<1>2. /\ \A b \in D : hdr < b => next <= b
      /\ \A b \in D : next < b => nextnext <= b
      /\ nextnext <= top
  BY <1>0, <1>1
<1>3. /\ DOMAIN s = D \ {next}
      /\ s[hdr] = [used |-> hdrs[hdr].used, end |-> hdrs[hdr].end \/ hdrs[next].end,
                   prev |-> hdrs[hdr].prev, size |-> hdrs[hdr].size + hdrs[next].size]
      /\ \A a \in D \ {hdr, next} :
             IF a = nextnext /\ ~hdrs[next].end
             THEN s[a] = [used |-> hdrs[a].used, end |-> hdrs[a].end, prev |-> hdr,
                          size |-> hdrs[a].size]
             ELSE s[a] = hdrs[a]
  <2>1. /\ IsMerged(s, hdrs, hdr, next)
        /\ \A a \in D \ {hdr, next} :
             IF a = nextnext /\ ~hdrs[next].end
             THEN s[a] = [used |-> hdrs[a].used, end |-> hdrs[a].end, prev |-> hdr,
                          size |-> hdrs[a].size]
             ELSE s[a] = hdrs[a]
    BY <1>0, MergeNextFields
  <2> QED
    BY <2>1 DEF IsMerged
<1>4. nextnext = next + 1 + hdrs[next].size
  BY DEF End
<1>5. End(s, hdr) = hdr + 1 + s[hdr].size /\ next = hdr + 1 + hdrs[hdr].size
  BY DEF End
<1> HIDE DEF s, next, nextnext, D, l
<1>6. /\ s[hdr].prev = hdrs[hdr].prev
      /\ s[hdr].size = hdrs[hdr].size + hdrs[next].size
      /\ s[hdr].end = (hdrs[hdr].end \/ hdrs[next].end)
  BY <1>3
<1>7. /\ \A a \in D \ {hdr, next} : s[a].used = hdrs[a].used
      /\ \A a \in D \ {hdr, next} : s[a].size = hdrs[a].size
      /\ \A a \in D \ {hdr, next} : s[a].end = hdrs[a].end
      /\ \A a \in D \ {hdr, next} :
             s[a].prev = IF a = nextnext /\ ~hdrs[next].end THEN hdr ELSE hdrs[a].prev
  <2>1. ASSUME NEW a \in D \ {hdr, next}
        PROVE  /\ s[a].used = hdrs[a].used /\ s[a].size = hdrs[a].size
               /\ s[a].end = hdrs[a].end
               /\ s[a].prev = IF a = nextnext /\ ~hdrs[next].end THEN hdr ELSE hdrs[a].prev
    <3>1. CASE a = nextnext /\ ~hdrs[next].end
      <4>1. s[a] = [used |-> hdrs[a].used, end |-> hdrs[a].end, prev |-> hdr,
                    size |-> hdrs[a].size]
        BY <1>3, <3>1
      <4> QED
        BY <3>1, <4>1
    <3>2. CASE ~(a = nextnext /\ ~hdrs[next].end)
      <4>1. s[a] = hdrs[a]
        BY <1>3, <3>2
      <4> QED
        BY <3>2, <4>1
    <3> QED
      BY <3>1, <3>2
  <2> QED
    BY <2>1
<1>8. \A a \in D \ {next} : s[a] \in Header
  <2>1. s[hdr] \in Header
    BY <1>0, <1>1, <1>3 DEF Header
  <2>2. ASSUME NEW a \in D \ {hdr, next} PROVE s[a] \in Header
    <3>1. \/ s[a] = [used |-> hdrs[a].used, end |-> hdrs[a].end, prev |-> hdr,
                     size |-> hdrs[a].size]
          \/ s[a] = hdrs[a]
      BY <1>3
    <3>2. /\ hdrs[a].used \in BOOLEAN /\ hdrs[a].end \in BOOLEAN /\ hdrs[a].size \in Nat
          /\ hdrs[a] \in Header
      BY <1>0
    <3>3. [used |-> hdrs[a].used, end |-> hdrs[a].end, prev |-> hdr, size |-> hdrs[a].size]
              \in Header
      BY <1>1, <3>2 DEF Header
    <3> QED
      BY <3>1, <3>2, <3>3
  <2> QED
    BY <2>1, <2>2
<1>9. AllocatedBut(s, l, hdr)
  <2>1. /\ DOMAIN live \subseteq D
        /\ \A a \in DOMAIN live : live[a] \in Sizes /\ live[a] <= hdrs[a].size
        /\ \A a \in D : hdrs[a].used <=> a \in DOMAIN live
    BY DEF Allocated, D
  <2>2. DOMAIN l = DOMAIN live \ {hdr} /\ \A a \in DOMAIN l : l[a] = live[a]
    BY DEF Drop, l
  <2>3. next \notin DOMAIN live
    BY <1>1, <2>1
  <2>4. DOMAIN l \subseteq DOMAIN s \ {hdr}
    BY <1>3, <2>1, <2>2, <2>3
  <2>5. \A a \in DOMAIN l : l[a] \in Sizes /\ l[a] <= s[a].size
    BY <1>7, <2>1, <2>2, <2>3
  <2>6. \A a \in DOMAIN s \ {hdr} : s[a].used <=> a \in DOMAIN l
    BY <1>3, <1>7, <2>1, <2>2
  <2> QED
    BY <2>4, <2>5, <2>6 DEF AllocatedBut
<1>10. /\ End(s, hdr) \in Nat /\ End(s, hdr) < nextnext
       /\ \A a \in D \ {hdr, next} : End(s, a) = End(hdrs, a)
  <2>1. hdrs[hdr].size \in Nat /\ hdrs[next].size \in Nat
    BY <1>0, <1>1
  <2>2. \A a \in D \ {hdr, next} : End(s, a) = End(hdrs, a)
    BY <1>7 DEF End
  <2> QED
    BY <1>1, <1>4, <1>5, <1>6, <2>1, <2>2
<1>11. ASSUME hdrs[next].end \/ nextnext \in D PROVE Ordered(s, top)
  <2>1. D \ {next} \subseteq Nat
    BY <1>0
  <2>2. \A a \in D \ {next} : End(s, a) <= top
    BY <1>0, <1>1, <1>2, <1>10
  <2>3. \A a, b \in D \ {next} : a < b => End(s, a) <= b
    <3> SUFFICES ASSUME NEW a \in D \ {next}, NEW b \in D \ {next}, a < b
                 PROVE  End(s, a) <= b
      OBVIOUS
    <3>0. a \in Nat /\ b \in Nat
      BY <1>0
    <3>1. CASE a = hdr
      <4>1. nextnext <= b
        BY <1>1, <1>2, <3>0, <3>1
      <4> QED
        BY <1>1, <1>10, <3>0, <3>1, <4>1
    <3>2. CASE a # hdr
      BY <1>0, <1>10, <3>2
    <3> QED
      BY <3>1, <3>2
  <2>4. \A a \in D \ {next} : s[a].prev # NULL =>
            /\ s[a].prev \in D \ {next} /\ s[a].prev < a
            /\ \A b \in D \ {next} : ~(s[a].prev < b /\ b < a)
    <3> SUFFICES ASSUME NEW a \in D \ {next}, s[a].prev # NULL
                 PROVE  /\ s[a].prev \in D \ {next} /\ s[a].prev < a
                        /\ \A b \in D \ {next} : ~(s[a].prev < b /\ b < a)
      OBVIOUS
    <3>0. a \in Nat
      BY <1>0
    <3>1. CASE a = nextnext /\ ~hdrs[next].end
      <4>1. s[a].prev = hdr
        BY <1>1, <1>7, <3>1
      <4>2. \A b \in D \ {next} : hdr < b => nextnext <= b
        BY <1>0, <1>1, <1>2
      <4>3. \A b \in D \ {next} : ~(hdr < b /\ b < nextnext)
        BY <1>0, <1>1, <4>2
      <4> QED
        BY <1>1, <3>1, <4>1, <4>3
    <3>2. CASE ~(a = nextnext /\ ~hdrs[next].end)
      <4>1. s[a].prev = hdrs[a].prev
        BY <1>6, <1>7, <3>2
      <4>2. s[a].prev \in D /\ s[a].prev < a /\ \A b \in D : ~(s[a].prev < b /\ b < a)
        BY <1>0, <4>1
      <4>3. ASSUME s[a].prev = next PROVE FALSE
        <5>1. next < a /\ \A b \in D : ~(next < b /\ b < a)
          BY <4>2, <4>3
        <5>2. ~hdrs[next].end
          BY <1>0, <1>1, <3>0, <5>1
        <5>3. nextnext \in D /\ nextnext <= a
          BY <1>2, <1>11, <5>1, <5>2
        <5>4. ~(nextnext < a)
          BY <1>1, <5>1, <5>3
        <5> QED
          BY <1>1, <3>0, <3>2, <5>2, <5>3, <5>4
      <4> QED
        BY <4>2, <4>3
    <3> QED
      BY <3>1, <3>2
  <2>5. \A a, b \in D \ {next} : s[a].end => b <= a
    <3> SUFFICES ASSUME NEW a \in D \ {next}, NEW b \in D \ {next}, s[a].end PROVE b <= a
      OBVIOUS
    <3>0. a \in Nat /\ b \in Nat
      BY <1>0
    <3>1. CASE a = hdr
      <4>1. ~hdrs[hdr].end
        BY <1>0, <1>1
      <4>2. hdrs[next].end
        BY <1>6, <3>1, <4>1
      <4>3. b <= next
        BY <1>0, <1>1, <4>2
      <4>4. hdr < b => next <= b
        BY <1>2
      <4> QED
        BY <1>1, <3>0, <3>1, <4>3, <4>4
    <3>2. CASE a # hdr
      BY <1>0, <1>7, <3>2
    <3> QED
      BY <3>1, <3>2
  <2> QED
    BY <1>3, <1>8, <2>1, <2>2, <2>3, <2>4, <2>5, Zenon DEF Ordered
<1>12. hdr \in DOMAIN s /\ DOMAIN s \subseteq D
  BY <1>1, <1>3
<1> QED
  BY <1>3, <1>8, <1>9, <1>11, <1>12 DEF s, next, nextnext, l, D
-----------------------------------------------------------------------------
(***************************************************************************)
(* Every step keeps the invariant.                                         *)
(***************************************************************************)

\* The mapped pages are part of the heap.
LEMMA TopInHeap ==
    ASSUME NEW m \in 0..HeapPages
    PROVE  m * PageUnits \in Nat /\ 0..(m * PageUnits - 1) \subseteq Units
<1>1. m * PageUnits \in Nat /\ HeapPages * PageUnits \in Nat
  BY HeapPagesAssumption, PageUnitsAssumption
<1>2. m * PageUnits <= HeapPages * PageUnits
  BY HeapPagesAssumption, PageUnitsAssumption, Monotone
<1> QED
  BY <1>1, <1>2 DEF Units

\* malloc takes a block of an ordered heap.
LEMMA TakeKeeps ==
    ASSUME NEW h, NEW hdr \in DOMAIN h, NEW size \in Sizes, mapped' \in 0..HeapPages,
           Ordered(h, mapped' * PageUnits), Allocated(h, live), merges \in BOOLEAN,
           ~merges => Tiled(h, mapped' * PageUnits), h[hdr].size >= size, Take(h, hdr, size)
    PROVE  IInv'
<1> DEFINE top == mapped' * PageUnits
           s == Split(h, hdr, size)
           m == Put(live, hdr, size)
<1>1. top \in Nat /\ 0..(top - 1) \subseteq Units
  BY TopInHeap
<1>2. /\ hdrs' = s /\ live' = m /\ merges' = merges
      /\ outcome' = IF SplitDerails(h, hdr, size) THEN "derailed" ELSE "ok"
  BY DEF Take
<1>3. Top' = top
  BY DEF Top
<1> HIDE DEF top
<1>4. /\ DOMAIN s \subseteq 0..(top - 1)
      /\ \A a \in DOMAIN s : s[a] \in Header
      /\ Allocated(s, m)
  BY <1>1, SplitAllocates DEF top
<1>5. ~SplitDerails(h, hdr, size) => Ordered(s, top) /\ (~merges => Tiled(s, top))
  BY <1>1, SplitKeeps DEF top
<1> HIDE DEF s, m
<1>6. TypeOK'
  <2>1. DOMAIN m \subseteq DOMAIN s /\ \A a \in DOMAIN m : m[a] \in Sizes
    BY <1>4 DEF Allocated
  <2>2. DOMAIN s \subseteq Units
    BY <1>1, <1>4
  <2>3. outcome' \in {"ok", "derailed", "null"} /\ merges' \in BOOLEAN
    BY <1>2
  <2> QED
    BY <1>2, <1>4, <2>1, <2>2, <2>3 DEF TypeOK
<1>7. ASSUME outcome' = "ok" PROVE ~SplitDerails(h, hdr, size)
  BY <1>2, <1>7
<1> QED
  BY <1>2, <1>3, <1>4, <1>5, <1>6, <1>7 DEF IInv

\* malloc, whichever way it goes.
LEMMA MallocKeeps ==
    ASSUME IInv, outcome = "ok", NEW size \in Sizes, malloc(size)
    PROVE  IInv'
<1> DEFINE hdr == Search(size)
<1>1. /\ TypeOK /\ Ordered(hdrs, Top) /\ Allocated(hdrs, live)
      /\ ~merges => Tiled(hdrs, Top)
  BY DEF IInv
<1>2. mapped \in 0..HeapPages /\ merges \in BOOLEAN /\ mapped \in Nat /\ Top \in Nat
  BY <1>1, TopInHeap DEF TypeOK, Top
<1>3. DOMAIN hdrs \subseteq Nat /\ \A a \in DOMAIN hdrs : hdrs[a].size \in Nat
  BY <1>1, <1>2, OrderedFacts
<1>4. size \in Nat
  BY SizesAssumption
<1>5. ASSUME NEW how \in {"derailed", "null"}, Stop(how) PROVE IInv'
  <2>1. TypeOK'
    BY <1>1, <1>5 DEF Stop, TypeOK
  <2>2. outcome' # "ok"
    BY <1>5 DEF Stop
  <2> QED
    BY <2>1, <2>2 DEF IInv
<1>6. CASE MallocDerails(size)
  BY <1>5, <1>6 DEF MallocDerails
<1>7. CASE MallocReuses(size)
  <2>1. hdr \in DOMAIN hdrs /\ ~Unsuitable(hdr, size) /\ Take(hdrs, hdr, size) /\ mapped' = mapped
    BY <1>7 DEF MallocReuses, IsHeader, MustGrow
  <2>2. hdrs[hdr].size >= size
    BY <1>3, <1>4, <2>1 DEF Unsuitable
  <2>3. mapped' * PageUnits = Top
    BY <2>1 DEF Top
  <2> HIDE DEF hdr
  <2> QED
    BY <1>1, <1>2, <2>1, <2>2, <2>3, TakeKeeps
<1>8. CASE MallocGrows(size)
  <2> DEFINE start == IF hdr = NULL THEN 0 ELSE find_next_hdr(hdrs, hdr)
             n == PagesFor(size)
             g == Grown(hdr, size)
  <2>1. /\ hdr # NULL => hdr \in DOMAIN hdrs
        /\ IF mem_alloc(start, n) = NULL THEN Stop("null")
           ELSE Take(g, start, size) /\ mapped' = mapped + n
    BY <1>8 DEF MallocGrows, IsHeader
  <2>2. hdr \in Nat \cup {NULL} /\ start \in Nat
    BY <1>3, <2>1 DEF find_next_hdr
  <2>3. n \in Nat /\ n * PageUnits \in Nat
    BY <1>4, PagesForFits
  <2> HIDE DEF hdr, n
  <2>4. CASE mem_alloc(start, n) = NULL
    BY <1>5, <2>1, <2>4
  <2>5. CASE mem_alloc(start, n) # NULL
    <3>1. /\ Top <= start
          /\ start = Top => mapped + n <= HeapPages
          /\ (mapped + n) * PageUnits = Top + n * PageUnits
      BY <1>2, <2>2, <2>3, <2>5, MemAllocBounds DEF Top
    <3>2. /\ start = Top
          /\ start \in DOMAIN g /\ g[start].size >= size
          /\ Ordered(g, Top + n * PageUnits) /\ Allocated(g, live)
          /\ Tiled(hdrs, Top) => Tiled(g, Top + n * PageUnits)
      BY <1>1, <1>2, <1>4, <2>1, <2>2, <3>1, GrownKeeps DEF n
    <3>3. Take(g, start, size) /\ mapped' = mapped + n
      BY <2>1, <2>5
    <3>4. mapped' \in 0..HeapPages
      BY <1>2, <2>3, <3>1, <3>2, <3>3
    <3>5. mapped' * PageUnits = Top + n * PageUnits
      BY <3>1, <3>3
    <3> HIDE DEF g, start
    <3> QED
      BY <1>1, <1>2, <3>2, <3>3, <3>4, <3>5, TakeKeeps
  <2> QED
    BY <2>4, <2>5
<1> QED
  BY <1>6, <1>7, <1>8 DEF malloc

\* free of an allocated block.  If the block before it was free and the
\* merged block is not the last, what free then takes for the next header
\* lies inside the block, so that only an unmerged block can reach the next.
LEMMA FreeKeeps ==
    ASSUME IInv, outcome = "ok", NEW ptr \in DOMAIN live, free(ptr)
    PROVE  IInv'
<1> DEFINE h    == IF MergesPrev(ptr) THEN MergePrev(ptr) ELSE hdrs
           hdr  == IF MergesPrev(ptr) THEN hdrs[ptr].prev ELSE ptr
           next == find_next_hdr(h, hdr)
           mergesNext == LooksAtNext(h, hdr) /\ ~h[next].used
           l    == Drop(live, ptr)
<1>1. /\ TypeOK /\ Ordered(hdrs, Top) /\ Allocated(hdrs, live)
      /\ ~merges => Tiled(hdrs, Top)
  BY DEF IInv
<1>2. mapped \in 0..HeapPages /\ merges \in BOOLEAN /\ Top \in Nat
  BY <1>1, TopInHeap DEF TypeOK, Top
<1>3. /\ ptr \in DOMAIN hdrs /\ hdrs[ptr].used
      /\ DOMAIN hdrs \subseteq Units
      /\ \A a \in DOMAIN hdrs : hdrs[a] \in Header
  BY <1>1 DEF Allocated, TypeOK
<1>4. live' = l /\ mapped' = mapped /\ Top' = Top
  BY DEF free, Top
<1>5. DOMAIN l = DOMAIN live \ {ptr} /\ \A a \in DOMAIN l : l[a] = live[a]
  BY DEF Drop
<1>6. \A a \in DOMAIN l : l[a] \in Sizes
  BY <1>1, <1>5 DEF TypeOK
<1> HIDE DEF l
\* It is enough to look at the headers that are left.
<1>7. ASSUME outcome' \in {"ok", "derailed"}, merges' \in BOOLEAN, DOMAIN hdrs' \subseteq Units,
             \A a \in DOMAIN hdrs' : hdrs'[a] \in Header, DOMAIN l \subseteq DOMAIN hdrs'
      PROVE  TypeOK'
  BY <1>2, <1>4, <1>6, <1>7 DEF TypeOK
<1>8. CASE MergesPrev(ptr)
  <2> DEFINE s == MergePrev(ptr)
             prev == hdrs[ptr].prev
  <2>0. h = s /\ hdr = prev
    BY <1>8
  <2>1. /\ prev \in DOMAIN s /\ ~s[prev].used
        /\ DOMAIN s \subseteq DOMAIN hdrs
        /\ \A a \in DOMAIN s : s[a] \in Header
        /\ AllocatedBut(s, l, prev)
        /\ s[prev].end => Ordered(s, Top)
        /\ ~s[prev].end => End(s, prev) \notin DOMAIN s
    BY <1>1, <1>2, <1>3, <1>8, MergePrevKeeps DEF l
  <2>2. DOMAIN l \subseteq DOMAIN s
    BY <2>1 DEF AllocatedBut
  <2>3. LooksAtNext(s, prev) <=> ~s[prev].end
    BY <2>1 DEF LooksAtNext
  <2>4. CASE s[prev].end
    <3>1. hdrs' = Freed(s, prev) /\ merges' = TRUE /\ outcome' = "ok"
      BY <1>8, <2>0, <2>3, <2>4 DEF free
    <3>2. Ordered(hdrs', Top) /\ Allocated(hdrs', l)
      BY <1>2, <2>1, <2>4, <3>1, FreedKeeps
    <3>3. DOMAIN hdrs' = DOMAIN s /\ \A a \in DOMAIN hdrs' : hdrs'[a] \in Header
      BY <2>1, <3>1, FreedFields
    <3>4. TypeOK'
      BY <1>3, <1>7, <2>1, <2>2, <3>1, <3>3
    <3> QED
      BY <1>4, <3>1, <3>2, <3>4 DEF IInv
  <2>5. CASE ~s[prev].end
    <3>1. End(s, prev) = find_next_hdr(s, prev)
      BY DEF End, find_next_hdr
    <3>2. hdrs' = s /\ merges' = merges /\ outcome' = "derailed"
      BY <1>8, <2>0, <2>1, <2>3, <2>5, <3>1 DEF free, IsHeader
    <3>3. TypeOK'
      BY <1>2, <1>3, <1>7, <2>1, <2>2, <3>2
    <3> QED
      BY <3>2, <3>3 DEF IInv
  <2> QED
    BY <2>4, <2>5
<1>9. CASE ~MergesPrev(ptr)
  <2> DEFINE nx == End(hdrs, ptr)
             s == MergeNext(hdrs, ptr)
  <2>0. h = hdrs /\ hdr = ptr /\ next = nx
    BY <1>9 DEF End, find_next_hdr
  <2>1. LooksAtNext(hdrs, ptr)
    BY <1>3 DEF LooksAtNext
  <2>2. AllocatedBut(hdrs, l, ptr)
    BY <1>1, <1>5 DEF Allocated, AllocatedBut
  <2>3. CASE nx \notin DOMAIN hdrs
    <3>1. hdrs' = hdrs /\ merges' = merges /\ outcome' = "derailed"
      BY <1>9, <2>0, <2>1, <2>3 DEF free, IsHeader
    <3>2. TypeOK'
      BY <1>2, <1>3, <1>7, <2>2, <3>1 DEF AllocatedBut
    <3> QED
      BY <3>1, <3>2 DEF IInv
  <2>4. CASE nx \in DOMAIN hdrs /\ hdrs[nx].used
    <3>1. hdrs' = Freed(hdrs, ptr) /\ merges' = merges /\ outcome' = "ok"
      <4>1. /\ hdrs' = Freed(hdrs, ptr) /\ outcome' = "ok"
            /\ merges' = (merges \/ FALSE \/ FALSE)
        BY <1>9, <2>0, <2>1, <2>4 DEF free, IsHeader
      <4> QED
        BY <1>2, <4>1
    <3>2. /\ Ordered(hdrs', Top) /\ Allocated(hdrs', l)
          /\ Tiled(hdrs, Top) => Tiled(hdrs', Top)
      BY <1>1, <1>2, <1>3, <2>2, <3>1, FreedKeeps
    <3>3. DOMAIN hdrs' = DOMAIN hdrs /\ \A a \in DOMAIN hdrs' : hdrs'[a] \in Header
      BY <1>3, <3>1, FreedFields
    <3>4. TypeOK'
      BY <1>2, <1>3, <1>7, <2>2, <3>1, <3>3 DEF AllocatedBut
    <3> QED
      BY <1>1, <1>4, <3>1, <3>2, <3>4 DEF IInv
  <2>5. CASE nx \in DOMAIN hdrs /\ ~hdrs[nx].used
    <3>1. /\ hdrs' = Freed(s, ptr) /\ merges' = TRUE
          /\ outcome' = IF ~hdrs[nx].end /\ End(hdrs, nx) \notin DOMAIN hdrs
                        THEN "derailed" ELSE "ok"
      <4>1. /\ hdrs' = Freed(s, ptr)
            /\ merges' = (merges \/ FALSE \/ TRUE)
            /\ outcome' = IF TRUE /\ ~hdrs[nx].end /\ find_next_hdr(hdrs, nx) \notin DOMAIN hdrs
                          THEN "derailed" ELSE "ok"
        BY <1>9, <2>0, <2>1, <2>5 DEF free, IsHeader
      <4> QED
        BY <1>2, <4>1 DEF End, find_next_hdr
    <3>2. /\ ptr \in DOMAIN s /\ DOMAIN s \subseteq DOMAIN hdrs
          /\ \A a \in DOMAIN s : s[a] \in Header
          /\ AllocatedBut(s, l, ptr)
          /\ hdrs[nx].end \/ End(hdrs, nx) \in DOMAIN hdrs => Ordered(s, Top)
      BY <1>1, <1>2, <1>3, <2>5, MergeNextKeeps DEF l
    <3>3. DOMAIN hdrs' = DOMAIN s /\ \A a \in DOMAIN hdrs' : hdrs'[a] \in Header
      BY <3>1, <3>2, FreedFields
    <3>4. TypeOK'
      BY <1>3, <1>7, <3>1, <3>2, <3>3 DEF AllocatedBut
    <3>5. ASSUME outcome' = "ok" PROVE Ordered(hdrs', Top) /\ Allocated(hdrs', l)
      <4>1. Ordered(s, Top)
        BY <3>1, <3>2, <3>5
      <4> QED
        BY <1>2, <3>1, <3>2, <4>1, FreedKeeps
    <3> QED
      BY <1>4, <3>1, <3>4, <3>5 DEF IInv
  <2> QED
    BY <2>3, <2>4, <2>5
<1> QED
  BY <1>8, <1>9

\* The invariant holds initially and every step keeps it.
LEMMA HeapInductive == Spec => []IInv
<1>1. Init => IInv
  <2> SUFFICES ASSUME Init PROVE IInv
    OBVIOUS
  <2>1. DOMAIN hdrs = {} /\ DOMAIN live = {} /\ mapped = 0 /\ merges = FALSE /\ outcome = "ok"
    BY DEF Init
  <2>2. TypeOK
    <3>1. mapped \in 0..HeapPages
      BY <2>1, HeapPagesAssumption
    <3>2. merges \in BOOLEAN /\ outcome \in {"ok", "derailed", "null"}
      BY <2>1
    <3>3. DOMAIN hdrs \subseteq Units /\ DOMAIN live \subseteq DOMAIN hdrs
      BY <2>1
    <3> QED
      BY <2>1, <3>1, <3>2, <3>3 DEF TypeOK
  <2> QED
    BY <2>1, <2>2 DEF IInv, Ordered, Allocated, Tiled
<1>2. IInv /\ [Next]_vars => IInv'
  <2> SUFFICES ASSUME IInv, [Next]_vars PROVE IInv'
    OBVIOUS
  <2>1. CASE Next
    BY <2>1, MallocKeeps, FreeKeeps DEF Next
  <2>2. CASE UNCHANGED vars
    <3>1. /\ hdrs' = hdrs /\ mapped' = mapped /\ live' = live /\ merges' = merges
          /\ outcome' = outcome
      BY <2>2 DEF vars
    <3>2. TypeOK' /\ Top' = Top
      BY <3>1 DEF IInv, TypeOK, Top
    <3> QED
      BY <3>1, <3>2 DEF IInv
  <2> QED
    BY <2>1, <2>2
<1> QED
  BY <1>1, <1>2, PTL DEF Spec

\* Every header malloc and free leave lies in the heap and, until two blocks
\* are merged, the blocks tile what is mapped of it: for every page size, heap
\* and sequence of calls.
THEOREM BlocksTileHeapHolds == Spec => []BlocksTileHeap
<1>1. IInv => BlocksTileHeap
  <2> SUFFICES ASSUME IInv PROVE BlocksTileHeap
    OBVIOUS
  <2>1. TypeOK
    BY DEF IInv
  <2>2. ASSUME ~merges, outcome = "ok", NEW hdr \in DOMAIN hdrs
        PROVE  IF hdrs[hdr].end THEN find_next_hdr(hdrs, hdr) = mapped * PageUnits
               ELSE /\ IsHeader(hdrs, find_next_hdr(hdrs, hdr))
                    /\ hdrs[find_next_hdr(hdrs, hdr)].prev = hdr
    BY <2>2 DEF IInv, Tiled, Top, End, find_next_hdr
  <2> QED
    BY <2>1, <2>2 DEF BlocksTileHeap
<1> QED
  BY <1>1, HeapInductive, PTL

\* What malloc hands out belongs to its caller alone and is large enough, as
\* long as no header was looked for where there is none, and a block is marked
\* as used exactly while it is allocated: whatever was allocated, freed and
\* merged before.
THEOREM AllocationsDisjointHolds == Spec => []AllocationsDisjoint
<1>1. IInv => AllocationsDisjoint
  <2> SUFFICES ASSUME IInv, outcome = "ok"
               PROVE  /\ \A hdr \in DOMAIN live :
                             /\ live[hdr] <= hdrs[hdr].size
                             /\ hdr + live[hdr] < mapped * PageUnits
                             /\ (hdr + 1)..(hdr + live[hdr]) \cap DOMAIN hdrs = {}
                             /\ \A other \in DOMAIN live \ {hdr} :
                                    (hdr + 1)..(hdr + live[hdr])
                                        \cap (other + 1)..(other + live[other]) = {}
                      /\ \A hdr \in DOMAIN hdrs : hdrs[hdr].used <=> hdr \in DOMAIN live
    BY DEF AllocationsDisjoint
  <2> DEFINE D == DOMAIN hdrs
  <2>1. Ordered(hdrs, Top) /\ Allocated(hdrs, live) /\ Top \in Nat
    BY TopInHeap DEF IInv, TypeOK, Top
  <2>2. /\ D \subseteq Nat
        /\ \A a \in D : End(hdrs, a) <= Top
        /\ \A a, b \in D : a < b => End(hdrs, a) <= b
        /\ \A a \in D : End(hdrs, a) \in Nat
        /\ \A a \in D : hdrs[a].size \in Nat
    BY <2>1, OrderedFacts
  <2>3. \A a \in D : hdrs[a].used <=> a \in DOMAIN live
    BY <2>1 DEF Allocated
  <2>4. \A a \in DOMAIN live : a \in D /\ live[a] \in Nat /\ live[a] <= hdrs[a].size
    BY <2>1, SizesAssumption DEF Allocated
  <2>5. \A a \in DOMAIN live : a \in Nat /\ a + live[a] \in Nat /\ a + live[a] < End(hdrs, a)
    BY <2>2, <2>4 DEF End
  <2> HIDE DEF D
  <2>6. ASSUME NEW hdr \in DOMAIN live, NEW a \in D, a \in (hdr + 1)..(hdr + live[hdr])
        PROVE  FALSE
    BY <2>2, <2>4, <2>5, <2>6
  <2>7. ASSUME NEW hdr \in DOMAIN live, NEW other \in DOMAIN live \ {hdr},
               NEW a \in (hdr + 1)..(hdr + live[hdr]), a \in (other + 1)..(other + live[other])
        PROVE  FALSE
    <3>1. hdr < other \/ other < hdr
      BY <2>5
    <3>2. End(hdrs, hdr) <= other \/ End(hdrs, other) <= hdr
      BY <2>2, <2>4, <3>1
    <3> QED
      BY <2>2, <2>4, <2>5, <2>7, <3>2
  <2>8. ASSUME NEW hdr \in DOMAIN live
        PROVE  hdr + live[hdr] < mapped * PageUnits
    BY <2>1, <2>2, <2>4, <2>5 DEF Top
  <2> QED
    BY <2>3, <2>4, <2>6, <2>7, <2>8 DEF D
<1> QED
  BY <1>1, HeapInductive, PTL
=============================================================================
