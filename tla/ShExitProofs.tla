------------------------------ MODULE ShExitProofs ------------------------------
(* Proofs about the exits, for any number of threads and functions, any    *)
(* files with segments as the linker maps them, any page size, any range   *)
(* of the short jump and any room for gaps and for protected threads.      *)
EXTENDS ShExit, TLAPS, FiniteSetTheorems, SequenceTheorems, WellFoundedInduction

(* No function is so close to the end of the address space that the short  *)
(* jump reaches beyond it.  (There sh_exit_try_alloc_in_library() does not *)
(* keep the last place of a gap within the gap.)                           *)
FarFromTop == \A h \in Hooks : PcOf[h] + RangeHigh <= MaxAddr

LockedPcs == {"protect", "fill", "place", "write", "clear", "unprotect", "unlock"}

Works(t) == ~ At(t, "idle")

(* Which block a thread is in, and what it has in hand there; who works on *)
(* gaps holds the lock.                                                    *)
InPhase(t) ==
  /\ th[t].pc \in {"lock", "unlock"} => th[t].block \in {"alloc", "free"}
  /\ th[t].pc \in {"fill", "place", "write"} => th[t].block = "alloc"
  /\ th[t].pc = "clear" => th[t].block = "free"
  /\ th[t].pc \in {"jump", "rewrite", "patch"} => th[t].block = "rewrite"
  /\ th[t].block = "rewrite" /\ th[t].pc # "crash" => exit[th[t].h] # None
  /\ th[t].block = "free" /\ th[t].pc \in {"lock", "protect", "clear"} =>
       exit[th[t].h] \in Addrs
  /\ th[t].pc \in LockedPcs /\ th[t].block # "rewrite" => lock = t

BlockPhases == \A t \in Threads : Works(t) => InPhase(t)

(* Nobody works on a hook somebody else works on, or that is in effect.    *)
Exclusion ==
  \A t \in Threads : Works(t) =>
    /\ \A s \in Threads : s # t /\ Works(s) => th[s].h # th[t].h
    /\ th[t].h \notin hooked

(* The file stays while somebody works, or has hooked, in it.              *)
FilePhases ==
  /\ elf = None => hooked = {} /\ \A h \in Hooks : exit[h] = None
  /\ elf = None => \A t \in Threads : ~ Works(t)
  /\ \A h \in hooked : exit[h] # None

(* A gap is searched after it was filled, and a place that was found free  *)
(* stays free until the exit is written there.                             *)
SearchPhases ==
  \A t \in Threads : th[t].pc \in {"place", "write"} =>
    /\ th[t].gap \in DOMAIN Gaps
    /\ Gaps[th[t].gap].fill => mem[Gaps[th[t].gap].start] = "flag"
    /\ th[t].pc = "write" =>
         th[t].place \in Places(Gaps[th[t].gap], PcOf[th[t].h]) /\ IsZero(th[t].place)

(* A gap that is still to be filled holds no exit.                         *)
ToFillAreEmpty ==
  elf # None =>
    \A n \in DOMAIN Gaps : Gaps[n].fill /\ mem[Gaps[n].start] # "flag" =>
      \A u \in Gaps[n].start .. Gaps[n].end - 1 : mem[u] \notin Hooks

(* Both units of an exit lie in memory.                                    *)
ExitsFit == \A h \in Hooks : exit[h] \in Addrs => exit[h] + 1 \in Addrs

IInv ==
  /\ TypeOK
  /\ BlockPhases
  /\ Exclusion
  /\ FilePhases
  /\ SearchPhases
  /\ ToFillAreEmpty
  /\ ExitsFit
  /\ LiveExitsAreIntact
  /\ SegmentsAreUntouched
  /\ ExitsAreInReach

----------------------------------------------------------------------------
(* Alignment.                                                              *)
LEMMA Alignment ==
  ASSUME NEW a \in Nat, NEW size \in Nat \ {0}
  PROVE  /\ AlignStart(a, size) \in Nat /\ AlignStart(a, size) <= a
         /\ AlignEnd(a, size) \in Nat /\ AlignEnd(a, size) >= a
<1>1. \A b \in Nat : b % size \in Nat /\ b % size < size /\ b % size <= b
  OBVIOUS
<1>2. AlignStart(a, size) \in Nat /\ AlignStart(a, size) <= a
  BY <1>1 DEF AlignStart
<1>3. a + size - 1 \in Nat
  OBVIOUS
<1>4. AlignEnd(a, size) = a + size - 1 - ((a + size - 1) % size)
  BY DEF AlignEnd, AlignStart
<1>5. AlignEnd(a, size) \in Nat /\ AlignEnd(a, size) >= a
  BY <1>1, <1>3, <1>4
<1>6. QED
  BY <1>2, <1>5

LEMMA NatMinimum ==
  ASSUME NEW T, T \subseteq Nat, T # {}
  PROVE  \E n \in T : \A m \in T : n <= m
<1> DEFINE R == OpToRel(<, Nat)
<1>1. \E n \in T : \A m \in T : ~ (<<m, n>> \in R)
  BY WFMin, NatLessThanWellFounded
<1>2. \A m, n \in Nat : <<m, n>> \in R <=> m < n
  BY DEF OpToRel
<1> HIDE DEF R
<1>3. PICK n \in T : \A m \in T : ~ (<<m, n>> \in R)
  BY <1>1, Zenon
<1>4. \A m \in T : ~ (m < n)
  BY <1>2, <1>3, Zenon
<1>5. \A m \in T : n <= m
  BY <1>4
<1>6. QED
  BY <1>5

(* The n-th member of a finite set of numbers.                             *)
LEMMA NthExists ==
  ASSUME NEW L \in Nat, NEW S \in SUBSET (1 .. L), NEW n \in 1 .. Cardinality(S)
  PROVE  \E i \in S : Cardinality({j \in S : j <= i}) = n
<1> DEFINE Upto(k) == {j \in S : j <= k}
           T == {k \in Nat : Cardinality(Upto(k)) >= n}
<1>0. \A i \in S : i \in Nat /\ 1 <= i /\ i <= L
  OBVIOUS
<1>1. IsFiniteSet(S) /\ \A k \in Nat : IsFiniteSet(Upto(k)) /\ Cardinality(Upto(k)) \in Nat
  <2>1. IsFiniteSet(S)
    <3>1. IsFiniteSet(1 .. L)
      BY FS_Interval
    <3>2. QED
      BY <3>1, FS_Subset
  <2>2. \A k \in Nat : Upto(k) \in SUBSET S
    OBVIOUS
  <2>3. QED
    BY <2>1, <2>2, FS_Subset, FS_CardinalityType
<1>2. Upto(L) = S /\ Upto(0) = {}
  <2>1. \A j \in S : j <= L /\ ~ (j <= 0)
    BY <1>0
  <2>2. QED
    BY <2>1, Zenon
<1>3. n \in Nat /\ 1 <= n /\ n <= Cardinality(S)
  BY <1>1, FS_CardinalityType
<1>4. L \in T
  BY <1>2, <1>3
<1>5. PICK k \in T : \A m \in T : k <= m
  BY <1>4, NatMinimum
<1>6. k \in Nat /\ Cardinality(Upto(k)) >= n
  OBVIOUS
<1>7. k # 0
  BY <1>2, <1>3, <1>6, FS_EmptySet
<1>8. k - 1 \in Nat
  BY <1>6, <1>7
<1>9. ~ (Cardinality(Upto(k - 1)) >= n)
  <2>1. ~ (k <= k - 1)
    BY <1>6
  <2>2. k - 1 \notin T
    BY <1>5, <2>1, Zenon
  <2>3. QED
    BY <1>8, <2>2, Zenon
<1>10. Cardinality(Upto(k - 1)) < n
  <2> HIDE DEF Upto
  <2>1. Cardinality(Upto(k - 1)) \in Nat
    BY <1>1, <1>8
  <2>2. QED
    BY <1>3, <1>9, <2>1
<1>11. k \in S
  <2> SUFFICES ASSUME k \notin S PROVE FALSE
    OBVIOUS
  <2>1. \A j \in S : j <= k <=> j <= k - 1
    BY <1>0, <1>6
  <2>2. Upto(k) = Upto(k - 1)
    BY <2>1, Zenon
  <2>3. QED
    BY <1>6, <1>9, <2>2
<1>12. Upto(k) = Upto(k - 1) \cup {k} /\ k \notin Upto(k - 1)
  <2>1. \A j \in S : j <= k <=> j <= k - 1 \/ j = k
    BY <1>0, <1>6
  <2>2. ~ (k <= k - 1) /\ k <= k
    BY <1>6
  <2>3. \A j : j \in Upto(k) <=> j \in Upto(k - 1) \/ j = k
    BY <1>11, <2>1, <2>2
  <2>4. QED
    BY <2>2, <2>3
<1> HIDE DEF Upto
<1>13. Cardinality(Upto(k)) = Cardinality(Upto(k - 1)) + 1
  BY <1>1, <1>8, <1>12, FS_AddElement
<1>14. Cardinality(Upto(k)) = n
  BY <1>1, <1>3, <1>6, <1>8, <1>10, <1>13
<1>15. QED
  BY <1>11, <1>14 DEF Upto

(* A gap lies behind its segment, and before all that follow.              *)
LEMMA GapOfSegment ==
  ASSUME NEW file \in Files, NEW i \in DOMAIN LayoutOf[file].segs,
         IsGap(Gap(LayoutOf[file], i))
  PROVE  LET g    == Gap(LayoutOf[file], i)
             segs == LayoutOf[file].segs
         IN /\ g \in [start : Nat, end : Nat, fill : BOOLEAN, readable : BOOLEAN]
            /\ g.start < g.end /\ g.end <= Size
            /\ segs[i].end <= g.start
            /\ \A j \in DOMAIN segs : i < j => g.end <= segs[j].start
            /\ \A j \in DOMAIN segs : j < i => segs[j].end <= g.start
<1> DEFINE layout == LayoutOf[file]
           segs == layout.segs
           g == Gap(layout, i)
           pageEnd == PageEnd(segs[i].end)
           next == IF layout.byKernel \/ i = Len(segs) THEN pageEnd
                   ELSE PageStart(segs[i + 1].start)
<1>1. /\ segs \in Seq([start : Nat, fileEnd : Nat, end : Nat, x : BOOLEAN, r : BOOLEAN])
      /\ \A k \in DOMAIN segs :
           /\ segs[k].start < segs[k].end /\ PageEnd(segs[k].end) <= Size
           /\ \A j \in DOMAIN segs : k < j => PageEnd(segs[k].end) <= PageStart(segs[j].start)
  BY LayoutAssumption
<1> HIDE DEF segs
<1>2. /\ DOMAIN segs = 1 .. Len(segs) /\ Len(segs) \in Nat /\ i \in 1 .. Len(segs)
      /\ \A k \in DOMAIN segs : segs[k] \in [start : Nat, fileEnd : Nat, end : Nat, x : BOOLEAN, r : BOOLEAN]
  <2>1. i \in DOMAIN segs
    BY DEF segs
  <2>2. QED
    BY <1>1, <2>1, LenProperties, ElementOfSeq
<1>3. \A k \in DOMAIN segs : /\ segs[k].start \in Nat /\ segs[k].end \in Nat
                              /\ segs[k].x \in BOOLEAN /\ segs[k].r \in BOOLEAN
  BY <1>2
<1>4. PageSize \in Nat \ {0} /\ Size \in Nat
  BY ExitAssumption
<1>5. \A k \in DOMAIN segs :
        /\ PageStart(segs[k].start) \in Nat /\ PageStart(segs[k].start) <= segs[k].start
        /\ PageEnd(segs[k].end) \in Nat /\ segs[k].end <= PageEnd(segs[k].end)
  BY <1>3, <1>4, Alignment DEF PageStart, PageEnd
<1>6. pageEnd \in Nat /\ segs[i].end <= pageEnd /\ pageEnd <= Size
  BY <1>1, <1>2, <1>5
<1>7. next \in Nat /\ next <= Size /\ \A j \in DOMAIN segs : i < j => next <= segs[j].start
  <2>1. CASE layout.byKernel \/ i = Len(segs)
    <3>1. next = pageEnd
      BY <2>1
    <3>2. \A j \in DOMAIN segs : i < j => pageEnd <= segs[j].start
      BY <1>1, <1>2, <1>5
    <3>3. QED
      BY <1>6, <3>1, <3>2
  <2>2. CASE ~ (layout.byKernel \/ i = Len(segs))
    <3>1. next = PageStart(segs[i + 1].start) /\ i + 1 \in DOMAIN segs
      BY <1>2, <2>2
    <3>2. /\ PageStart(segs[i + 1].start) <= segs[i + 1].start
          /\ segs[i + 1].start < segs[i + 1].end /\ segs[i + 1].end <= PageEnd(segs[i + 1].end)
          /\ PageEnd(segs[i + 1].end) <= Size
      BY <1>1, <1>5, <3>1
    <3>3. \A j \in DOMAIN segs : i + 1 < j => PageEnd(segs[i + 1].end) <= segs[j].start
      <4>1. \A j \in DOMAIN segs : i + 1 < j => PageEnd(segs[i + 1].end) <= PageStart(segs[j].start)
        BY <1>1, <3>1
      <4>2. QED
        BY <1>3, <1>5, <3>1, <4>1
    <3>4. \A j \in DOMAIN segs : i < j => j = i + 1 \/ i + 1 < j
      BY <1>2
    <3>5. \A j \in DOMAIN segs : i < j => next <= segs[j].start
      BY <1>3, <1>5, <3>1, <3>2, <3>3, <3>4
    <3>6. QED
      BY <1>3, <1>4, <1>5, <3>1, <3>2, <3>5
  <2>3. QED
    BY <2>1, <2>2
<1> HIDE DEF next, pageEnd
<1>8. AlignEnd(segs[i].end, 2) \in Nat /\ segs[i].end <= AlignEnd(segs[i].end, 2)
  <2>1. 2 \in Nat \ {0} /\ segs[i].end \in Nat
    BY <1>2, <1>3
  <2>2. QED
    BY <2>1, Alignment
<1>9. \/ g = [start |-> AlignEnd(segs[i].end, 2), end |-> next, fill |-> segs[i].x,
              readable |-> segs[i].r /\ pageEnd = next]
      \/ g = [start |-> pageEnd, end |-> next, fill |-> TRUE, readable |-> FALSE]
      \/ g = NoGap
  BY DEF Gap, next, pageEnd, segs
<1>10. g # NoGap
  BY DEF IsGap, NoGap
<1>11. /\ g \in [start : Nat, end : Nat, fill : BOOLEAN, readable : BOOLEAN]
       /\ g.end = next /\ segs[i].end <= g.start
  <2> DEFINE fill == segs[i].x
             readable == segs[i].r /\ pageEnd = next
             start == AlignEnd(segs[i].end, 2)
  <2>1. fill \in BOOLEAN /\ readable \in BOOLEAN
    BY <1>2, <1>3
  <2>2. \/ g = [start |-> start, end |-> next, fill |-> fill, readable |-> readable]
        \/ g = [start |-> pageEnd, end |-> next, fill |-> TRUE, readable |-> FALSE]
    BY <1>9, <1>10
  <2>3. start \in Nat /\ segs[i].end <= start
    BY <1>8
  <2> HIDE DEF g, fill, readable, start
  <2>4. \A a \in Nat : \A e \in Nat : \A f, r \in BOOLEAN :
          [start |-> a, end |-> e, fill |-> f, readable |-> r]
            \in [start : Nat, end : Nat, fill : BOOLEAN, readable : BOOLEAN]
    OBVIOUS
  <2>5. g \in [start : Nat, end : Nat, fill : BOOLEAN, readable : BOOLEAN]
    <3>1. [start |-> start, end |-> next, fill |-> fill, readable |-> readable]
            \in [start : Nat, end : Nat, fill : BOOLEAN, readable : BOOLEAN]
      BY <1>7, <2>1, <2>3, <2>4, Zenon
    <3>2. [start |-> pageEnd, end |-> next, fill |-> TRUE, readable |-> FALSE]
            \in [start : Nat, end : Nat, fill : BOOLEAN, readable : BOOLEAN]
      BY <1>6, <1>7, <2>4, Zenon
    <3>3. QED
      BY <2>2, <3>1, <3>2, Zenon
  <2>6. QED
    BY <1>6, <1>7, <2>2, <2>3, <2>5
<1>12. g.start < g.end
  <2>1. g.end > g.start + (IF g.fill THEN 2 ELSE 0) /\ g.start \in Nat /\ g.end \in Nat
    BY <1>11 DEF IsGap
  <2>2. QED
    BY <2>1
<1>13. \A j \in DOMAIN segs : j < i => segs[j].end <= g.start
  <2> SUFFICES ASSUME NEW j \in DOMAIN segs, j < i PROVE segs[j].end <= g.start
    OBVIOUS
  <2>1. /\ segs[j].end <= PageEnd(segs[j].end) /\ PageEnd(segs[j].end) <= PageStart(segs[i].start)
        /\ PageStart(segs[i].start) <= segs[i].start /\ segs[i].start < segs[i].end
    BY <1>1, <1>2, <1>5
  <2>2. QED
    BY <1>2, <1>3, <1>5, <1>11, <2>1
<1>14. QED
  BY <1>7, <1>11, <1>12, <1>13 DEF segs

(* The gaps of a file lie in memory, outside of its segments, and apart.   *)
LEMMA GapsAreApart ==
  ASSUME NEW file \in Files
  PROVE  LET gaps == GapsOf[file]
             segs == LayoutOf[file].segs
         IN /\ gaps \in Seq([start : Nat, end : Nat, fill : BOOLEAN, readable : BOOLEAN])
            /\ Len(gaps) <= GapsCap
            /\ \A n \in DOMAIN gaps :
                 /\ gaps[n].start < gaps[n].end /\ gaps[n].end <= Size
                 /\ \A i \in DOMAIN segs : segs[i].end <= gaps[n].start \/ gaps[n].end <= segs[i].start
            /\ \A n, m \in DOMAIN gaps :
                 \/ gaps[n] = gaps[m]
                 \/ gaps[n].end <= gaps[m].start
                 \/ gaps[m].end <= gaps[n].start
<1> DEFINE layout == LayoutOf[file]
           segs == layout.segs
           before == {i \in DOMAIN segs : IsGap(Gap(layout, i))}
           all == GapsIn(layout)
           gaps == GapsOf[file]
           G == [start : Nat, end : Nat, fill : BOOLEAN, readable : BOOLEAN]
<1>1. segs \in Seq([start : Nat, fileEnd : Nat, end : Nat, x : BOOLEAN, r : BOOLEAN])
  BY LayoutAssumption
<1>2. DOMAIN segs = 1 .. Len(segs) /\ Len(segs) \in Nat
  BY <1>1
<1>3. \A i \in DOMAIN segs : segs[i].start \in Nat /\ segs[i].end \in Nat /\ segs[i].start < segs[i].end
  <2>1. \A i \in DOMAIN segs : segs[i].start < segs[i].end
    BY LayoutAssumption
  <2>2. \A i \in DOMAIN segs : segs[i] \in [start : Nat, fileEnd : Nat, end : Nat, x : BOOLEAN, r : BOOLEAN]
    <3> HIDE DEF segs
    <3>1. QED
      BY <1>1, LenProperties, ElementOfSeq
  <2>3. QED
    BY <2>1, <2>2
<1>4. before \in SUBSET (1 .. Len(segs)) /\ IsFiniteSet(before) /\ Cardinality(before) \in Nat
  <2>1. before \in SUBSET (1 .. Len(segs)) /\ IsFiniteSet(1 .. Len(segs))
    BY <1>2, FS_Interval
  <2>2. QED
    BY <2>1, FS_Subset, FS_CardinalityType
<1>5. all = [n \in 1 .. Cardinality(before) |->
               Gap(layout, CHOOSE i \in before : Cardinality({j \in before : j <= i}) = n)]
  BY DEF GapsIn
<1>6. \A n \in 1 .. Cardinality(before) : \E i \in before : all[n] = Gap(layout, i)
  <2> SUFFICES ASSUME NEW n \in 1 .. Cardinality(before)
               PROVE  \E i \in before : all[n] = Gap(layout, i)
    OBVIOUS
  <2> HIDE DEF before
  <2>1. \E i \in before : Cardinality({j \in before : j <= i}) = n
    BY <1>2, <1>4, NthExists
  <2> DEFINE c == CHOOSE i \in before : Cardinality({j \in before : j <= i}) = n
  <2>2. c \in before
    BY <2>1
  <2>3. all[n] = Gap(layout, c)
    BY <1>5
  <2>4. QED
    BY <2>2, <2>3
<1>7. \A i \in before : Gap(layout, i) \in G
  BY GapOfSegment
<1>8. all \in Seq(G) /\ Len(all) = Cardinality(before)
  <2> HIDE DEF G, before, all
  <2>1. \A n \in 1 .. Cardinality(before) : all[n] \in G
    BY <1>6, <1>7
  <2> DEFINE N == Cardinality(before)
  <2>2. N \in Nat /\ all \in [1 .. N -> G]
    BY <1>4, <1>5, <2>1
  <2> HIDE DEF N
  <2>3. all \in Seq(G) /\ Len(all) = N
    BY <2>2
  <2>4. QED
    BY <2>3 DEF N
<1>9. gaps = SubSeq(all, 1, Smallest(Len(all), GapsCap))
  BY DEF GapsOf
<1> HIDE DEF all, gaps, before
<1>10. Smallest(Len(all), GapsCap) \in 0 .. Len(all) /\ Smallest(Len(all), GapsCap) <= GapsCap
  BY <1>4, <1>8, ExitAssumption DEF Smallest
<1>11. /\ gaps \in Seq(G) /\ Len(gaps) = Smallest(Len(all), GapsCap)
       /\ \A n \in 1 .. Len(gaps) : gaps[n] = all[n]
  <2> HIDE DEF G
  <2>1. QED
    BY <1>4, <1>8, <1>9, <1>10
<1>12. \A n \in DOMAIN gaps : \E i \in before : gaps[n] = Gap(layout, i)
  BY <1>4, <1>6, <1>8, <1>10, <1>11
<1>13. \A i \in before :
         LET g == Gap(layout, i)
         IN /\ g \in G /\ g.start < g.end /\ g.end <= Size
            /\ \A j \in DOMAIN segs : segs[j].end <= g.start \/ g.end <= segs[j].start
  <2> SUFFICES ASSUME NEW i \in before
               PROVE  LET g == Gap(layout, i)
                      IN /\ g \in G /\ g.start < g.end /\ g.end <= Size
                         /\ \A j \in DOMAIN segs : segs[j].end <= g.start \/ g.end <= segs[j].start
    OBVIOUS
  <2>1. i \in DOMAIN segs /\ IsGap(Gap(layout, i))
    BY DEF before
  <2>2. \A j \in DOMAIN segs : j = i \/ i < j \/ j < i
    BY <1>2, <2>1
  <2>3. QED
    BY <2>1, <2>2, GapOfSegment
<1>14. \A i, k \in before :
         LET g == Gap(layout, i)
             h == Gap(layout, k)
         IN g = h \/ g.end <= h.start \/ h.end <= g.start
  <2>1. ASSUME NEW i \in before, NEW k \in before, i < k
        PROVE  Gap(layout, i).end <= Gap(layout, k).start
    <3>1. i \in DOMAIN segs /\ k \in DOMAIN segs
      BY DEF before
    <3>2. Gap(layout, i).end <= segs[k].start /\ segs[k].end <= Gap(layout, k).start
      BY <2>1, <3>1, GapOfSegment DEF before
    <3>3. Gap(layout, i).end \in Nat /\ Gap(layout, k).start \in Nat
      BY <1>13
    <3>4. QED
      BY <1>3, <3>1, <3>2, <3>3
  <2>2. \A i, k \in before : i = k \/ i < k \/ k < i
    BY <1>4
  <2>3. QED
    BY <2>1, <2>2
<1>15. QED
  BY <1>10, <1>11, <1>12, <1>13, <1>14 DEF gaps

(* A place for an exit lies in the gap and in reach.                       *)
LEMMA PlacesAreInGap ==
  ASSUME NEW g \in [start : Nat, end : Nat, fill : BOOLEAN, readable : BOOLEAN],
         NEW pc \in Nat, pc + RangeHigh <= MaxAddr, NEW a \in Places(g, pc)
  PROVE  /\ a \in Nat /\ g.start <= a /\ a + 2 <= g.end
         /\ pc - RangeLow <= a /\ a <= pc + RangeHigh
<1>1. RangeLow \in Nat /\ RangeHigh \in Nat /\ MaxAddr \in Nat /\ g.start \in Nat /\ g.end \in Nat
  BY ExitAssumption
<1> DEFINE low == IF pc >= RangeLow THEN Largest(g.start, pc - RangeLow) ELSE g.start
           high == Smallest(g.end - 2, pc + RangeHigh)
<1>2. low \in Nat /\ g.start <= low /\ pc - RangeLow <= low
  BY <1>1 DEF Largest
<1>3. high \in Int /\ high <= g.end - 2 /\ high <= pc + RangeHigh
  BY <1>1 DEF Smallest
<1> HIDE DEF low, high
<1>4. RangeHigh <= MaxAddr - pc
  BY <1>1
<1>5. a \in AlignEnd(low, 2) .. AlignStart(high, 2)
  BY <1>4 DEF Places, ExitLen, low, high
<1>6. AlignEnd(low, 2) \in Nat /\ low <= AlignEnd(low, 2)
  BY <1>2, Alignment
<1>7. AlignStart(high, 2) \in Int /\ AlignStart(high, 2) <= high
  BY <1>3 DEF AlignStart
<1>8. a \in Int /\ AlignEnd(low, 2) <= a /\ a <= AlignStart(high, 2)
  BY <1>5, <1>6, <1>7
<1>9. QED
  BY <1>1, <1>2, <1>3, <1>6, <1>7, <1>8

SomeGap == [start : Nat, end : Nat, fill : BOOLEAN, readable : BOOLEAN]

Doings == [pc : Pcs, h : Hooks, block : Blocks, gap : 1 .. GapsCap + 1, place : Addrs]

(* Whoever works has a hook in hand and is in a block.                     *)
LEMMA WorkersAreDoing ==
  ASSUME TypeOK, NEW t \in Threads
  PROVE  /\ Works(t) => th[t] \in Doings
         /\ ~ Works(t) => th[t] = Idle
BY DEF TypeOK, Works, At, Doings, Pcs, ProtectedPcs, Idle

(* The gaps of the file that is loaded.                                    *)
LEMMA GapsHere ==
  ASSUME TypeOK, elf # None
  PROVE  /\ elf \in Files /\ Gaps \in Seq(SomeGap) /\ Len(Gaps) <= GapsCap
         /\ DOMAIN Gaps = 1 .. Len(Gaps) /\ Len(Gaps) \in Nat
         /\ \A n \in DOMAIN Gaps :
              /\ Gaps[n] \in SomeGap
              /\ Gaps[n].start < Gaps[n].end /\ Gaps[n].end <= Size
              /\ \A i \in DOMAIN LayoutOf[elf].segs :
                   \/ LayoutOf[elf].segs[i].end <= Gaps[n].start
                   \/ Gaps[n].end <= LayoutOf[elf].segs[i].start
         /\ \A n, m \in DOMAIN Gaps :
              \/ Gaps[n] = Gaps[m]
              \/ Gaps[n].end <= Gaps[m].start
              \/ Gaps[m].end <= Gaps[n].start
<1>1. elf \in Files /\ Gaps = GapsOf[elf]
  BY DEF TypeOK, Gaps
<1>2. Gaps \in Seq(SomeGap)
  BY <1>1, GapsAreApart DEF SomeGap
<1>3. DOMAIN Gaps = 1 .. Len(Gaps) /\ Len(Gaps) \in Nat /\ \A n \in DOMAIN Gaps : Gaps[n] \in SomeGap
  BY <1>2, LenProperties, ElementOfSeq
<1>4. QED
  BY <1>1, <1>2, <1>3, GapsAreApart

(* Where a thread goes when it goes on in its block.                       *)
LEMMA GotoEffect ==
  ASSUME TypeOK, NEW t \in Threads, Works(t), NEW pc \in Pcs, Goto(t, pc)
  PROVE  /\ th'[t] = [th[t] EXCEPT !.pc = pc] /\ th'[t] \in Doings
         /\ th'[t].pc = pc /\ th'[t].h = th[t].h /\ th'[t].block = th[t].block
         /\ th'[t].gap = th[t].gap /\ th'[t].place = th[t].place
         /\ \A s \in Threads : s # t => th'[s] = th[s]
         /\ DOMAIN th' = Threads
<1>1. th[t] \in Doings /\ th \in [Threads -> {Idle} \cup Doings]
  BY WorkersAreDoing DEF TypeOK, Doings
<1>2. th' = [th EXCEPT ![t] = [th[t] EXCEPT !.pc = pc]]
  BY DEF Goto
<1>3. [th[t] EXCEPT !.pc = pc] \in Doings
  BY <1>1 DEF Doings
<1>4. QED
  BY <1>1, <1>2, <1>3 DEF Doings

(* What a thread is doing when it starts.                                  *)
LEMMA DoingType ==
  ASSUME NEW pc \in Pcs, NEW h \in Hooks, NEW block \in Blocks
  PROVE  Doing(pc, h, block) \in Doings
<1>1. GapsCap \in Nat \ {0} /\ Size \in Nat \ {0}
  BY ExitAssumption
<1>2. 1 \in 1 .. GapsCap + 1 /\ 0 \in Addrs
  BY <1>1 DEF Addrs
<1>3. QED
  BY <1>2 DEF Doing, Doings

----------------------------------------------------------------------------
(* What a step of a thread may do to its hook, and must not do to others.  *)
StepsOn(t, h) ==
  /\ elf # None /\ elf' = elf
  /\ th' \in [Threads -> {Idle} \cup Doings]
  /\ \A s \in Threads : s # t => th'[s] = th[s]
  /\ IF Works(t) THEN th[t].h = h ELSE ~ Busy(h)
  /\ exit' \in [Hooks -> Addrs \cup {Out, None}] /\ hooked' \subseteq Hooks
  /\ \A k \in Hooks : k # h => exit'[k] = exit[k] /\ (k \in hooked' <=> k \in hooked)
  /\ h \in hooked' => exit'[h] # None /\ ~ Works(t)'
  /\ Works(t)' => th'[t].h = h /\ InPhase(t)'
  /\ lock' = lock \/ (lock = None /\ lock' = t) \/ (lock = t /\ lock' = None)

(* What is known of a thread that works.                                   *)
LEMMA WorkersAreInPhase ==
  ASSUME IInv, NEW t \in Threads, Works(t)
  PROVE  /\ th[t] \in Doings /\ th[t].h \in Hooks /\ th[t].block \in Blocks /\ th[t].pc \in Pcs
         /\ elf # None /\ InPhase(t) /\ th[t].h \notin hooked
         /\ th \in [Threads -> {Idle} \cup Doings]
         /\ exit \in [Hooks -> Addrs \cup {Out, None}] /\ hooked \subseteq Hooks
<1>1. th[t] \in Doings
  BY WorkersAreDoing DEF IInv
<1>2. QED
  BY <1>1 DEF IInv, TypeOK, BlockPhases, Exclusion, FilePhases, Doings

(* Steps that only go on in the block.                                     *)
LEMMA GoingOnSteps ==
  ASSUME IInv, NEW t \in Threads, Works(t), NEW pc \in Pcs, Goto(t, pc),
         UNCHANGED <<elf, exit, hooked>>, lock' = lock \/ (lock = None /\ lock' = t),
         pc \in {"lock", "unlock"} => th[t].block \in {"alloc", "free"},
         pc \in {"fill", "place", "write"} => th[t].block = "alloc",
         pc = "clear" => th[t].block = "free",
         pc \in {"jump", "rewrite", "patch"} => th[t].block = "rewrite",
         pc \in {"lock", "protect", "clear"} =>
           th[t].pc \in {"lock", "protect", "clear"} \/ th[t].block = "rewrite",
         th[t].pc = "crash" => pc = "crash",
         pc \in LockedPcs => lock' = t \/ th[t].block = "rewrite"
  PROVE  StepsOn(t, th[t].h)
<1>1. /\ th'[t] \in Doings
      /\ th'[t].pc = pc /\ th'[t].h = th[t].h /\ th'[t].block = th[t].block
      /\ \A s \in Threads : s # t => th'[s] = th[s]
      /\ DOMAIN th' = Threads
  BY GotoEffect DEF IInv
<1>2. /\ th[t].h \in Hooks /\ elf # None /\ InPhase(t) /\ th[t].h \notin hooked
      /\ th \in [Threads -> {Idle} \cup Doings]
      /\ exit \in [Hooks -> Addrs \cup {Out, None}] /\ hooked \subseteq Hooks
  BY WorkersAreInPhase
<1>3. th' \in [Threads -> {Idle} \cup Doings]
  BY <1>1, <1>2 DEF Goto
<1>4. InPhase(t)'
  BY <1>1, <1>2 DEF InPhase
<1>5. QED
  BY <1>1, <1>2, <1>3, <1>4 DEF StepsOn

(* Steps to another block, or out of all of them.                          *)
LEMMA TurningSteps ==
  ASSUME IInv, NEW t \in Threads, Works(t), NEW d \in {Idle} \cup Doings,
         th' = [th EXCEPT ![t] = d], elf' = elf,
         exit' \in [Hooks -> Addrs \cup {Out, None}], hooked' \subseteq Hooks,
         \A k \in Hooks : k # th[t].h => exit'[k] = exit[k] /\ (k \in hooked' <=> k \in hooked),
         th[t].h \in hooked' => exit'[th[t].h] # None /\ d = Idle,
         d \in Doings => d.h = th[t].h /\ InPhase(t)',
         lock' = lock \/ (lock = t /\ lock' = None)
  PROVE  StepsOn(t, th[t].h)
<1>1. /\ elf # None /\ th \in [Threads -> {Idle} \cup Doings]
  BY WorkersAreInPhase
<1>2. th' \in [Threads -> {Idle} \cup Doings] /\ th'[t] = d /\ \A s \in Threads : s # t => th'[s] = th[s]
  BY <1>1
<1>3. Works(t)' => d \in Doings
  BY <1>2 DEF Works, At, Idle
<1>4. d = Idle => ~ Works(t)'
  BY <1>2 DEF Works, At, Idle
<1>5. QED
  BY <1>1, <1>2, <1>3, <1>4 DEF StepsOn

(* A thread that has no more use for its exit.                             *)
LEMMA UndoSteps ==
  ASSUME IInv, NEW t \in Threads, Works(t), InPhase(t), th[t].block = "rewrite", th[t].pc # "crash",
         Undo(t), UNCHANGED <<elf, hooked, lock>>
  PROVE  StepsOn(t, th[t].h)
<1> DEFINE h == th[t].h
<1>1. /\ h \in Hooks /\ h \notin hooked /\ th \in [Threads -> {Idle} \cup Doings]
      /\ exit \in [Hooks -> Addrs \cup {Out, None}] /\ hooked \subseteq Hooks
      /\ exit[h] # None
  BY WorkersAreInPhase DEF InPhase
<1>2. CASE exit[h] = Out
  <2>1. exit' = [exit EXCEPT ![h] = None] /\ th' = [th EXCEPT ![t] = Idle]
    BY <1>2 DEF Undo
  <2>2. Idle \notin Doings
    BY DEF Idle, Doings, Pcs, ProtectedPcs
  <2>3. QED
    BY <1>1, <2>1, <2>2, TurningSteps
<1>3. CASE exit[h] # Out
  <2> DEFINE d == Doing("lock", h, "free")
  <2>1. exit' = exit /\ th' = [th EXCEPT ![t] = d] /\ exit[h] \in Addrs
    BY <1>1, <1>3 DEF Undo
  <2>2. d \in Doings /\ d.pc = "lock" /\ d.h = h /\ d.block = "free"
    BY <1>1, DoingType DEF Pcs, Blocks, Doing
  <2> HIDE DEF d
  <2>3. th'[t] = d
    BY <1>1, <2>1
  <2>4. InPhase(t)'
    BY <1>1, <2>1, <2>2, <2>3 DEF InPhase, LockedPcs
  <2>5. QED
    BY <1>1, <2>1, <2>2, <2>4, TurningSteps
<1>4. QED
  BY <1>2, <1>3

(* On to the next gap.                                                     *)
LEMMA NextGapSteps ==
  ASSUME IInv, NEW t \in Threads, th[t].pc \in {"place", "write"}, NextGap(t),
         UNCHANGED <<elf, exit, hooked, lock>>
  PROVE  StepsOn(t, th[t].h) /\ th'[t].pc = "fill"
<1> DEFINE d == [th[t] EXCEPT !.pc = "fill", !.gap = @ + 1]
<1>1. Works(t)
  BY DEF Works, At
<1>2. /\ th[t] \in Doings /\ InPhase(t) /\ th[t].h \notin hooked /\ elf # None
      /\ exit \in [Hooks -> Addrs \cup {Out, None}] /\ hooked \subseteq Hooks
      /\ th \in [Threads -> {Idle} \cup Doings]
  BY <1>1, WorkersAreInPhase
<1>3. th[t].gap \in 1 .. GapsCap /\ th[t].gap + 1 \in 1 .. GapsCap + 1
  <2>1. th[t].gap \in DOMAIN Gaps
    BY DEF IInv, SearchPhases
  <2>2. DOMAIN Gaps = 1 .. Len(Gaps) /\ Len(Gaps) <= GapsCap /\ Len(Gaps) \in Nat
    BY <1>2, GapsHere DEF IInv
  <2>3. GapsCap \in Nat
    BY ExitAssumption
  <2>4. QED
    BY <2>1, <2>2, <2>3
<1>4. d \in Doings /\ d.pc = "fill" /\ d.h = th[t].h /\ d.block = th[t].block
  BY <1>2, <1>3 DEF Doings, Pcs, ProtectedPcs
<1>5. th' = [th EXCEPT ![t] = d]
  BY DEF NextGap
<1> HIDE DEF d
<1>6. th'[t] = d
  BY <1>2, <1>5
<1>7. th[t].block = "alloc" /\ lock = t
  BY <1>2 DEF InPhase, LockedPcs
<1>8. InPhase(t)'
  BY <1>4, <1>6, <1>7 DEF InPhase
<1>9. Idle \notin Doings
  BY DEF Idle, Doings, Pcs, ProtectedPcs
<1>10. QED
  BY <1>1, <1>2, <1>4, <1>5, <1>6, <1>8, <1>9, TurningSteps

(* The search of a gap ends at a free place, at a page that cannot be      *)
(* read, or behind the last place.                                         *)
LEMMA PlaceEffect ==
  ASSUME FarFromTop, IInv, NEW t \in Threads, Place(t)
  PROVE  /\ StepsOn(t, th[t].h) /\ th[t].pc = "place"
         /\ UNCHANGED <<elf, mem, prot, exit, hooked, lock, tids>>
         /\ \/ th'[t].pc \in {"fill", "unprotect"}
            \/ th'[t].pc = "crash" /\ ~ \E i \in SlotsOf(t) : tids[i].block = th[t].block
            \/ /\ th'[t].pc = "write" /\ th'[t].gap = th[t].gap /\ th'[t].h = th[t].h
               /\ th'[t].place \in Places(Gaps[th[t].gap], PcOf[th[t].h])
               /\ IsZero(th'[t].place)
<1>1. /\ Works(t) /\ th[t].pc = "place" /\ UNCHANGED <<elf, mem, prot, exit, hooked, lock, tids>>
  BY DEF Place, Works, At
<1>2. /\ th[t] \in Doings /\ th[t].h \in Hooks /\ InPhase(t) /\ th[t].h \notin hooked /\ elf # None
      /\ exit \in [Hooks -> Addrs \cup {Out, None}] /\ hooked \subseteq Hooks
      /\ th \in [Threads -> {Idle} \cup Doings]
  BY <1>1, WorkersAreInPhase
<1>3. th[t].block = "alloc" /\ lock = t
  BY <1>1, <1>2 DEF InPhase, LockedPcs
<1> DEFINE h == th[t].h
           g == Gaps[th[t].gap]
           ends == {a \in Places(g, PcOf[h]) : ~ Readable(a) \/ IsZero(a)}
           place == CHOOSE a \in ends : \A b \in ends : a <= b
<1>4. g \in SomeGap /\ g.end <= Size /\ PcOf[h] \in Nat /\ PcOf[h] + RangeHigh <= MaxAddr
  <2>1. th[t].gap \in DOMAIN Gaps
    BY <1>1 DEF IInv, SearchPhases
  <2>2. PcOf[h] \in 0 .. Size - 1
    BY <1>2, ExitAssumption
  <2>3. QED
    BY <1>2, <2>1, <2>2, GapsHere, ExitAssumption DEF FarFromTop, IInv
<1>5. \A a \in Places(g, PcOf[h]) : a \in Nat /\ a \in Addrs
  <2> SUFFICES ASSUME NEW a \in Places(g, PcOf[h]) PROVE a \in Nat /\ a \in Addrs
    OBVIOUS
  <2> HIDE DEF g, h
  <2>1. a \in Nat /\ a + 2 <= g.end
    BY <1>4, PlacesAreInGap DEF SomeGap
  <2>2. QED
    BY <1>4, <2>1, ExitAssumption DEF Addrs, SomeGap
<1>6. ends # {} => place \in ends
  <2> HIDE DEF g, h
  <2>1. ends \subseteq Nat
    BY <1>5
  <2> HIDE DEF ends
  <2>2. QED
    BY <2>1, NatMinimum
<1>7. CASE ends = {}
  <2>1. NextGap(t)
    BY <1>7 DEF Place
  <2>2. QED
    BY <1>1, <2>1, NextGapSteps
<1>8. CASE ends # {} /\ ~ Readable(place)
  <2>1. Signal(t)
    BY <1>8 DEF Place
  <2>2. PICK pc \in {"unprotect", "crash"} :
          /\ Goto(t, pc)
          /\ pc = "crash" => ~ \E i \in SlotsOf(t) : tids[i].block = th[t].block
    BY <2>1 DEF Signal
  <2>3. pc \in Pcs
    BY DEF Pcs, ProtectedPcs
  <2>4. StepsOn(t, th[t].h)
    BY <1>1, <1>3, <2>2, <2>3, GoingOnSteps
  <2>5. th'[t].pc = pc
    BY <1>1, <2>2, <2>3, GotoEffect DEF IInv
  <2>6. QED
    BY <1>1, <2>2, <2>4, <2>5
<1>9. CASE ends # {} /\ Readable(place)
  <2> DEFINE d == [th[t] EXCEPT !.pc = "write", !.place = place]
  <2>1. th' = [th EXCEPT ![t] = d]
    BY <1>9 DEF Place
  <2>2. place \in Places(g, PcOf[h]) /\ IsZero(place) /\ place \in Addrs
    BY <1>5, <1>6, <1>9
  <2> HIDE DEF place, g
  <2>3. /\ d \in Doings /\ d.pc = "write" /\ d.h = h /\ d.block = "alloc" /\ d.gap = th[t].gap
        /\ d.place = place
    BY <1>2, <1>3, <2>2 DEF Doings, Pcs, ProtectedPcs
  <2> HIDE DEF d
  <2>4. th'[t] = d
    BY <1>2, <2>1
  <2>5. InPhase(t)'
    BY <1>1, <1>3, <2>3, <2>4 DEF InPhase
  <2>6. Idle \notin Doings
    BY DEF Idle, Doings, Pcs, ProtectedPcs
  <2>7. StepsOn(t, th[t].h)
    BY <1>1, <1>2, <2>1, <2>3, <2>5, <2>6, TurningSteps
  <2>8. QED
    BY <1>1, <2>2, <2>3, <2>4, <2>7 DEF g
<1>10. QED
  BY <1>7, <1>8, <1>9

(* An exit is written to the place that was found, or nothing is.          *)
LEMMA WriteExitEffect ==
  ASSUME FarFromTop, IInv, NEW t \in Threads, WriteExit(t)
  PROVE  LET h     == th[t].h
             place == th[t].place
             g     == Gaps[th[t].gap]
         IN /\ StepsOn(t, h) /\ th[t].pc = "write" /\ h \in Hooks /\ lock = t
            /\ UNCHANGED <<elf, hooked, lock, tids>>
            /\ th[t].gap \in DOMAIN Gaps /\ g \in SomeGap
            /\ place \in Addrs /\ g.start <= place /\ place + 2 <= g.end
            /\ PcOf[h] - RangeLow <= place /\ place <= PcOf[h] + RangeHigh
            /\ IsZero(place) /\ (g.fill => mem[g.start] = "flag")
            /\ \/ th'[t].pc = "fill" /\ UNCHANGED <<mem, prot, exit>>
               \/ /\ th'[t].pc = "unprotect" /\ exit' = [exit EXCEPT ![h] = place]
                  /\ mem' = Write(mem, place, 2, h)
                  /\ prot' = Unlock(PagesOf(place, ExitLen))
<1> DEFINE h == th[t].h
           place == th[t].place
           g == Gaps[th[t].gap]
<1>1. Works(t) /\ th[t].pc = "write" /\ UNCHANGED <<elf, hooked, lock, tids>>
  BY DEF WriteExit, Works, At
<1>2. /\ th[t] \in Doings /\ h \in Hooks /\ InPhase(t) /\ h \notin hooked /\ elf # None
      /\ exit \in [Hooks -> Addrs \cup {Out, None}] /\ hooked \subseteq Hooks
      /\ th \in [Threads -> {Idle} \cup Doings]
  BY <1>1, WorkersAreInPhase
<1>3. th[t].block = "alloc" /\ lock = t /\ place \in Addrs
  BY <1>1, <1>2 DEF InPhase, LockedPcs, Doings
<1>4. /\ th[t].gap \in DOMAIN Gaps /\ (g.fill => mem[g.start] = "flag")
      /\ place \in Places(g, PcOf[h]) /\ IsZero(place)
  BY <1>1 DEF IInv, SearchPhases
<1>5. g \in SomeGap /\ PcOf[h] \in Nat /\ PcOf[h] + RangeHigh <= MaxAddr
  BY <1>2, <1>4, GapsHere, ExitAssumption DEF FarFromTop, IInv
<1>6. /\ g.start <= place /\ place + 2 <= g.end
      /\ PcOf[h] - RangeLow <= place /\ place <= PcOf[h] + RangeHigh
  <2> HIDE DEF g, h, place
  <2>1. QED
    BY <1>4, <1>5, PlacesAreInGap DEF SomeGap
<1>7. CASE NextGap(t) /\ UNCHANGED <<mem, prot, exit>>
  BY <1>1, <1>2, <1>3, <1>4, <1>5, <1>6, <1>7, NextGapSteps
<1>8. CASE /\ Goto(t, "unprotect") /\ exit' = [exit EXCEPT ![h] = place]
           /\ mem' = Write(mem, place, ExitLen, h) /\ prot' = Unlock(PagesOf(place, ExitLen))
  <2> DEFINE d == [th[t] EXCEPT !.pc = "unprotect"]
  <2>1. th' = [th EXCEPT ![t] = d]
    BY <1>8 DEF Goto
  <2>2. d \in Doings /\ d.pc = "unprotect" /\ d.h = h /\ d.block = "alloc"
    BY <1>2, <1>3 DEF Doings, Pcs, ProtectedPcs
  <2> HIDE DEF d
  <2>3. th'[t] = d
    BY <1>2, <2>1
  <2>4. InPhase(t)'
    BY <1>1, <1>3, <2>2, <2>3 DEF InPhase
  <2>5. Idle \notin Doings
    BY DEF Idle, Doings, Pcs, ProtectedPcs
  <2>6. exit' \in [Hooks -> Addrs \cup {Out, None}] /\ \A k \in Hooks : k # h => exit'[k] = exit[k]
    BY <1>2, <1>3, <1>8
  <2>7. StepsOn(t, h)
    BY <1>1, <1>2, <2>1, <2>2, <2>4, <2>5, <2>6, TurningSteps
  <2>8. QED
    BY <1>1, <1>2, <1>3, <1>4, <1>5, <1>6, <1>8, <2>2, <2>3, <2>7 DEF ExitLen
<1>9. QED
  BY <1>7, <1>8 DEF WriteExit

(* The memory of an exit is given up, or left as it is.                    *)
LEMMA ClearEffect ==
  ASSUME IInv, NEW t \in Threads, Clear(t)
  PROVE  LET h == th[t].h
             a == exit[h]
         IN /\ StepsOn(t, h) /\ th[t].pc = "clear" /\ h \in Hooks /\ lock = t /\ a \in Addrs
            /\ UNCHANGED <<elf, hooked, lock, tids>>
            /\ exit' = [exit EXCEPT ![h] = None]
            /\ \/ UNCHANGED <<mem, prot>>
               \/ /\ \A u \in Units(a, 2) : mem[u] = h
                  /\ mem' = Write(mem, a, 2, "zero") /\ prot' = Unlock({Page(a)})
            /\ \/ th'[t].pc = "unprotect"
               \/ th'[t].pc = "crash" /\ ~ \E i \in SlotsOf(t) : tids[i].block = th[t].block
<1> DEFINE h == th[t].h
<1>1. /\ Works(t) /\ th[t].pc = "clear" /\ UNCHANGED <<elf, hooked, lock, tids>>
      /\ exit' = [exit EXCEPT ![h] = None]
  BY DEF Clear, Works, At
<1>2. /\ th[t] \in Doings /\ h \in Hooks /\ InPhase(t) /\ h \notin hooked /\ elf # None
      /\ exit \in [Hooks -> Addrs \cup {Out, None}] /\ hooked \subseteq Hooks
      /\ th \in [Threads -> {Idle} \cup Doings]
  BY <1>1, WorkersAreInPhase
<1>3. th[t].block = "free" /\ lock = t /\ exit[h] \in Addrs
  BY <1>1, <1>2 DEF InPhase, LockedPcs
<1>4. PICK pc \in {"unprotect", "crash"} :
        /\ Goto(t, pc)
        /\ pc = "crash" => ~ \E i \in SlotsOf(t) : tids[i].block = th[t].block
  BY DEF Clear, Signal
<1>5. \/ UNCHANGED <<mem, prot>>
      \/ /\ \A u \in Units(exit[h], 2) : mem[u] = h
         /\ mem' = Write(mem, exit[h], 2, "zero") /\ prot' = Unlock({Page(exit[h])})
  BY DEF Clear, ExitLen
<1> DEFINE d == [th[t] EXCEPT !.pc = pc]
<1>6. th' = [th EXCEPT ![t] = d]
  BY <1>4 DEF Goto
<1>7. d \in Doings /\ d.pc = pc /\ d.h = h /\ d.block = "free"
  BY <1>2, <1>3 DEF Doings, Pcs, ProtectedPcs
<1> HIDE DEF d
<1>8. th'[t] = d
  BY <1>2, <1>6
<1>9. InPhase(t)'
  BY <1>1, <1>3, <1>7, <1>8 DEF InPhase
<1>10. Idle \notin Doings
  BY DEF Idle, Doings, Pcs, ProtectedPcs
<1>11. exit' \in [Hooks -> Addrs \cup {Out, None}] /\ \A k \in Hooks : k # h => exit'[k] = exit[k]
  BY <1>1, <1>2
<1>12. StepsOn(t, h)
  BY <1>1, <1>2, <1>6, <1>7, <1>9, <1>10, <1>11, TurningSteps
<1>13. QED
  BY <1>1, <1>2, <1>3, <1>4, <1>5, <1>7, <1>8, <1>12

(* Every step of a thread is of that kind.                                 *)
LEMMA ThreadSteps ==
  ASSUME FarFromTop, IInv, NEW t \in Threads,
         (\E h \in Hooks : HookCall(t, h) \/ UnhookCall(t, h)) \/ Lock(t) \/ GoesOn(t)
  PROVE  \E h \in Hooks : StepsOn(t, h)
<1>0. /\ th \in [Threads -> {Idle} \cup Doings] /\ exit \in [Hooks -> Addrs \cup {Out, None}]
      /\ hooked \subseteq Hooks /\ Idle \notin Doings
  BY DEF IInv, TypeOK, Doings, Idle, Pcs, ProtectedPcs
<1>1. ASSUME NEW h \in Hooks, HookCall(t, h) PROVE StepsOn(t, h)
  <2>1. /\ ~ Works(t) /\ ~ Busy(h) /\ elf # None /\ h \notin hooked
        /\ UNCHANGED <<elf, hooked, lock>>
    BY <1>1 DEF HookCall, Works
  <2>2. ASSUME NEW pc \in {"jump", "lock"}, NEW block \in {"rewrite", "alloc"},
               th' = [th EXCEPT ![t] = Doing(pc, h, block)],
               \/ pc = "jump" /\ block = "rewrite" /\ exit' = [exit EXCEPT ![h] = Out]
               \/ pc = "lock" /\ block = "alloc" /\ exit' = exit
        PROVE  StepsOn(t, h)
    <3> DEFINE d == Doing(pc, h, block)
    <3>1. d \in Doings /\ d.pc = pc /\ d.h = h /\ d.block = block
      BY DoingType DEF Pcs, Blocks, Doing
    <3> HIDE DEF d
    <3>2. /\ th' \in [Threads -> {Idle} \cup Doings] /\ th'[t] = d
          /\ \A s \in Threads : s # t => th'[s] = th[s]
      BY <1>0, <2>2, <3>1 DEF d
    <3>3. exit' \in [Hooks -> Addrs \cup {Out, None}] /\ \A k \in Hooks : k # h => exit'[k] = exit[k]
      BY <1>0, <2>2
    <3>4. pc = "jump" => exit'[h] # None
      BY <1>0, <2>2, ExitAssumption
    <3>5. InPhase(t)'
      BY <2>2, <3>1, <3>2, <3>4 DEF InPhase, LockedPcs
    <3>6. QED
      BY <1>0, <2>1, <3>1, <3>2, <3>3, <3>5 DEF StepsOn
  <2>3. QED
    BY <1>1, <2>2 DEF HookCall
<1>2. ASSUME NEW h \in Hooks, UnhookCall(t, h) PROVE StepsOn(t, h)
  <2>1. /\ ~ Works(t) /\ ~ Busy(h) /\ h \in hooked /\ hooked' = hooked \ {h}
        /\ UNCHANGED <<elf, lock>>
    BY <1>2 DEF UnhookCall, Works
  <2>2. elf # None /\ exit[h] # None
    BY <2>1 DEF IInv, FilePhases
  <2>3. CASE exit[h] = Out
    <3>1. exit' = [exit EXCEPT ![h] = None] /\ th' = th
      BY <1>2, <2>3 DEF UnhookCall
    <3>2. exit' \in [Hooks -> Addrs \cup {Out, None}] /\ \A k \in Hooks : k # h => exit'[k] = exit[k]
      BY <1>0, <3>1
    <3>3. ~ Works(t)'
      BY <2>1, <3>1 DEF Works, At
    <3>4. QED
      BY <1>0, <2>1, <2>2, <3>1, <3>2, <3>3 DEF StepsOn
  <2>4. CASE exit[h] # Out
    <3> DEFINE d == Doing("lock", h, "free")
    <3>1. d \in Doings /\ d.pc = "lock" /\ d.h = h /\ d.block = "free"
      BY DoingType DEF Pcs, Blocks, Doing
    <3>2. exit' = exit /\ th' = [th EXCEPT ![t] = d] /\ exit[h] \in Addrs
      BY <1>0, <1>2, <2>2, <2>4 DEF UnhookCall
    <3> HIDE DEF d
    <3>3. /\ th' \in [Threads -> {Idle} \cup Doings] /\ th'[t] = d
          /\ \A s \in Threads : s # t => th'[s] = th[s]
      BY <1>0, <3>1, <3>2
    <3>4. InPhase(t)'
      BY <3>1, <3>2, <3>3 DEF InPhase, LockedPcs
    <3>5. QED
      BY <1>0, <2>1, <2>2, <3>1, <3>2, <3>3, <3>4 DEF StepsOn
  <2>5. QED
    BY <2>3, <2>4
<1>3. ASSUME Lock(t) \/ GoesOn(t)
      PROVE  /\ Works(t) /\ InPhase(t) /\ th[t] \in Doings /\ th[t].h \in Hooks
             /\ th[t].block \in Blocks /\ th[t].h \notin hooked
  <2>1. Works(t)
    BY <1>3 DEF Lock, GoesOn, Jump, Protect, Fill, Place, WriteExit, NoMoreGaps, Clear, Rewrite,
                Unprotect, Patch, UnlockExit, At, Works
  <2>2. QED
    BY <2>1, WorkersAreInPhase
<1>4. CASE Lock(t)
  <2>1. /\ th[t].pc = "lock" /\ lock = None /\ lock' = t /\ Goto(t, "protect")
        /\ UNCHANGED <<elf, exit, hooked>>
    BY <1>4 DEF Lock, At
  <2>2. StepsOn(t, th[t].h)
    BY <1>3, <1>4, <2>1, GoingOnSteps DEF Pcs
  <2>3. QED
    BY <1>3, <1>4, <2>2
<1>5. CASE Jump(t)
  <2>1. th[t].pc = "jump" /\ th[t].block = "rewrite" /\ UNCHANGED <<elf, hooked, lock>>
    BY <1>3, <1>5 DEF Jump, At, GoesOn, InPhase
  <2>2. ASSUME Goto(t, "protect"), exit' = exit PROVE StepsOn(t, th[t].h)
    BY <1>3, <1>5, <2>1, <2>2, GoingOnSteps DEF Pcs, GoesOn
  <2>3. ASSUME Undo(t) PROVE StepsOn(t, th[t].h)
    BY <1>3, <1>5, <2>1, <2>3, UndoSteps DEF GoesOn
  <2>4. QED
    BY <1>3, <1>5, <2>2, <2>3 DEF Jump, GoesOn
<1>6. CASE Protect(t)
  <2> DEFINE pc == CASE th[t].block = "alloc" -> "fill" [] th[t].block = "free" -> "clear"
                     [] th[t].block = "rewrite" -> "rewrite"
  <2>1. th[t].pc = "protect" /\ UNCHANGED <<elf, exit, hooked, lock>> /\ Goto(t, pc)
    BY <1>6 DEF Protect, At
  <2>2. /\ pc \in {"fill", "clear", "rewrite"}
        /\ pc = "fill" => th[t].block = "alloc"
        /\ pc = "clear" => th[t].block = "free"
        /\ pc = "rewrite" => th[t].block = "rewrite"
    BY <1>3, <1>6 DEF Blocks, GoesOn
  <2> HIDE DEF pc
  <2>3. pc \in Pcs /\ (lock = t \/ th[t].block = "rewrite")
    BY <1>3, <1>6, <2>1, <2>2 DEF Pcs, ProtectedPcs, InPhase, LockedPcs, GoesOn
  <2>4. StepsOn(t, th[t].h)
    BY <1>3, <1>6, <2>1, <2>2, <2>3, GoingOnSteps DEF GoesOn
  <2>5. QED
    BY <1>3, <1>6, <2>4 DEF GoesOn
<1>7. CASE Fill(t)
  <2>1. th[t].pc = "fill" /\ th[t].block = "alloc" /\ lock = t /\ UNCHANGED <<elf, exit, hooked, lock>>
    BY <1>3, <1>7 DEF Fill, At, GoesOn, InPhase, LockedPcs
  <2>2. ASSUME Goto(t, "place") PROVE StepsOn(t, th[t].h)
    BY <1>3, <1>7, <2>1, <2>2, GoingOnSteps DEF Pcs, ProtectedPcs, GoesOn
  <2>3. ASSUME th' = [th EXCEPT ![t] = Idle] PROVE StepsOn(t, th[t].h)
    BY <1>0, <1>3, <1>7, <2>1, <2>3, TurningSteps DEF GoesOn
  <2>4. Goto(t, "place") \/ th' = [th EXCEPT ![t] = Idle]
    BY <1>7 DEF Fill
  <2>5. QED
    BY <1>3, <1>7, <2>2, <2>3, <2>4 DEF GoesOn
<1>8. CASE NoMoreGaps(t)
  <2>1. /\ th[t].pc = "fill" /\ lock = t
        /\ Goto(t, "unprotect") /\ UNCHANGED <<elf, exit, hooked, lock>>
    BY <1>3, <1>8 DEF NoMoreGaps, At, GoesOn, InPhase, LockedPcs
  <2>2. StepsOn(t, th[t].h)
    BY <1>3, <1>8, <2>1, GoingOnSteps DEF Pcs, ProtectedPcs, GoesOn
  <2>3. QED
    BY <1>3, <1>8, <2>2 DEF GoesOn
<1>9. CASE Rewrite(t)
  <2>1. /\ th[t].pc = "rewrite" /\ th[t].block = "rewrite" /\ UNCHANGED <<elf, exit, hooked, lock>>
        /\ \E pc \in {"unprotect", "crash"} : Goto(t, pc)
    BY <1>3, <1>9 DEF Rewrite, Signal, At, GoesOn, InPhase
  <2>2. StepsOn(t, th[t].h)
    BY <1>3, <1>9, <2>1, GoingOnSteps DEF Pcs, ProtectedPcs, GoesOn
  <2>3. QED
    BY <1>3, <1>9, <2>2 DEF GoesOn
<1>10. CASE Unprotect(t)
  <2>1. th[t].pc = "unprotect" /\ UNCHANGED <<elf, exit, hooked, lock>> /\ Unprotected(t)
    BY <1>10 DEF Unprotect, At
  <2>2. CASE th[t].block = "rewrite" /\ Goto(t, "patch")
    BY <1>3, <1>10, <2>1, <2>2, GoingOnSteps DEF Pcs, GoesOn
  <2>3. CASE th[t].block # "rewrite" /\ Goto(t, "unlock")
    BY <1>3, <1>10, <2>1, <2>3, GoingOnSteps DEF Pcs, GoesOn, Blocks, InPhase, LockedPcs
  <2>4. QED
    BY <1>3, <1>10, <2>1, <2>2, <2>3, GoingOnSteps DEF GoesOn, Unprotected
<1>11. CASE Patch(t)
  <2>1. /\ th[t].pc = "patch" /\ th[t].block = "rewrite" /\ exit[th[t].h] # None
        /\ UNCHANGED <<elf, lock>>
    BY <1>3, <1>11 DEF Patch, At, GoesOn, InPhase
  <2>2. ASSUME hooked' = hooked \cup {th[t].h}, th' = [th EXCEPT ![t] = Idle], exit' = exit
        PROVE  StepsOn(t, th[t].h)
    BY <1>0, <1>3, <1>11, <2>1, <2>2, TurningSteps DEF GoesOn
  <2>3. ASSUME Undo(t), hooked' = hooked PROVE StepsOn(t, th[t].h)
    BY <1>3, <1>11, <2>1, <2>3, UndoSteps DEF GoesOn
  <2>4. QED
    BY <1>3, <1>11, <2>2, <2>3 DEF Patch, GoesOn
<1>12. CASE UnlockExit(t)
  <2> DEFINE h == th[t].h
             d == Doing("jump", h, "rewrite")
  <2>1. /\ th[t].pc = "unlock" /\ lock = t /\ lock' = None /\ UNCHANGED <<elf, exit, hooked>>
    BY <1>3, <1>12 DEF UnlockExit, At, GoesOn, InPhase, LockedPcs
  <2>2. CASE exit[h] # None /\ th' = [th EXCEPT ![t] = d]
    <3>1. d \in Doings /\ d.pc = "jump" /\ d.h = h /\ d.block = "rewrite"
      BY <1>3, <1>12, DoingType DEF Pcs, Blocks, Doing, GoesOn
    <3>2. th'[t] = d
      BY <1>0, <2>2
    <3> HIDE DEF d
    <3>3. InPhase(t)'
      BY <2>1, <2>2, <3>1, <3>2 DEF InPhase, LockedPcs
    <3>4. QED
      BY <1>0, <1>3, <1>12, <2>1, <2>2, <3>1, <3>3, TurningSteps DEF GoesOn
  <2>3. CASE th' = [th EXCEPT ![t] = Idle]
    BY <1>0, <1>3, <1>12, <2>1, <2>3, TurningSteps DEF GoesOn
  <2>4. QED
    BY <1>3, <1>12, <2>2, <2>3 DEF UnlockExit, GoesOn
<1>13. CASE Place(t)
  BY <1>3, <1>13, PlaceEffect DEF GoesOn
<1>14. CASE WriteExit(t)
  BY <1>3, <1>14, WriteExitEffect DEF GoesOn
<1>15. CASE Clear(t)
  BY <1>3, <1>15, ClearEffect DEF GoesOn
<1>16. QED
  BY <1>1, <1>2, <1>4, <1>5, <1>6, <1>7, <1>8, <1>9, <1>10, <1>11, <1>12, <1>13, <1>14, <1>15
     DEF GoesOn

(* A gap is filled, or needs not be, or cannot be.                         *)
LEMMA FillEffect ==
  ASSUME IInv, NEW t \in Threads, Fill(t)
  PROVE  LET g == Gaps[th[t].gap]
         IN /\ th[t].pc = "fill" /\ lock = t /\ UNCHANGED <<elf, exit, hooked, lock, tids>>
            /\ th[t].gap \in DOMAIN Gaps
            /\ \/ /\ th'[t] = Idle /\ "fill" \in Faults /\ UNCHANGED <<mem, prot>>
               \/ /\ th'[t].pc = "place" /\ th'[t].gap = th[t].gap
                  /\ prot' = prot \/ prot' = Unlock(PagesOf(g.start, g.end - g.start))
                  /\ \/ mem' = mem /\ (g.fill => mem[g.start] = "flag")
                     \/ /\ g.fill /\ mem[g.start] # "flag"
                        /\ mem' = [Write(mem, g.start, g.end - g.start, "zero")
                                     EXCEPT ![g.start] = "flag"]
<1> DEFINE g == Gaps[th[t].gap]
<1>1. /\ Works(t) /\ th[t].pc = "fill" /\ th[t].gap <= Len(Gaps)
      /\ UNCHANGED <<elf, exit, hooked, lock, tids>>
  BY DEF Fill, Works, At
<1>2. /\ th[t] \in Doings /\ InPhase(t) /\ elf # None /\ th \in [Threads -> {Idle} \cup Doings]
  BY <1>1, WorkersAreInPhase
<1>3. lock = t
  BY <1>1, <1>2 DEF InPhase, LockedPcs
<1>4. th[t].gap \in DOMAIN Gaps
  <2>1. DOMAIN Gaps = 1 .. Len(Gaps) /\ Len(Gaps) \in Nat
    BY <1>2, GapsHere DEF IInv
  <2>2. th[t].gap \in 1 .. GapsCap + 1 /\ GapsCap \in Nat
    BY <1>2, ExitAssumption DEF Doings
  <2>3. QED
    BY <1>1, <2>1, <2>2
<1>5. g.fill \in BOOLEAN
  BY <1>2, <1>4, GapsHere DEF IInv, SomeGap
<1>6. ASSUME Goto(t, "place")
      PROVE  th'[t].pc = "place" /\ th'[t].gap = th[t].gap
  BY <1>1, <1>6, GotoEffect DEF IInv, Pcs, ProtectedPcs
<1>7. CASE ~ g.fill
  BY <1>1, <1>3, <1>4, <1>6, <1>7 DEF Fill
<1>8. CASE g.fill
  <2> DEFINE opens == g.readable => mem[g.start] # "flag"
  <2>1. PICK ok \in IF opens THEN Succeeds("fill") ELSE {TRUE} :
          IF ~ ok
          THEN th' = [th EXCEPT ![t] = Idle] /\ UNCHANGED <<mem, prot>>
          ELSE /\ prot' = IF opens THEN Unlock(PagesOf(g.start, g.end - g.start)) ELSE prot
               /\ mem' = IF mem[g.start] = "flag" THEN mem
                         ELSE [Write(mem, g.start, g.end - g.start, "zero")
                                 EXCEPT ![g.start] = "flag"]
               /\ Goto(t, "place")
    BY <1>8 DEF Fill
  <2>2. CASE ~ ok
    <3>1. "fill" \in Faults
      BY <2>1, <2>2 DEF Succeeds
    <3>2. th'[t] = Idle
      BY <1>2, <2>1, <2>2
    <3>3. QED
      BY <1>1, <1>3, <1>4, <2>1, <2>2, <3>1, <3>2
  <2>3. CASE ok
    BY <1>1, <1>3, <1>4, <1>6, <1>8, <2>1, <2>3
  <2>4. QED
    BY <2>2, <2>3
<1>9. QED
  BY <1>5, <1>7, <1>8

(* The other steps write nothing and give nobody an exit in the library.   *)
LEMMA QuietSteps ==
  ASSUME IInv, NEW t \in Threads,
         \/ \E h \in Hooks : HookCall(t, h) \/ UnhookCall(t, h)
         \/ Lock(t) \/ Jump(t) \/ Protect(t) \/ NoMoreGaps(t) \/ Rewrite(t)
         \/ Unprotect(t) \/ Patch(t) \/ UnlockExit(t)
  PROVE  /\ mem' = mem /\ th'[t].pc \notin {"place", "write"}
         /\ \A k \in Hooks : exit'[k] \in {exit[k], Out, None}
         /\ prot' = prot \/ \E pages : prot' = Unlock(pages)
<1>1. th \in [Threads -> {Idle} \cup Doings] /\ exit \in [Hooks -> Addrs \cup {Out, None}]
  BY DEF IInv, TypeOK, Doings
<1>2. ASSUME NEW pc \in Pcs \ {"place", "write"}, Goto(t, pc), Works(t)
      PROVE  th'[t].pc \notin {"place", "write"}
  BY <1>2, GotoEffect DEF IInv
<1>3. ASSUME NEW pc \in Pcs, NEW h, NEW block, pc \notin {"place", "write"},
             th' = [th EXCEPT ![t] = Doing(pc, h, block)]
      PROVE  th'[t].pc \notin {"place", "write"}
  BY <1>1, <1>3 DEF Doing
<1>4. ASSUME th' = [th EXCEPT ![t] = Idle] PROVE th'[t].pc \notin {"place", "write"}
  BY <1>1, <1>4 DEF Idle
<1>5. ASSUME Undo(t) PROVE /\ th'[t].pc \notin {"place", "write"}
                           /\ \A k \in Hooks : exit'[k] \in {exit[k], Out, None}
  BY <1>1, <1>3, <1>4, <1>5 DEF Undo, Pcs
<1>6. ASSUME NEW h \in Hooks, HookCall(t, h)
      PROVE  /\ mem' = mem /\ th'[t].pc \notin {"place", "write"} /\ prot' = prot
             /\ \A k \in Hooks : exit'[k] \in {exit[k], Out, None}
  <2>1. mem' = mem /\ prot' = prot
    BY <1>6 DEF HookCall
  <2>2. "jump" \in Pcs /\ "lock" \in Pcs
    BY DEF Pcs
  <2>3. CASE /\ exit' = [exit EXCEPT ![h] = Out]
             /\ th' = [th EXCEPT ![t] = Doing("jump", h, "rewrite")]
    <3>1. th'[t].pc \notin {"place", "write"}
      BY <1>3, <2>2, <2>3
    <3>2. \A k \in Hooks : exit'[k] \in {exit[k], Out, None}
      BY <1>1, <2>3
    <3>3. QED
      BY <2>1, <3>1, <3>2
  <2>4. CASE th' = [th EXCEPT ![t] = Doing("lock", h, "alloc")] /\ exit' = exit
    BY <1>3, <2>1, <2>2, <2>4
  <2>5. QED
    BY <1>6, <2>3, <2>4 DEF HookCall
<1>7. ASSUME NEW h \in Hooks, UnhookCall(t, h)
      PROVE  /\ mem' = mem /\ th'[t].pc \notin {"place", "write"} /\ prot' = prot
             /\ \A k \in Hooks : exit'[k] \in {exit[k], Out, None}
  BY <1>1, <1>3, <1>7 DEF UnhookCall, At, Pcs
<1>8. CASE Lock(t) \/ NoMoreGaps(t) \/ Rewrite(t) \/ Unprotect(t)
  <2>1. /\ mem' = mem /\ prot' = prot /\ exit' = exit /\ Works(t)
        /\ \E pc \in {"protect", "unprotect", "crash", "patch", "unlock"} : Goto(t, pc)
    BY <1>8 DEF Lock, NoMoreGaps, Rewrite, Signal, Unprotect, Unprotected, Works, At
  <2>2. QED
    BY <1>2, <2>1 DEF Pcs, ProtectedPcs
<1>9. CASE Protect(t)
  <2> DEFINE pc == CASE th[t].block = "alloc" -> "fill" [] th[t].block = "free" -> "clear"
                     [] th[t].block = "rewrite" -> "rewrite"
  <2>1. mem' = mem /\ prot' = prot /\ exit' = exit /\ Works(t) /\ Goto(t, pc)
    BY <1>9 DEF Protect, Works, At
  <2>2. pc \in {"fill", "clear", "rewrite"}
    BY <2>1, WorkersAreInPhase DEF Blocks
  <2> HIDE DEF pc
  <2>3. QED
    BY <1>2, <2>1, <2>2 DEF Pcs, ProtectedPcs
<1>10. CASE Jump(t)
  <2>1. mem' = mem /\ Works(t)
    BY <1>10 DEF Jump, Works, At
  <2>2. CASE Goto(t, "protect") /\ exit' = exit /\ prot' = Unlock({Page(PcOf[th[t].h])})
    BY <1>2, <2>1, <2>2 DEF Pcs
  <2>3. CASE Undo(t) /\ prot' = prot
    BY <1>5, <2>1, <2>3
  <2>4. QED
    BY <1>10, <2>2, <2>3 DEF Jump
<1>11. CASE Patch(t)
  BY <1>4, <1>5, <1>11 DEF Patch
<1>12. CASE UnlockExit(t)
  <2>1. mem' = mem /\ prot' = prot /\ exit' = exit
    BY <1>12 DEF UnlockExit
  <2>2. "jump" \in Pcs
    BY DEF Pcs
  <2>3. CASE th' = [th EXCEPT ![t] = Doing("jump", th[t].h, "rewrite")]
    BY <1>3, <2>1, <2>2, <2>3
  <2>4. CASE th' = [th EXCEPT ![t] = Idle]
    BY <1>4, <2>1, <2>4
  <2>5. QED
    BY <1>12, <2>3, <2>4 DEF UnlockExit
<1>13. QED
  BY <1>6, <1>7, <1>8, <1>9, <1>10, <1>11, <1>12

(* What is written where.                                                  *)
LEMMA WriteType ==
  ASSUME NEW S, NEW m \in [Addrs -> S], NEW a, NEW len, NEW what \in S
  PROVE  /\ Write(m, a, len, what) \in [Addrs -> S]
         /\ \A u \in Addrs : Write(m, a, len, what)[u] = IF u \in a .. a + len - 1 THEN what ELSE m[u]
BY DEF Write, Units

----------------------------------------------------------------------------
Words == {"data", "junk", "zero", "flag"} \cup Hooks

(* Types.                                                                  *)
LEMMA NextTypeOK == ASSUME FarFromTop PROVE IInv /\ [Next]_vars => TypeOK'
<1> SUFFICES ASSUME IInv, [Next]_vars PROVE TypeOK'
  OBVIOUS
<1>0. /\ elf \in Files \cup {None} /\ mem \in [Addrs -> Words]
      /\ prot \in [0 .. Page(Size - 1) -> {"none", "r", "x", "rwx"}]
      /\ exit \in [Hooks -> Addrs \cup {Out, None}] /\ hooked \subseteq Hooks
      /\ lock \in Threads \cup {None}
      /\ tids \in [1 .. Shields -> [t : Threads, block : Blocks] \cup {None}]
      /\ th \in [Threads -> {Idle} \cup Doings]
  BY DEF IInv, TypeOK, Words, Doings
<1>1. \A pages : Unlock(pages) \in [0 .. Page(Size - 1) -> {"none", "r", "x", "rwx"}]
  BY <1>0 DEF Unlock
<1>2. ASSUME mem' \in [Addrs -> Words],
             prot' \in [0 .. Page(Size - 1) -> {"none", "r", "x", "rwx"}],
             exit' \in [Hooks -> Addrs \cup {Out, None}], hooked' \subseteq Hooks,
             lock' \in Threads \cup {None}, elf' \in Files \cup {None},
             tids' \in [1 .. Shields -> [t : Threads, block : Blocks] \cup {None}],
             th' \in [Threads -> {Idle} \cup Doings]
      PROVE  TypeOK'
  BY <1>2 DEF TypeOK, Words, Doings
<1>3. CASE Load
  <2>1. PICK file \in Files :
          /\ elf' = file /\ mem' = [u \in Addrs |-> Contents(LayoutOf[file], u)]
          /\ prot' = [q \in 0 .. Page(Size - 1) |-> Protection(LayoutOf[file], q)]
    BY <1>3 DEF Load
  <2>2. mem' \in [Addrs -> Words]
    BY <2>1 DEF Contents, Words
  <2>3. prot' \in [0 .. Page(Size - 1) -> {"none", "r", "x", "rwx"}]
    <3>1. \A q : Protection(LayoutOf[file], q) \in {"none", "r", "x", "rwx"}
      BY DEF Protection
    <3>2. QED
      BY <2>1, <3>1
  <2>4. UNCHANGED <<exit, hooked, lock, tids, th>>
    BY <1>3 DEF Load
  <2>5. QED
    BY <1>0, <1>2, <2>1, <2>2, <2>3, <2>4
<1>4. CASE Unload
  <2>1. /\ elf' = None /\ mem' \in [Addrs -> Words]
        /\ prot' \in [0 .. Page(Size - 1) -> {"none", "r", "x", "rwx"}]
        /\ exit' \in [Hooks -> Addrs \cup {Out, None}] /\ hooked' \subseteq Hooks
        /\ UNCHANGED <<lock, tids, th>>
    BY <1>0, <1>4 DEF Unload, Words
  <2>2. QED
    BY <1>0, <1>2, <2>1
<1>5. ASSUME NEW t \in Threads,
             (\E h \in Hooks : HookCall(t, h) \/ UnhookCall(t, h)) \/ Lock(t) \/ GoesOn(t)
      PROVE  TypeOK'
  <2>1. PICK h \in Hooks : StepsOn(t, h)
    BY <1>5, ThreadSteps
  <2>2. /\ elf' \in Files \cup {None} /\ exit' \in [Hooks -> Addrs \cup {Out, None}]
        /\ hooked' \subseteq Hooks /\ lock' \in Threads \cup {None}
        /\ th' \in [Threads -> {Idle} \cup Doings]
    BY <1>0, <2>1 DEF StepsOn
  <2>3. tids' \in [1 .. Shields -> [t : Threads, block : Blocks] \cup {None}]
    <3>1. CASE tids' = tids
      BY <1>0, <3>1
    <3>2. CASE Protect(t)
      <4>1. th[t].block \in Blocks
        BY <3>2, WorkersAreInPhase DEF Protect, Works, At
      <4>2. [t |-> t, block |-> th[t].block] \in [t : Threads, block : Blocks]
        BY <4>1
      <4>3. QED
        BY <1>0, <3>2, <4>2 DEF Protect
    <3>3. CASE Unprotect(t)
      BY <1>0, <3>3 DEF Unprotect
    <3>4. QED
      BY <1>5, <3>1, <3>2, <3>3
         DEF GoesOn, HookCall, UnhookCall, Lock, Jump, Fill, Place, WriteExit, NoMoreGaps, Clear,
             Rewrite, Patch, UnlockExit
  <2>4. CASE mem' = mem /\ (prot' = prot \/ \E pages : prot' = Unlock(pages))
    BY <1>0, <1>1, <1>2, <2>2, <2>3, <2>4
  <2>5. CASE Fill(t)
    <3> DEFINE g == Gaps[th[t].gap]
               zeros == Write(mem, g.start, g.end - g.start, "zero")
    <3>1. prot' = prot \/ \E pages : prot' = Unlock(pages)
      BY <2>5, FillEffect
    <3>2. zeros \in [Addrs -> Words]
      BY <1>0, WriteType DEF Words
    <3> HIDE DEF zeros
    <3>3. [zeros EXCEPT ![g.start] = "flag"] \in [Addrs -> Words]
      BY <3>2 DEF Words
    <3>4. mem' \in [Addrs -> Words]
      BY <1>0, <2>5, <3>3, FillEffect DEF zeros
    <3>5. QED
      BY <1>0, <1>1, <1>2, <2>2, <2>3, <3>1, <3>4
  <2>6. CASE Place(t)
    BY <2>4, <2>6, PlaceEffect
  <2>7. CASE WriteExit(t)
    <3>1. mem' \in [Addrs -> Words]
      <4>1. \A k \in Hooks : Write(mem, th[t].place, 2, k) \in [Addrs -> Words]
        BY <1>0, WriteType DEF Words
      <4>2. mem' = mem \/ \E k \in Hooks : mem' = Write(mem, th[t].place, 2, k)
        BY <2>7, WriteExitEffect
      <4>3. QED
        BY <1>0, <4>1, <4>2
    <3>2. prot' = prot \/ \E pages : prot' = Unlock(pages)
      BY <2>7, WriteExitEffect
    <3>3. QED
      BY <1>0, <1>1, <1>2, <2>2, <2>3, <3>1, <3>2
  <2>8. CASE Clear(t)
    <3>1. mem' \in [Addrs -> Words]
      <4>1. \A a : Write(mem, a, 2, "zero") \in [Addrs -> Words]
        BY <1>0, WriteType DEF Words
      <4>2. mem' = mem \/ \E a : mem' = Write(mem, a, 2, "zero")
        BY <2>8, ClearEffect
      <4>3. QED
        BY <1>0, <4>1, <4>2
    <3>2. prot' = prot \/ \E pages : prot' = Unlock(pages)
      BY <2>8, ClearEffect
    <3>3. QED
      BY <1>0, <1>1, <1>2, <2>2, <2>3, <3>1, <3>2
  <2>9. QED
    BY <1>5, <2>4, <2>5, <2>6, <2>7, <2>8, QuietSteps DEF GoesOn
<1>6. CASE UNCHANGED vars
  BY <1>0, <1>2, <1>6 DEF vars
<1>7. QED
  BY <1>3, <1>4, <1>5, <1>6 DEF Next

(* A step of a thread leaves what others have in hand.                     *)
LEMMA OthersStay ==
  ASSUME IInv, NEW t \in Threads, NEW h \in Hooks, StepsOn(t, h),
         NEW s \in Threads, s # t, Works(s)
  PROVE  /\ Works(s)' /\ th'[s] = th[s] /\ th[s].h \in Hooks /\ th[s].h # h
         /\ exit'[th[s].h] = exit[th[s].h] /\ th[s].h \notin hooked'
         /\ InPhase(s)'
<1>1. th'[s] = th[s] /\ Works(s)'
  BY DEF StepsOn, Works, At
<1>2. th[s].h \in Hooks /\ InPhase(s) /\ th[s].h \notin hooked
  BY WorkersAreInPhase
<1>3. th[s].h # h
  <2>1. CASE Works(t)
    BY <2>1 DEF StepsOn, IInv, Exclusion
  <2>2. CASE ~ Works(t)
    BY <2>2 DEF StepsOn, Busy, Works
  <2>3. QED
    BY <2>1, <2>2
<1>4. exit'[th[s].h] = exit[th[s].h] /\ th[s].h \notin hooked'
  BY <1>2, <1>3 DEF StepsOn
<1>5. lock = s => lock' = s
  BY ExitAssumption DEF StepsOn
<1>6. InPhase(s)'
  BY <1>1, <1>2, <1>4, <1>5 DEF InPhase
<1>7. QED
  BY <1>1, <1>2, <1>3, <1>4, <1>6

(* Blocks, exclusion and the file.                                         *)
LEMMA NextControl ==
  ASSUME FarFromTop
  PROVE  IInv /\ [Next]_vars => BlockPhases' /\ Exclusion' /\ FilePhases'
<1> SUFFICES ASSUME IInv, [Next]_vars PROVE BlockPhases' /\ Exclusion' /\ FilePhases'
  OBVIOUS
<1>1. CASE Load
  <2>1. /\ \A t \in Threads : ~ Works(t)
        /\ hooked = {}
    BY <1>1 DEF Load, IInv, FilePhases
  <2>2. elf' \in Files /\ elf' # None /\ UNCHANGED <<hooked, exit, th>>
    BY <1>1, ExitAssumption DEF Load
  <2>3. \A t \in Threads : ~ Works(t)'
    BY <2>1, <2>2 DEF Works, At
  <2>4. QED
    BY <2>1, <2>2, <2>3 DEF BlockPhases, Exclusion, FilePhases
<1>2. CASE Unload
  <2>1. /\ \A t \in Threads : ~ Works(t)'
        /\ hooked' = {} /\ \A h \in Hooks : exit'[h] = None
    BY <1>2 DEF Unload, Works, At
  <2>2. QED
    BY <2>1 DEF BlockPhases, Exclusion, FilePhases
<1>3. ASSUME NEW t \in Threads, NEW h \in Hooks, StepsOn(t, h)
      PROVE  BlockPhases' /\ Exclusion' /\ FilePhases'
  <2>1. \A s \in Threads : s # t /\ Works(s)' =>
          /\ InPhase(s)' /\ th'[s] = th[s] /\ Works(s)
          /\ th[s].h # h /\ th[s].h \notin hooked'
    <3>1. \A s \in Threads : s # t /\ Works(s)' => Works(s)
      BY <1>3 DEF StepsOn, Works, At
    <3>2. QED
      BY <1>3, <3>1, OthersStay
  <2>2. Works(t)' => InPhase(t)' /\ th'[t].h = h /\ h \notin hooked'
    BY <1>3 DEF StepsOn
  <2>3. BlockPhases'
    BY <2>1, <2>2 DEF BlockPhases
  <2>4. Exclusion'
    <3>1. \A s, r \in Threads : s # t /\ r # t /\ s # r /\ Works(s)' /\ Works(r)' => th'[s].h # th'[r].h
      BY <2>1 DEF IInv, Exclusion
    <3>2. QED
      BY <2>1, <2>2, <3>1 DEF Exclusion
  <2>5. FilePhases'
    <3>1. elf' # None
      BY <1>3 DEF StepsOn
    <3>2. \A k \in hooked' : exit'[k] # None
      BY <1>3 DEF StepsOn, IInv, FilePhases
    <3>3. QED
      BY <3>1, <3>2 DEF FilePhases
  <2>6. QED
    BY <2>3, <2>4, <2>5
<1>4. CASE UNCHANGED vars
  BY <1>4 DEF vars, IInv, BlockPhases, Exclusion, FilePhases, Works, At, InPhase
<1>5. QED
  BY <1>1, <1>2, <1>3, <1>4, ThreadSteps DEF Next

(* What holds of the memory of one exit.                                   *)
Intact(h) == \A u \in Units(exit[h], ExitLen) : mem[u] = h

(* The steps that write.                                                   *)
LEMMA QuietOrLocked ==
  ASSUME FarFromTop, IInv, NEW t \in Threads,
         (\E h \in Hooks : HookCall(t, h) \/ UnhookCall(t, h)) \/ Lock(t) \/ GoesOn(t)
  PROVE  \/ /\ mem' = mem /\ \A k \in Hooks : exit'[k] \in {exit[k], Out, None}
            /\ th'[t].pc \notin {"place", "write"}
         \/ lock = t /\ (Fill(t) \/ Place(t) \/ WriteExit(t) \/ Clear(t))
<1>1. CASE Place(t)
  <2>1. Works(t) /\ th[t].pc = "place"
    BY <1>1 DEF Place, Works, At
  <2>2. InPhase(t)
    BY <2>1, WorkersAreInPhase
  <2>3. QED
    BY <1>1, <2>1, <2>2 DEF InPhase, LockedPcs
<1>2. QED
  BY <1>1, QuietSteps, FillEffect, WriteExitEffect, ClearEffect DEF GoesOn

(* The four things a step of a thread may do to memory and exits.          *)
Untouched == mem' = mem /\ \A k \in Hooks : exit'[k] \in {exit[k], Out, None}

Filled(n) ==
  LET g == Gaps[n]
  IN /\ g.fill /\ mem[g.start] # "flag" /\ exit' = exit
     /\ \A u \in Addrs : mem'[u] = IF u = g.start THEN "flag"
                                   ELSE IF u \in g.start .. g.end - 1 THEN "zero" ELSE mem[u]

Written(n, h, place) ==
  LET g == Gaps[n]
  IN /\ place \in Addrs /\ g.start <= place /\ place + 2 <= g.end
     /\ PcOf[h] - RangeLow <= place /\ place <= PcOf[h] + RangeHigh
     /\ IsZero(place) /\ (g.fill => mem[g.start] = "flag")
     /\ exit' = [exit EXCEPT ![h] = place]
     /\ \A u \in Addrs : mem'[u] = IF u \in place .. place + 1 THEN h ELSE mem[u]

Cleared(h) ==
  /\ exit[h] \in Addrs /\ exit' = [exit EXCEPT ![h] = None]
  /\ \A u \in exit[h] .. exit[h] + 1 : mem[u] = h
  /\ \A u \in Addrs : mem'[u] = IF u \in exit[h] .. exit[h] + 1 THEN "zero" ELSE mem[u]

LEMMA MemorySteps ==
  ASSUME FarFromTop, IInv, NEW t \in Threads,
         (\E h \in Hooks : HookCall(t, h) \/ UnhookCall(t, h)) \/ Lock(t) \/ GoesOn(t)
  PROVE  /\ elf \in Files /\ elf # None /\ elf' = elf
         /\ \/ Untouched
            \/ \E n \in DOMAIN Gaps : Filled(n)
            \/ \E n \in DOMAIN Gaps, h \in Hooks, place \in Addrs : Written(n, h, place)
            \/ \E h \in Hooks : Cleared(h)
<1>1. elf # None /\ elf' = elf
  BY ThreadSteps DEF StepsOn
<1>2. /\ elf \in Files /\ mem \in [Addrs -> Words] /\ exit \in [Hooks -> Addrs \cup {Out, None}]
      /\ th \in [Threads -> {Idle} \cup Doings]
  BY <1>1 DEF IInv, TypeOK, Words, Doings
<1>3. "zero" \in Words /\ "flag" \in Words /\ Hooks \subseteq Words
  BY DEF Words
<1>4. ASSUME NEW a, NEW len, NEW b, NEW what \in Words, a + len - 1 = b
      PROVE  /\ Write(mem, a, len, what) \in [Addrs -> Words]
             /\ \A u \in Addrs : Write(mem, a, len, what)[u] = IF u \in a .. b THEN what ELSE mem[u]
  <2>1. Units(a, len) = a .. b
    BY <1>4 DEF Units
  <2>2. Write(mem, a, len, what) = [u \in Addrs |-> IF u \in a .. b THEN what ELSE mem[u]]
    BY <1>2, <2>1, Zenon DEF Write
  <2>3. QED
    BY <1>2, <2>2
<1>5. CASE Fill(t)
  <2> DEFINE n == th[t].gap
             g == Gaps[n]
             zeros == Write(mem, g.start, g.end - g.start, "zero")
  <2>1. n \in DOMAIN Gaps /\ exit' = exit
    BY <1>5, FillEffect
  <2>2. g \in SomeGap /\ g.start < g.end /\ g.end <= Size
    BY <1>1, <2>1, GapsHere DEF IInv
  <2>3. CASE mem' = mem
    BY <1>1, <1>2, <2>1, <2>3 DEF Untouched
  <2>4. CASE g.fill /\ mem[g.start] # "flag" /\ mem' = [zeros EXCEPT ![g.start] = "flag"]
    <3>1. g.start \in Nat /\ g.end \in Nat /\ g.start + (g.end - g.start) - 1 = g.end - 1
      BY <2>2 DEF SomeGap
    <3>2. g.start \in Addrs
      BY <2>2, <3>1, ExitAssumption DEF Addrs
    <3>3. /\ zeros \in [Addrs -> Words]
          /\ \A u \in Addrs : zeros[u] = IF u \in g.start .. g.end - 1 THEN "zero" ELSE mem[u]
      BY <1>3, <1>4, <3>1
    <3> HIDE DEF zeros
    <3>4. Filled(n)
      BY <2>1, <2>4, <3>2, <3>3 DEF Filled
    <3>5. QED
      BY <1>1, <1>2, <2>1, <3>4
  <2>5. QED
    BY <1>5, <2>3, <2>4, FillEffect
<1>6. CASE Place(t)
  BY <1>1, <1>2, <1>6, PlaceEffect DEF Untouched
<1>7. CASE WriteExit(t)
  <2> DEFINE h == th[t].h
             place == th[t].place
             n == th[t].gap
  <2>1. CASE UNCHANGED <<mem, prot, exit>>
    BY <1>1, <1>2, <2>1 DEF Untouched
  <2>2. CASE exit' = [exit EXCEPT ![h] = place] /\ mem' = Write(mem, place, 2, h)
    <3>1. h \in Hooks /\ n \in DOMAIN Gaps /\ place \in Addrs
      BY <1>7, WriteExitEffect
    <3>2. place + 2 - 1 = place + 1
      BY <3>1, ExitAssumption DEF Addrs
    <3>3. \A u \in Addrs : mem'[u] = IF u \in place .. place + 1 THEN h ELSE mem[u]
      BY <1>3, <1>4, <2>2, <3>1, <3>2
    <3>4. Written(n, h, place)
      BY <1>7, <2>2, <3>1, <3>3, WriteExitEffect DEF Written
    <3>5. QED
      BY <1>1, <1>2, <3>1, <3>4
  <2>3. QED
    BY <1>7, <2>1, <2>2, WriteExitEffect
<1>8. CASE Clear(t)
  <2> DEFINE h == th[t].h
             a == exit[h]
  <2>1. h \in Hooks /\ a \in Addrs /\ exit' = [exit EXCEPT ![h] = None]
    BY <1>8, ClearEffect
  <2>2. CASE mem' = mem
    <3>1. \A k \in Hooks : exit'[k] \in {exit[k], Out, None}
      BY <1>2, <2>1
    <3>2. QED
      BY <1>1, <1>2, <2>2, <3>1 DEF Untouched
  <2>3. CASE (\A u \in Units(a, 2) : mem[u] = h) /\ mem' = Write(mem, a, 2, "zero")
    <3>1. Units(a, 2) = a .. a + 1 /\ a + 2 - 1 = a + 1
      BY <2>1, ExitAssumption DEF Addrs, Units
    <3>2. \A u \in Addrs : mem'[u] = IF u \in a .. a + 1 THEN "zero" ELSE mem[u]
      BY <1>3, <1>4, <2>3, <3>1
    <3>3. Cleared(h)
      BY <2>1, <2>3, <3>1, <3>2 DEF Cleared
    <3>4. QED
      BY <1>1, <1>2, <2>1, <3>3
  <2>4. QED
    BY <1>8, <2>2, <2>3, ClearEffect
<1>9. QED
  BY <1>1, <1>2, <1>5, <1>6, <1>7, <1>8, QuietOrLocked DEF Untouched

(* The gaps and the segments lie in memory.                                *)
LEMMA InMemory ==
  ASSUME TypeOK, elf # None
  PROVE  /\ \A n \in DOMAIN Gaps :
              /\ Gaps[n].start \in Addrs
              /\ Gaps[n].start \in Gaps[n].start .. Gaps[n].end - 1
              /\ Gaps[n].start .. Gaps[n].end - 1 \subseteq Addrs
         /\ \A n, m \in DOMAIN Gaps : Gaps[n] # Gaps[m] =>
              \A u \in Gaps[n].start .. Gaps[n].end - 1 : u \notin Gaps[m].start .. Gaps[m].end - 1
         /\ \A i \in DOMAIN LayoutOf[elf].segs :
              LET seg == LayoutOf[elf].segs[i]
              IN \A u \in seg.start .. seg.end - 1 :
                   u \in Addrs /\ \A n \in DOMAIN Gaps : u \notin Gaps[n].start .. Gaps[n].end - 1
<1> DEFINE segs == LayoutOf[elf].segs
<1>1. \A n \in DOMAIN Gaps : /\ Gaps[n].start \in Nat /\ Gaps[n].end \in Nat
                              /\ Gaps[n].start < Gaps[n].end /\ Gaps[n].end <= Size
  BY GapsHere DEF SomeGap
<1>2. \A i \in DOMAIN segs : segs[i].start \in Nat /\ segs[i].end \in Nat /\ segs[i].end <= Size
  <2>1. segs \in Seq([start : Nat, fileEnd : Nat, end : Nat, x : BOOLEAN, r : BOOLEAN])
    BY GapsHere, LayoutAssumption
  <2>2. \A i \in DOMAIN segs : segs[i] \in [start : Nat, fileEnd : Nat, end : Nat, x : BOOLEAN, r : BOOLEAN]
    <3> HIDE DEF segs
    <3>1. QED
      BY <2>1, LenProperties, ElementOfSeq
  <2>3. \A i \in DOMAIN segs : PageEnd(segs[i].end) <= Size
    BY GapsHere, LayoutAssumption
  <2>4. \A i \in DOMAIN segs : PageEnd(segs[i].end) \in Nat /\ segs[i].end <= PageEnd(segs[i].end)
    BY <2>2, Alignment, ExitAssumption DEF PageEnd
  <2>5. QED
    BY <2>2, <2>3, <2>4, ExitAssumption
<1>3. Size \in Nat
  BY ExitAssumption
<1>4. \A n \in DOMAIN Gaps : \A i \in DOMAIN segs :
        segs[i].end <= Gaps[n].start \/ Gaps[n].end <= segs[i].start
  BY GapsHere
<1>5. \A n, m \in DOMAIN Gaps :
        Gaps[n] = Gaps[m] \/ Gaps[n].end <= Gaps[m].start \/ Gaps[m].end <= Gaps[n].start
  BY GapsHere
<1> HIDE DEF segs
<1>6. \A n \in DOMAIN Gaps :
        /\ Gaps[n].start \in Addrs
        /\ Gaps[n].start \in Gaps[n].start .. Gaps[n].end - 1
        /\ Gaps[n].start .. Gaps[n].end - 1 \subseteq Addrs
  BY <1>1, <1>3 DEF Addrs
<1>7. \A n, m \in DOMAIN Gaps : Gaps[n] # Gaps[m] =>
        \A u \in Gaps[n].start .. Gaps[n].end - 1 : u \notin Gaps[m].start .. Gaps[m].end - 1
  BY <1>1, <1>5
<1>8. \A i \in DOMAIN segs : \A u \in segs[i].start .. segs[i].end - 1 :
        u \in Addrs /\ \A n \in DOMAIN Gaps : u \notin Gaps[n].start .. Gaps[n].end - 1
  BY <1>1, <1>2, <1>3, <1>4 DEF Addrs
<1>9. QED
  BY <1>6, <1>7, <1>8 DEF segs

(* What is zero, or data, is no exit.                                      *)
LEMMA PlaceIsFree ==
  ASSUME NEW place \in Addrs, IsZero(place)
  PROVE  /\ \A u \in place .. place + 1 : mem[u] \notin Hooks /\ mem[u] # "flag"
         /\ mem[place] # "flag"
<1>1. Units(place, ExitLen) = place .. place + 1 /\ place \in place .. place + 1
  BY ExitAssumption DEF Units, ExitLen, Addrs
<1>2. \A u \in place .. place + 1 : mem[u] \in {"zero", "data"}
  BY <1>1, Zenon DEF IsZero
<1>3. \A u \in place .. place + 1 : mem[u] \notin Hooks /\ mem[u] # "flag"
  BY <1>2, ExitAssumption
<1>4. QED
  BY <1>1, <1>3

(* Who searches a gap is not disturbed.                                    *)
LEMMA NextSearchPhases ==
  ASSUME FarFromTop
  PROVE  IInv /\ [Next]_vars => SearchPhases'
<1> SUFFICES ASSUME IInv, [Next]_vars PROVE SearchPhases'
  OBVIOUS
<1>1. ASSUME \A s \in Threads : ~ Works(s), th' = th PROVE SearchPhases'
  BY <1>1 DEF SearchPhases, Works, At
<1>2. CASE Load
  BY <1>1, <1>2 DEF Load, IInv, FilePhases
<1>3. CASE Unload
  BY <1>1, <1>3 DEF Unload, Works
<1>4. ASSUME NEW t \in Threads,
             (\E h \in Hooks : HookCall(t, h) \/ UnhookCall(t, h)) \/ Lock(t) \/ GoesOn(t)
      PROVE  SearchPhases'
  <2>1. PICK h \in Hooks : StepsOn(t, h)
    BY <1>4, ThreadSteps
  <2>2. Gaps' = Gaps /\ elf # None
    BY <2>1 DEF StepsOn, Gaps
  <2> SUFFICES ASSUME NEW s \in Threads, th'[s].pc \in {"place", "write"}
               PROVE  /\ th'[s].gap \in DOMAIN Gaps
                      /\ Gaps[th'[s].gap].fill => mem'[Gaps[th'[s].gap].start] = "flag"
                      /\ th'[s].pc = "write" =>
                           th'[s].place \in Places(Gaps[th'[s].gap], PcOf[th'[s].h]) /\ IsZero(th[s].place)'
    BY <2>2 DEF SearchPhases
  <2>3. ASSUME th'[s] = th[s], mem' = mem
        PROVE  /\ th'[s].gap \in DOMAIN Gaps
               /\ Gaps[th'[s].gap].fill => mem'[Gaps[th'[s].gap].start] = "flag"
               /\ th'[s].pc = "write" =>
                    th'[s].place \in Places(Gaps[th'[s].gap], PcOf[th'[s].h]) /\ IsZero(th[s].place)'
    BY <2>3 DEF IInv, SearchPhases, IsZero
  <2>4. CASE mem' = mem /\ th'[t].pc \notin {"place", "write"}
    <3>1. s # t
      BY <2>4
    <3>2. th'[s] = th[s]
      BY <2>1, <3>1 DEF StepsOn
    <3>3. QED
      BY <2>3, <2>4, <3>2
  <2>5. ASSUME lock = t, s # t PROVE FALSE
    <3>1. th'[s] = th[s]
      BY <2>1, <2>5 DEF StepsOn
    <3>2. Works(s) /\ th[s].pc \in {"place", "write"}
      BY <3>1 DEF Works, At
    <3>3. lock = s
      BY <3>2, WorkersAreInPhase DEF InPhase, LockedPcs
    <3>4. QED
      BY <2>5, <3>3
  <2>6. CASE lock = t /\ Fill(t)
    <3>1. s = t
      BY <2>5, <2>6
    <3> DEFINE g == Gaps[th[t].gap]
    <3>2. th'[t].pc = "place" /\ th'[t].gap = th[t].gap /\ th[t].gap \in DOMAIN Gaps
      BY <2>6, <3>1, FillEffect DEF Idle
    <3>3. g.fill => mem'[g.start] = "flag"
      <4>1. g.start \in Addrs
        BY <2>2, <3>2, InMemory DEF IInv
      <4>2. mem \in [Addrs -> Words]
        BY DEF IInv, TypeOK, Words
      <4> DEFINE zeros == Write(mem, g.start, g.end - g.start, "zero")
      <4>3. DOMAIN zeros = Addrs
        BY <4>2 DEF Write
      <4>4. \/ mem' = mem /\ (g.fill => mem[g.start] = "flag")
            \/ mem' = [zeros EXCEPT ![g.start] = "flag"]
        <5>1. Idle.pc = "idle"
          BY DEF Idle
        <5>2. th'[t] # Idle
          BY <3>2, <5>1
        <5>3. QED
          BY <2>6, <5>2, FillEffect
      <4> HIDE DEF zeros, g
      <4>5. QED
        BY <4>1, <4>3, <4>4
    <3>4. QED
      BY <3>1, <3>2, <3>3
  <2>7. CASE lock = t /\ Place(t)
    <3>1. s = t /\ mem' = mem
      BY <2>5, <2>7, PlaceEffect
    <3>2. /\ th[t].pc = "place" /\ th'[t].pc = "write" /\ th'[t].gap = th[t].gap /\ th'[t].h = th[t].h
          /\ th'[t].place \in Places(Gaps[th[t].gap], PcOf[th[t].h]) /\ IsZero(th'[t].place)
      BY <2>7, <3>1, PlaceEffect
    <3>3. th[t].gap \in DOMAIN Gaps /\ (Gaps[th[t].gap].fill => mem[Gaps[th[t].gap].start] = "flag")
      BY <3>2 DEF IInv, SearchPhases
    <3>4. IsZero(th[t].place)'
      BY <3>1, <3>2 DEF IsZero
    <3>5. QED
      BY <3>1, <3>2, <3>3, <3>4
  <2>8. CASE lock = t /\ (WriteExit(t) \/ Clear(t))
    <3>1. s = t /\ th'[t].pc \notin {"place", "write"}
      BY <2>5, <2>8, WriteExitEffect, ClearEffect
    <3>2. QED
      BY <3>1
  <2>9. QED
    BY <1>4, <2>4, <2>6, <2>7, <2>8, QuietOrLocked
<1>5. CASE UNCHANGED vars
  BY <1>5 DEF vars, IInv, SearchPhases, Gaps, IsZero
<1>6. QED
  BY <1>2, <1>3, <1>4, <1>5 DEF Next

(* Gaps that are to be filled stay empty.                                  *)
LEMMA NextToFillAreEmpty ==
  ASSUME FarFromTop
  PROVE  IInv /\ [Next]_vars => ToFillAreEmpty'
<1> SUFFICES ASSUME IInv, [Next]_vars, elf' # None,
                    NEW n \in DOMAIN Gaps', Gaps'[n].fill, mem'[Gaps'[n].start] # "flag",
                    NEW u \in Gaps'[n].start .. Gaps'[n].end - 1
             PROVE  mem'[u] \notin Hooks
  BY DEF ToFillAreEmpty
<1>0. {"data", "junk", "zero", "flag"} \cap Hooks = {} /\ TypeOK
  BY ExitAssumption DEF IInv
<1>1. CASE Load
  <2>1. \A v \in Addrs : mem'[v] \notin Hooks
    BY <1>0, <1>1 DEF Load, Contents
  <2>2. TypeOK'
    BY NextTypeOK
  <2>3. GapsOf[elf'] = Gaps' /\ elf' \in Files
    BY <2>2 DEF TypeOK, Gaps
  <2>4. u \in Addrs
    <3>1. Gaps'[n].start \in Nat /\ Gaps'[n].end \in Nat /\ Gaps'[n].end <= Size
      <4>1. /\ Gaps' \in Seq(SomeGap) /\ \A k \in DOMAIN Gaps' : Gaps'[k].end <= Size
        BY <2>3, GapsAreApart DEF SomeGap
      <4>2. Gaps'[n] \in SomeGap
        BY <4>1, LenProperties, ElementOfSeq
      <4>3. QED
        BY <4>1, <4>2 DEF SomeGap
    <3>2. QED
      BY <3>1, ExitAssumption DEF Addrs
  <2>5. QED
    BY <2>1, <2>4
<1>2. CASE Unload
  BY <1>2 DEF Unload
<1>3. ASSUME NEW t \in Threads,
             (\E h \in Hooks : HookCall(t, h) \/ UnhookCall(t, h)) \/ Lock(t) \/ GoesOn(t)
      PROVE  mem'[u] \notin Hooks
  <2>1. elf # None /\ Gaps' = Gaps
    BY <1>3, MemorySteps DEF Gaps
  <2>2. n \in DOMAIN Gaps /\ Gaps[n].fill /\ u \in Addrs /\ Gaps[n].start \in Addrs
    BY <1>0, <2>1, InMemory
  <2>3. mem[Gaps[n].start] # "flag" => mem[u] \notin Hooks
    BY <2>1, <2>2 DEF IInv, ToFillAreEmpty
  <2>4. CASE Untouched
    BY <2>1, <2>3, <2>4 DEF Untouched
  <2>5. ASSUME NEW m \in DOMAIN Gaps, Filled(m) PROVE mem'[u] \notin Hooks
    <3>1. Gaps[m] # Gaps[n] /\ Gaps[n].start # Gaps[m].start
      BY <2>1, <2>2, <2>5 DEF Filled
    <3>2. /\ Gaps[n].start \notin Gaps[m].start .. Gaps[m].end - 1
          /\ u \notin Gaps[m].start .. Gaps[m].end - 1 /\ u # Gaps[m].start
      BY <1>0, <2>1, <2>2, <2>5, <3>1, InMemory
    <3>3. mem'[u] = mem[u] /\ mem'[Gaps[n].start] = mem[Gaps[n].start]
      BY <2>2, <2>5, <3>1, <3>2 DEF Filled
    <3>4. QED
      BY <2>1, <2>3, <3>3
  <2>6. ASSUME NEW m \in DOMAIN Gaps, NEW h \in Hooks, NEW place \in Addrs, Written(m, h, place)
        PROVE  mem'[u] \notin Hooks
    <3>1. /\ Gaps[m].start \in Nat /\ Gaps[m].end \in Nat /\ place \in Nat
          /\ Gaps[m].start <= place /\ place + 2 <= Gaps[m].end
      BY <1>0, <2>1, <2>6, GapsHere, ExitAssumption DEF Written, SomeGap, Addrs
    <3>2. place .. place + 1 \subseteq Gaps[m].start .. Gaps[m].end - 1
      BY <3>1
    <3>3. IsZero(place) /\ (Gaps[m].fill => mem[Gaps[m].start] = "flag")
      BY <2>6 DEF Written
    <3>4. \A v \in place .. place + 1 : mem[v] # "flag"
      BY <3>3, PlaceIsFree
    <3>5. \A v \in Addrs : v \notin place .. place + 1 => mem'[v] = mem[v]
      BY <2>6 DEF Written
    <3>6. Gaps[n] # Gaps[m]
      BY <2>1, <2>2, <3>3, <3>4, <3>5
    <3>7. /\ Gaps[n].start \notin Gaps[m].start .. Gaps[m].end - 1
          /\ u \notin Gaps[m].start .. Gaps[m].end - 1
      BY <1>0, <2>1, <2>2, <3>6, InMemory
    <3>8. QED
      BY <2>1, <2>2, <2>3, <3>2, <3>5, <3>7
  <2>7. ASSUME NEW h \in Hooks, Cleared(h) PROVE mem'[u] \notin Hooks
    <3>1. \A v \in Addrs : mem'[v] = mem[v] \/ (mem[v] = h /\ mem'[v] = "zero")
      BY <2>7 DEF Cleared
    <3>2. mem[Gaps[n].start] # "flag"
      BY <1>0, <2>1, <2>2, <3>1
    <3>3. QED
      BY <1>0, <2>2, <2>3, <3>1, <3>2
  <2>8. QED
    BY <1>3, <2>4, <2>5, <2>6, <2>7, MemorySteps
<1>4. CASE UNCHANGED vars
  BY <1>4 DEF vars, IInv, ToFillAreEmpty, Gaps
<1>5. QED
  BY <1>1, <1>2, <1>3, <1>4 DEF Next

(* Exits that are in use stay whole, in memory and in reach.               *)
LEMMA NextExits ==
  ASSUME FarFromTop
  PROVE  IInv /\ [Next]_vars => LiveExitsAreIntact' /\ ExitsFit' /\ ExitsAreInReach'
<1> SUFFICES ASSUME IInv, [Next]_vars, NEW k \in Hooks, exit'[k] \in Addrs
             PROVE  /\ \A u \in exit'[k] .. exit'[k] + 1 : mem'[u] = k
                    /\ exit'[k] + 1 \in Addrs
                    /\ exit'[k] \in PcOf[k] - RangeLow .. PcOf[k] + RangeHigh
  <2>1. \A a \in Addrs : Units(a, ExitLen) = a .. a + 1
    BY ExitAssumption DEF Units, ExitLen, Addrs
  <2>2. \A a \in Addrs : \A u \in Units(a, ExitLen) : u \in a .. a + 1
    BY <2>1
  <2>3. QED
    BY <2>2 DEF LiveExitsAreIntact, ExitsFit, ExitsAreInReach
<1>0. /\ None \notin Addrs /\ Out \notin Addrs /\ None # Out
      /\ \A a \in Addrs : a \in Int /\ Units(a, ExitLen) = a .. a + 1
      /\ exit \in [Hooks -> Addrs \cup {Out, None}]
      /\ \A a \in Addrs : \A u \in a .. a + 1 : a + 1 \in Addrs => u \in Addrs
  <2>1. \A a \in Addrs : a \in Int
    BY ExitAssumption DEF Addrs
  <2>2. \A a \in Addrs : Units(a, ExitLen) = a .. a + 1
    BY <2>1 DEF Units, ExitLen
  <2>3. \A a \in Addrs : \A u \in a .. a + 1 : a + 1 \in Addrs => u \in Addrs
    BY <2>1 DEF Addrs
  <2>4. QED
    BY <2>1, <2>2, <2>3, ExitAssumption DEF IInv, TypeOK
<1>1. ASSUME NEW j \in Hooks, exit[j] \in Addrs
      PROVE  /\ \A u \in exit[j] .. exit[j] + 1 : mem[u] = j /\ u \in Addrs
             /\ exit[j] + 1 \in Addrs
             /\ exit[j] \in PcOf[j] - RangeLow .. PcOf[j] + RangeHigh
  BY <1>0, <1>1 DEF IInv, LiveExitsAreIntact, ExitsFit, ExitsAreInReach
<1>2. CASE Load \/ Unload
  <2>1. exit'[k] = None
    BY <1>2 DEF Load, Unload, IInv, FilePhases
  <2>2. QED
    BY <1>0, <2>1
<1>3. ASSUME NEW t \in Threads,
             (\E h \in Hooks : HookCall(t, h) \/ UnhookCall(t, h)) \/ Lock(t) \/ GoesOn(t)
      PROVE  /\ \A u \in exit'[k] .. exit'[k] + 1 : mem'[u] = k
             /\ exit'[k] + 1 \in Addrs
             /\ exit'[k] \in PcOf[k] - RangeLow .. PcOf[k] + RangeHigh
  <2>0. elf # None
    BY <1>3, MemorySteps
  <2>1. CASE Untouched
    BY <1>0, <1>1, <2>1 DEF Untouched
  <2>2. ASSUME exit'[k] = exit[k], \A u \in exit[k] .. exit[k] + 1 : mem'[u] = mem[u]
        PROVE  /\ \A u \in exit'[k] .. exit'[k] + 1 : mem'[u] = k
               /\ exit'[k] + 1 \in Addrs
               /\ exit'[k] \in PcOf[k] - RangeLow .. PcOf[k] + RangeHigh
    BY <1>1, <2>2
  <2>3. ASSUME NEW n \in DOMAIN Gaps, Filled(n)
        PROVE  exit'[k] = exit[k] /\ \A u \in exit[k] .. exit[k] + 1 : mem'[u] = mem[u]
    <3>1. exit'[k] = exit[k]
      BY <2>3 DEF Filled
    <3>2. \A u \in Gaps[n].start .. Gaps[n].end - 1 : mem[u] \notin Hooks
      BY <2>0, <2>3 DEF Filled, IInv, ToFillAreEmpty
    <3>3. Gaps[n].start \in Gaps[n].start .. Gaps[n].end - 1
      BY <2>0, InMemory DEF IInv
    <3>4. \A u \in exit[k] .. exit[k] + 1 :
            u \in Addrs /\ u \notin Gaps[n].start .. Gaps[n].end - 1 /\ u # Gaps[n].start
      BY <1>1, <3>1, <3>2, <3>3
    <3>5. QED
      BY <2>3, <3>1, <3>4 DEF Filled
  <2>4. ASSUME NEW n \in DOMAIN Gaps, NEW h \in Hooks, NEW place \in Addrs, Written(n, h, place)
        PROVE  /\ \A u \in exit'[k] .. exit'[k] + 1 : mem'[u] = k
               /\ exit'[k] + 1 \in Addrs
               /\ exit'[k] \in PcOf[k] - RangeLow .. PcOf[k] + RangeHigh
    <3>1. CASE k = h
      <4>1. exit'[k] = place
        BY <1>0, <2>4, <3>1 DEF Written
      <4>2. place \in Nat /\ place + 1 \in Addrs
        <5>1. Gaps[n].end \in Nat /\ Gaps[n].end <= Size /\ place + 2 <= Gaps[n].end
          BY <2>0, <2>4, GapsHere DEF Written, IInv, SomeGap
        <5>2. QED
          BY <5>1, ExitAssumption DEF Addrs
      <4>3. \A u \in place .. place + 1 : u \in Addrs
        BY <1>0, <4>2
      <4>4. \A u \in place .. place + 1 : mem'[u] = k
        BY <2>4, <3>1, <4>3 DEF Written
      <4>5. place \in PcOf[k] - RangeLow .. PcOf[k] + RangeHigh
        BY <2>4, <3>1, <4>2, ExitAssumption DEF Written
      <4>6. QED
        BY <4>1, <4>2, <4>4, <4>5
    <3>2. CASE k # h
      <4>1. exit'[k] = exit[k]
        BY <1>0, <2>4, <3>2 DEF Written
      <4>2. \A u \in place .. place + 1 : mem[u] \notin Hooks
        BY <2>4, PlaceIsFree DEF Written
      <4>3. \A u \in exit[k] .. exit[k] + 1 : u \in Addrs /\ u \notin place .. place + 1
        BY <1>1, <4>1, <4>2
      <4>4. QED
        BY <2>2, <2>4, <4>1, <4>3 DEF Written
    <3>3. QED
      BY <3>1, <3>2
  <2>5. ASSUME NEW h \in Hooks, Cleared(h)
        PROVE  exit'[k] = exit[k] /\ \A u \in exit[k] .. exit[k] + 1 : mem'[u] = mem[u]
    <3>1. k # h /\ exit'[k] = exit[k]
      BY <1>0, <2>5 DEF Cleared
    <3>2. \A u \in exit[k] .. exit[k] + 1 : u \in Addrs /\ mem[u] # h
      BY <1>1, <3>1
    <3>3. QED
      BY <2>5, <3>1, <3>2 DEF Cleared
  <2>6. QED
    BY <1>3, <2>1, <2>2, <2>3, <2>4, <2>5, MemorySteps
<1>4. CASE UNCHANGED vars
  BY <1>1, <1>4 DEF vars
<1>5. QED
  BY <1>2, <1>3, <1>4 DEF Next

(* What the file holds stays.                                              *)
LEMMA NextSegments ==
  ASSUME FarFromTop
  PROVE  IInv /\ [Next]_vars => SegmentsAreUntouched'
<1> SUFFICES ASSUME IInv, [Next]_vars, elf' # None,
                    NEW i \in DOMAIN LayoutOf[elf'].segs,
                    NEW u \in LayoutOf[elf'].segs[i].start .. LayoutOf[elf'].segs[i].end - 1
             PROVE  mem'[u] = "data"
  BY DEF SegmentsAreUntouched
<1>0. "data" \notin Hooks /\ TypeOK
  BY ExitAssumption DEF IInv
<1>1. CASE Load
  <2>1. elf' \in Files /\ mem' = [v \in Addrs |-> Contents(LayoutOf[elf'], v)]
    BY <1>1 DEF Load
  <2> DEFINE segs == LayoutOf[elf'].segs
  <2>2. segs \in Seq([start : Nat, fileEnd : Nat, end : Nat, x : BOOLEAN, r : BOOLEAN])
    BY <2>1, LayoutAssumption
  <2>3. segs[i] \in [start : Nat, fileEnd : Nat, end : Nat, x : BOOLEAN, r : BOOLEAN]
    <3> HIDE DEF segs
    <3>1. i \in DOMAIN segs
      BY DEF segs
    <3>2. QED
      BY <2>2, <3>1, LenProperties, ElementOfSeq
  <2>4. segs[i].start \in Nat /\ segs[i].end \in Nat /\ segs[i].end <= Size
    <3>1. PageEnd(segs[i].end) <= Size
      BY <2>1, LayoutAssumption
    <3>2. PageEnd(segs[i].end) \in Nat /\ segs[i].end <= PageEnd(segs[i].end)
      BY <2>3, Alignment, ExitAssumption DEF PageEnd
    <3>3. QED
      BY <2>3, <3>1, <3>2, ExitAssumption
  <2>5. u \in Addrs /\ u >= segs[i].start /\ u < segs[i].end
    BY <2>4, ExitAssumption DEF Addrs
  <2>6. Contents(LayoutOf[elf'], u) = "data"
    BY <2>5 DEF Contents
  <2>7. QED
    BY <2>1, <2>5, <2>6
<1>2. CASE Unload
  BY <1>2 DEF Unload
<1>3. ASSUME NEW t \in Threads,
             (\E h \in Hooks : HookCall(t, h) \/ UnhookCall(t, h)) \/ Lock(t) \/ GoesOn(t)
      PROVE  mem'[u] = "data"
  <2>1. elf # None /\ elf' = elf
    BY <1>3, MemorySteps
  <2>2. u \in Addrs /\ \A n \in DOMAIN Gaps : u \notin Gaps[n].start .. Gaps[n].end - 1
    BY <1>0, <2>1, InMemory
  <2>3. mem[u] = "data"
    BY <2>1 DEF IInv, SegmentsAreUntouched
  <2>4. CASE Untouched
    BY <2>3, <2>4 DEF Untouched
  <2>5. ASSUME NEW n \in DOMAIN Gaps, Filled(n) PROVE mem'[u] = "data"
    <3>1. u # Gaps[n].start
      BY <1>0, <2>1, <2>2, InMemory
    <3>2. QED
      BY <2>2, <2>3, <2>5, <3>1 DEF Filled
  <2>6. ASSUME NEW n \in DOMAIN Gaps, NEW h \in Hooks, NEW place \in Addrs, Written(n, h, place)
        PROVE  mem'[u] = "data"
    <3>1. /\ Gaps[n].start \in Nat /\ Gaps[n].end \in Nat /\ place \in Nat
          /\ Gaps[n].start <= place /\ place + 2 <= Gaps[n].end
      BY <1>0, <2>1, <2>6, GapsHere, ExitAssumption DEF Written, SomeGap, Addrs
    <3>2. place .. place + 1 \subseteq Gaps[n].start .. Gaps[n].end - 1
      BY <3>1
    <3>3. QED
      BY <2>2, <2>3, <2>6, <3>2 DEF Written
  <2>7. ASSUME NEW h \in Hooks, Cleared(h) PROVE mem'[u] = "data"
    BY <1>0, <2>2, <2>3, <2>7 DEF Cleared
  <2>8. QED
    BY <1>3, <2>4, <2>5, <2>6, <2>7, MemorySteps
<1>4. CASE UNCHANGED vars
  BY <1>4 DEF vars, IInv, SegmentsAreUntouched
<1>5. QED
  BY <1>1, <1>2, <1>3, <1>4 DEF Next

----------------------------------------------------------------------------
LEMMA InitIInv == Init => IInv
<1> SUFFICES ASSUME Init PROVE IInv
  OBVIOUS
<1>1. \A t \in Threads : th[t] = Idle /\ ~ Works(t)
  BY DEF Init, Works, At, Idle
<1>2. \A h \in Hooks : exit[h] = None /\ exit[h] \notin Addrs
  BY ExitAssumption DEF Init, Addrs
<1>3. TypeOK
  BY DEF Init, TypeOK
<1>4. BlockPhases /\ Exclusion /\ SearchPhases
  BY <1>1 DEF BlockPhases, Exclusion, SearchPhases, Idle
<1>5. FilePhases /\ ToFillAreEmpty /\ SegmentsAreUntouched
  BY <1>1, <1>2 DEF Init, FilePhases, ToFillAreEmpty, SegmentsAreUntouched
<1>6. ExitsFit /\ LiveExitsAreIntact /\ ExitsAreInReach
  BY <1>2 DEF ExitsFit, LiveExitsAreIntact, ExitsAreInReach
<1>7. QED
  BY <1>3, <1>4, <1>5, <1>6 DEF IInv

(* The inductive invariant holds in every state.                           *)
THEOREM Invariance == ASSUME FarFromTop PROVE Spec => []IInv
<1>1. IInv /\ [Next]_vars => IInv'
  BY NextTypeOK, NextControl, NextSearchPhases, NextToFillAreEmpty, NextExits, NextSegments DEF IInv
<1>2. QED
  BY InitIInv, <1>1, PTL DEF Spec

(* The state keeps its types.                                              *)
THEOREM TypeCorrect == ASSUME FarFromTop PROVE Spec => []TypeOK
<1>1. IInv => TypeOK
  BY DEF IInv
<1>2. QED
  BY Invariance, <1>1, PTL

(* No fill, allocation or release touches an exit that is in use, although *)
(* nothing but the memory says that it is (sh_exit.c).                     *)
THEOREM ExitsStayIntact == ASSUME FarFromTop PROVE Spec => []LiveExitsAreIntact
<1>1. IInv => LiveExitsAreIntact
  BY DEF IInv
<1>2. QED
  BY Invariance, <1>1, PTL

(* Nothing is ever written to what the file holds in memory.               *)
THEOREM SegmentsStayUntouched == ASSUME FarFromTop PROVE Spec => []SegmentsAreUntouched
<1>1. IInv => SegmentsAreUntouched
  BY DEF IInv
<1>2. QED
  BY Invariance, <1>1, PTL

(* Every exit lies where the short jump reaches it.                        *)
THEOREM ExitsStayInReach == ASSUME FarFromTop PROVE Spec => []ExitsAreInReach
<1>1. IInv => ExitsAreInReach
  BY DEF IInv
<1>2. QED
  BY Invariance, <1>1, PTL

----------------------------------------------------------------------------
(* Signals.  A step of a thread that is not in a protected block, or that  *)
(* stays in one.                                                           *)
LEMMA OutsideSteps ==
  ASSUME IInv, NEW t \in Threads,
         \/ \E h \in Hooks : HookCall(t, h) \/ UnhookCall(t, h)
         \/ Lock(t) \/ Jump(t) \/ Patch(t) \/ UnlockExit(t)
  PROVE  tids' = tids /\ th[t].pc \notin ProtectedPcs /\ th'[t].pc \notin ProtectedPcs \cup {"crash"}
<1>1. th \in [Threads -> {Idle} \cup Doings]
  BY DEF IInv, TypeOK, Doings
<1>2. tids' = tids /\ th[t].pc \notin ProtectedPcs
  BY DEF HookCall, UnhookCall, Lock, Jump, Patch, UnlockExit, At, ProtectedPcs
<1>3. th' = [th EXCEPT ![t] = Idle] => th'[t].pc = "idle"
  BY <1>1 DEF Idle
<1>4. ASSUME NEW pc, NEW h, NEW block, th' = [th EXCEPT ![t] = Doing(pc, h, block)]
      PROVE  th'[t].pc = pc
  BY <1>1, <1>4 DEF Doing
<1>5. ASSUME Works(t), Goto(t, "protect") PROVE th'[t].pc = "protect"
  BY <1>5, GotoEffect DEF IInv, Pcs
<1>6. ASSUME Undo(t) PROVE th'[t].pc \in {"idle", "lock"}
  <2>1. \/ th' = [th EXCEPT ![t] = Idle]
        \/ th' = [th EXCEPT ![t] = Doing("lock", th[t].h, "free")]
    BY <1>6 DEF Undo
  <2>2. th'[t].pc = "idle" \/ th'[t].pc = "lock"
    BY <1>3, <1>4, <2>1, Zenon
  <2>3. QED
    BY <2>2
<1>7. ASSUME NEW h \in Hooks, HookCall(t, h) PROVE th'[t].pc \in {"jump", "lock"}
  <2>1. \/ th' = [th EXCEPT ![t] = Doing("jump", h, "rewrite")]
        \/ th' = [th EXCEPT ![t] = Doing("lock", h, "alloc")]
    BY <1>7 DEF HookCall
  <2>2. QED
    BY <1>4, <2>1
<1>8. ASSUME NEW h \in Hooks, UnhookCall(t, h) PROVE th'[t].pc \in {"idle", "lock"}
  <2>1. (th' = th /\ th[t].pc = "idle") \/ th' = [th EXCEPT ![t] = Doing("lock", h, "free")]
    BY <1>8 DEF UnhookCall, At
  <2>2. th'[t].pc = "idle" \/ th'[t].pc = "lock"
    BY <1>4, <2>1, Zenon
  <2>3. QED
    BY <2>2
<1>9. Lock(t) => th'[t].pc = "protect"
  BY <1>5 DEF Lock, Works, At
<1>10. Jump(t) => th'[t].pc \in {"protect", "idle", "lock"}
  BY <1>5, <1>6 DEF Jump, Works, At
<1>11. ASSUME Patch(t) PROVE th'[t].pc \in {"idle", "lock"}
  <2>1. th' = [th EXCEPT ![t] = Idle] \/ Undo(t)
    BY <1>11 DEF Patch
  <2>2. QED
    BY <1>3, <1>6, <2>1
<1>12. ASSUME UnlockExit(t) PROVE th'[t].pc \in {"jump", "idle"}
  <2>1. \/ th' = [th EXCEPT ![t] = Idle]
        \/ th' = [th EXCEPT ![t] = Doing("jump", th[t].h, "rewrite")]
    BY <1>12 DEF UnlockExit
  <2>2. th'[t].pc = "idle" \/ th'[t].pc = "jump"
    BY <1>3, <1>4, <2>1, Zenon
  <2>3. QED
    BY <2>2
<1>13. th'[t].pc \in {"jump", "lock", "idle", "protect"}
  BY <1>7, <1>8, <1>9, <1>10, <1>11, <1>12
<1>14. QED
  BY <1>2, <1>13 DEF ProtectedPcs

LEMMA ProtectedSteps ==
  ASSUME FarFromTop, IInv, "fill" \notin Faults, NEW t \in Threads,
         Fill(t) \/ Place(t) \/ WriteExit(t) \/ NoMoreGaps(t) \/ Clear(t) \/ Rewrite(t)
  PROVE  /\ tids' = tids /\ th[t].pc \in ProtectedPcs
         /\ th'[t].block = th[t].block
         /\ \/ th'[t].pc \in ProtectedPcs
            \/ th'[t].pc = "crash" /\ ~ \E i \in SlotsOf(t) : tids[i].block = th[t].block
<1>1. tids' = tids /\ th[t].pc \in ProtectedPcs /\ Works(t)
  BY DEF Fill, Place, WriteExit, NoMoreGaps, Clear, Rewrite, At, ProtectedPcs, Works
<1>2. th[t] \in Doings /\ th \in [Threads -> {Idle} \cup Doings]
  BY <1>1, WorkersAreInPhase
<1>3. ASSUME NEW pc \in ProtectedPcs \cup {"crash"}, Goto(t, pc)
      PROVE  th'[t].block = th[t].block /\ th'[t].pc = pc
  <2>1. pc \in Pcs
    BY DEF Pcs
  <2>2. QED
    BY <1>1, <1>3, <2>1, GotoEffect DEF IInv
<1>4. ASSUME NextGap(t) PROVE th'[t].block = th[t].block /\ th'[t].pc = "fill"
  BY <1>2, <1>4 DEF NextGap, Doings
<1>5. ASSUME Signal(t)
      PROVE  \E pc \in {"unprotect", "crash"} :
               /\ Goto(t, pc)
               /\ pc = "crash" => ~ \E i \in SlotsOf(t) : tids[i].block = th[t].block
  BY <1>5 DEF Signal
<1>6. \/ \E pc \in ProtectedPcs : Goto(t, pc)
      \/ NextGap(t) \/ Signal(t)
      \/ \E place : th' = [th EXCEPT ![t].pc = "write", ![t].place = place]
  <2>1. CASE Fill(t)
    <3>1. \A ok \in Succeeds("fill") : ok
      BY DEF Succeeds
    <3>2. Goto(t, "place")
      BY <2>1, <3>1 DEF Fill
    <3>3. QED
      BY <3>2 DEF ProtectedPcs
  <2>2. CASE Place(t)
    BY <2>2 DEF Place
  <2>3. CASE WriteExit(t) \/ NoMoreGaps(t) \/ Clear(t) \/ Rewrite(t)
    BY <2>3 DEF WriteExit, NoMoreGaps, Clear, Rewrite, ProtectedPcs
  <2>4. QED
    BY <2>1, <2>2, <2>3
<1>7. ASSUME NEW place, th' = [th EXCEPT ![t].pc = "write", ![t].place = place]
      PROVE  th'[t].block = th[t].block /\ th'[t].pc = "write"
  BY <1>2, <1>7 DEF Doings
<1>8. QED
  BY <1>1, <1>3, <1>4, <1>5, <1>6, <1>7 DEF ProtectedPcs

(* If mprotect() never fails while a gap is filled (it returns from the    *)
(* protected block then, and the slot stays), every signal in a protected  *)
(* block is caught there, and outside of the blocks nobody has a slot      *)
(* (bytesig_protect() and bytesig_unprotect()).                            *)
LEMMA NextSignals ==
  ASSUME FarFromTop, "fill" \notin Faults
  PROVE  IInv /\ SignalsAreCaught /\ [Next]_vars => SignalsAreCaught'
<1> DEFINE Caught(t) == /\ th[t].pc # "crash"
                        /\ th[t].pc \in ProtectedPcs => \E i \in SlotsOf(t) : tids[i].block = th[t].block
                        /\ th[t].pc \notin ProtectedPcs => SlotsOf(t) = {}
<1>0. SignalsAreCaught <=> \A t \in Threads : Caught(t)
  BY DEF SignalsAreCaught, At
<1>1. SignalsAreCaught' <=> \A t \in Threads : Caught(t)'
  BY DEF SignalsAreCaught, At
<1> SUFFICES ASSUME IInv, \A t \in Threads : Caught(t), [Next]_vars,
                    NEW s \in Threads
             PROVE  Caught(s)'
  BY <1>0, <1>1
<1>2. ASSUME th'[s] = th[s], tids' = tids PROVE Caught(s)'
  BY <1>2 DEF SlotsOf
<1>3. CASE Load \/ Unload \/ UNCHANGED vars
  BY <1>2, <1>3 DEF Load, Unload, vars
<1>4. ASSUME NEW t \in Threads,
             (\E h \in Hooks : HookCall(t, h) \/ UnhookCall(t, h)) \/ Lock(t) \/ GoesOn(t)
      PROVE  Caught(s)'
  <2>0. /\ \A r \in Threads : r # t => th'[r] = th[r]
        /\ tids \in [1 .. Shields -> [t : Threads, block : Blocks] \cup {None}]
    BY <1>4, ThreadSteps DEF StepsOn, IInv, TypeOK
  <2>1. CASE \/ \E h \in Hooks : HookCall(t, h) \/ UnhookCall(t, h)
             \/ Lock(t) \/ Jump(t) \/ Patch(t) \/ UnlockExit(t)
    <3>1. tids' = tids /\ th[t].pc \notin ProtectedPcs /\ th'[t].pc \notin ProtectedPcs \cup {"crash"}
      BY <2>1, OutsideSteps
    <3>2. SlotsOf(t)' = SlotsOf(t) /\ SlotsOf(t) = {}
      BY <3>1 DEF SlotsOf
    <3>3. Caught(t)'
      BY <3>1, <3>2
    <3>4. QED
      BY <1>2, <2>0, <3>1, <3>3
  <2>2. CASE Fill(t) \/ Place(t) \/ WriteExit(t) \/ NoMoreGaps(t) \/ Clear(t) \/ Rewrite(t)
    <3>1. /\ tids' = tids /\ th[t].pc \in ProtectedPcs /\ th'[t].block = th[t].block
          /\ \/ th'[t].pc \in ProtectedPcs
             \/ th'[t].pc = "crash" /\ ~ \E i \in SlotsOf(t) : tids[i].block = th[t].block
      BY <2>2, ProtectedSteps
    <3>2. SlotsOf(t)' = SlotsOf(t) /\ \E i \in SlotsOf(t) : tids[i].block = th[t].block
      BY <3>1 DEF SlotsOf
    <3>3. th'[t].pc \in ProtectedPcs /\ th'[t].pc # "crash"
      BY <3>1, <3>2 DEF ProtectedPcs
    <3>4. Caught(t)'
      BY <3>1, <3>2, <3>3
    <3>5. QED
      BY <1>2, <2>0, <3>1, <3>4
  <2>3. CASE Protect(t)
    <3>1. th[t].pc = "protect" /\ Works(t)
      BY <2>3 DEF Protect, At, Works
    <3>2. SlotsOf(t) = {}
      BY <3>1 DEF ProtectedPcs
    <3>3. PICK i \in 1 .. Shields :
            tids[i] = None /\ tids' = [tids EXCEPT ![i] = [t |-> t, block |-> th[t].block]]
      BY <2>3, <3>2 DEF Protect
    <3>4. th'[t].pc \in {"fill", "clear", "rewrite"} /\ th'[t].block = th[t].block
      <4> DEFINE pc == CASE th[t].block = "alloc" -> "fill" [] th[t].block = "free" -> "clear"
                         [] th[t].block = "rewrite" -> "rewrite"
      <4>1. Goto(t, pc)
        BY <2>3 DEF Protect
      <4>2. pc \in {"fill", "clear", "rewrite"}
        BY <3>1, WorkersAreInPhase DEF Blocks
      <4> HIDE DEF pc
      <4>3. pc \in Pcs
        BY <4>2 DEF Pcs, ProtectedPcs
      <4>4. QED
        BY <3>1, <4>1, <4>2, <4>3, GotoEffect DEF IInv
    <3>5. tids'[i] = [t |-> t, block |-> th[t].block] /\ None \notin Threads
      BY <2>0, <3>3, ExitAssumption
    <3>6. CASE s = t
      <4>1. tids'[i] # None
        <5>1. [t |-> t, block |-> th[t].block] \in [t : Threads, block : Blocks]
          BY <3>1, WorkersAreInPhase
        <5>2. CASE tids'[i] = None
          BY <3>5, <5>1, <5>2, ExitAssumption
        <5>3. QED
          BY <5>2
      <4>2. i \in SlotsOf(t)' /\ tids'[i].block = th'[t].block
        BY <3>4, <3>5, <4>1 DEF SlotsOf
      <4>3. QED
        BY <3>4, <3>6, <4>2 DEF ProtectedPcs
    <3>7. CASE s # t
      <4>1. th'[s] = th[s]
        BY <2>0, <3>7
      <4>2. \A j \in 1 .. Shields : j # i => tids'[j] = tids[j]
        BY <2>0, <3>3
      <4>3. i \notin SlotsOf(s) /\ i \notin SlotsOf(s)'
        BY <3>3, <3>5, <3>7 DEF SlotsOf
      <4>4. SlotsOf(s)' = SlotsOf(s) /\ \A j \in SlotsOf(s) : tids'[j] = tids[j]
        BY <4>2, <4>3 DEF SlotsOf
      <4>5. QED
        BY <4>1, <4>4
    <3>8. QED
      BY <3>6, <3>7
  <2>4. CASE Unprotect(t)
    <3>1. /\ th[t].pc = "unprotect" /\ Works(t)
          /\ \E pc \in {"patch", "unlock"} : Goto(t, pc)
      BY <2>4 DEF Unprotect, Unprotected, At, Works
    <3>2. tids' = [i \in 1 .. Shields |-> IF i \in SlotsOf(t) THEN None ELSE tids[i]]
      BY <2>0, <2>4 DEF Unprotect
    <3>3. th'[t].pc \in {"patch", "unlock"}
      BY <3>1, GotoEffect DEF IInv, Pcs
    <3>4. CASE s = t
      <4>1. SlotsOf(t)' = {}
        BY <3>2 DEF SlotsOf
      <4>2. QED
        BY <3>3, <3>4, <4>1 DEF ProtectedPcs
    <3>5. CASE s # t
      <4>1. th'[s] = th[s]
        BY <2>0, <3>5
      <4>2. \A j \in SlotsOf(s) : j \notin SlotsOf(t)
        BY <3>5 DEF SlotsOf
      <4>3. SlotsOf(s)' = SlotsOf(s) /\ \A j \in SlotsOf(s) : tids'[j] = tids[j]
        BY <3>2, <4>2 DEF SlotsOf
      <4>4. QED
        BY <4>1, <4>3
    <3>6. QED
      BY <3>4, <3>5
  <2>5. QED
    BY <1>4, <2>1, <2>2, <2>3, <2>4 DEF GoesOn
<1>5. QED
  BY <1>3, <1>4 DEF Next

(* bytesig.c: a signal in a protected block finds the slot of that block,  *)
(* and outside of one a thread has no slot, as long as mprotect() does not *)
(* fail in sh_exit_fill_zero(), which then returns from inside the block.  *)
THEOREM SignalsStayCaught ==
  ASSUME FarFromTop, "fill" \notin Faults PROVE Spec => []SignalsAreCaught
<1>1. Init => SignalsAreCaught
  <2> SUFFICES ASSUME Init PROVE SignalsAreCaught
    OBVIOUS
  <2>1. \A t \in Threads : th[t].pc = "idle" /\ SlotsOf(t) = {}
    BY DEF Init, Idle, SlotsOf
  <2>2. QED
    BY <2>1 DEF SignalsAreCaught, At, ProtectedPcs
<1>2. QED
  BY Invariance, <1>1, NextSignals, PTL DEF Spec
===============================================================================
