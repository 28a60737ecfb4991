---------------------------- MODULE ShRewriteLemmas ---------------------------
(***************************************************************************)
(* Proofs about the rewriting of a function's head.                        *)
(***************************************************************************)
EXTENDS ShRewrite, TLAPS, WellFoundedInduction, SequenceTheorems

LEMMA NatMinimum ==
  ASSUME NEW T, T \subseteq Nat, T # {}
  PROVE  \E n0 \in T : \A m \in T : n0 <= m
<1> DEFINE R == OpToRel(<, Nat)
<1>1. \E n0 \in T : \A m \in T : ~ (<<m, n0>> \in R)
  BY WFMin, NatLessThanWellFounded
<1>2. \A m, k \in Nat : <<m, k>> \in R <=> m < k
  BY DEF OpToRel
<1> HIDE DEF R
<1>3. PICK n0 \in T : \A m \in T : ~ (<<m, n0>> \in R)
  BY <1>1, Zenon
<1>4. \A m \in T : ~ (m < n0)
  BY <1>2, <1>3, Zenon
<1>5. \A m \in T : n0 <= m
  BY <1>4
<1>6. QED
  BY <1>5

----------------------------------------------------------------------------
(* Sums: of the sizes of instructions and of the lengths they become.      *)
IsSum(f, g, c, m) == f = [k \in 0 .. m |-> IF k = 0 THEN c ELSE f[k - 1] + g[k]]

LEMMA SumExists ==
  ASSUME NEW m \in Nat, NEW c \in Int, NEW g, \A k \in 1 .. m : g[k] \in Int
  PROVE  \E f : IsSum(f, g, c, m)
<1> DEFINE T == {i \in Nat : i <= m /\ ~ \E f : IsSum(f, g, c, i)}
<1> SUFFICES ASSUME T # {} PROVE FALSE
  OBVIOUS
<1>1. PICK i \in T : \A k \in T : i <= k
  BY NatMinimum
<1>2. CASE i = 0
  <2>1. IsSum([k \in 0 .. 0 |-> c], g, c, 0)
    BY DEF IsSum
  <2>2. QED
    BY <1>1, <1>2, <2>1
<1>3. CASE i > 0
  <2>1. i - 1 \in Nat /\ i - 1 \notin T /\ i - 1 <= m
    BY <1>1, <1>3
  <2>2. PICK h : IsSum(h, g, c, i - 1)
    BY <2>1
  <2> DEFINE f == [k \in 0 .. i |-> IF k = i THEN h[i - 1] + g[i] ELSE h[k]]
  <2>3. \A k \in 0 .. i - 1 : h[k] = IF k = 0 THEN c ELSE h[k - 1] + g[k]
    BY <2>2 DEF IsSum
  <2>4. \A k \in 0 .. i : f[k] = IF k = 0 THEN c ELSE f[k - 1] + g[k]
    BY <2>1, <2>3, <1>3
  <2>5. IsSum(f, g, c, i)
    BY <2>4 DEF IsSum
  <2>6. QED
    BY <1>1, <2>5
<1>4. QED
  BY <1>1, <1>2, <1>3

LEMMA SumUnique ==
  ASSUME NEW m \in Nat, NEW l \in Nat, l <= m, NEW c \in Int, NEW g, NEW d,
         NEW f, NEW h, IsSum(f, g, c, m), IsSum(h, d, c, l), \A k \in 1 .. l : d[k] = g[k]
  PROVE  \A k \in 0 .. l : f[k] = h[k]
<1> DEFINE T == {k \in 0 .. l : f[k] # h[k]}
<1> SUFFICES ASSUME T # {} PROVE FALSE
  OBVIOUS
<1>1. PICK i \in T : \A k \in T : i <= k
  <2>1. T \subseteq Nat
    OBVIOUS
  <2>2. QED
    BY <2>1, NatMinimum
<1>2. /\ \A k \in 0 .. m : f[k] = IF k = 0 THEN c ELSE f[k - 1] + g[k]
      /\ \A k \in 0 .. l : h[k] = IF k = 0 THEN c ELSE h[k - 1] + d[k]
  BY DEF IsSum
<1>3. i # 0
  BY <1>2
<1>4. i - 1 \in 0 .. l /\ i - 1 \notin T
  BY <1>1, <1>3
<1>5. QED
  BY <1>1, <1>2, <1>3, <1>4

LEMMA SumType ==
  ASSUME NEW m \in Nat, NEW c \in Int, NEW g, \A k \in 1 .. m : g[k] \in Int, NEW f, IsSum(f, g, c, m)
  PROVE  \A k \in 0 .. m : f[k] \in Int
<1> DEFINE T == {k \in 0 .. m : f[k] \notin Int}
<1> SUFFICES ASSUME T # {} PROVE FALSE
  OBVIOUS
<1>1. PICK i \in T : \A k \in T : i <= k
  <2>1. T \subseteq Nat
    OBVIOUS
  <2>2. QED
    BY <2>1, NatMinimum
<1>2. \A k \in 0 .. m : f[k] = IF k = 0 THEN c ELSE f[k - 1] + g[k]
  BY DEF IsSum
<1>3. i # 0
  BY <1>2
<1>4. i - 1 \in 0 .. m /\ i - 1 \notin T
  BY <1>1, <1>3
<1>5. QED
  BY <1>1, <1>2, <1>3, <1>4

(* Sizes of a prefix: the equation of SizeBefore.                          *)
Sizes(insts, m) == [k \in 1 .. m |-> insts[k].size]

LEMMA SizeBeforeIsSum ==
  ASSUME NEW insts, NEW i \in Nat, i > 0, \A k \in 1 .. i - 1 : insts[k].size \in Int
  PROVE  \E sum : IsSum(sum, Sizes(insts, i - 1), 0, i - 1) /\ SizeBefore(insts, i) = sum[i - 1]
<1> DEFINE P(sum) == sum = [k \in 0 .. i - 1 |-> IF k = 0 THEN 0 ELSE sum[k - 1] + insts[k].size]
<1> DEFINE s == CHOOSE sum : P(sum)
<1> DEFINE z == Sizes(insts, i - 1)
<1>0. \A k \in 1 .. i - 1 : z[k] = insts[k].size /\ z[k] \in Int
  BY DEF Sizes
<1>1. PICK sum : IsSum(sum, z, 0, i - 1)
  <2> HIDE DEF z
  <2>1. i - 1 \in Nat
    OBVIOUS
  <2>2. QED
    BY <1>0, <2>1, SumExists
<1>2. \A f : IsSum(f, z, 0, i - 1) <=> P(f)
  <2> SUFFICES ASSUME NEW f PROVE IsSum(f, z, 0, i - 1) <=> P(f)
    OBVIOUS
  <2>1. \A k \in 0 .. i - 1 : (IF k = 0 THEN 0 ELSE f[k - 1] + z[k]) = (IF k = 0 THEN 0 ELSE f[k - 1] + insts[k].size)
    <3> HIDE DEF z
    <3>1. QED
      BY <1>0
  <2>2. [k \in 0 .. i - 1 |-> IF k = 0 THEN 0 ELSE f[k - 1] + z[k]] = [k \in 0 .. i - 1 |-> IF k = 0 THEN 0 ELSE f[k - 1] + insts[k].size]
    <3> HIDE DEF z
    <3>1. QED
      BY <2>1
  <2>3. QED
    BY <2>2, Zenon DEF IsSum
<1>3. P(sum)
  BY <1>1, <1>2
<1>4. SizeBefore(insts, i) = s[i - 1]
  BY DEF SizeBefore
<1> HIDE DEF P
<1>5. P(s)
  BY <1>3, Zenon
<1>6. QED
  BY <1>2, <1>4, <1>5, Zenon
LEMMA SumShift ==
  ASSUME NEW m \in Nat, NEW c \in Int, NEW g, NEW d, NEW f, NEW h,
         IsSum(f, g, c, m), IsSum(h, d, 0, m), \A k \in 1 .. m : d[k] = g[k] /\ g[k] \in Int
  PROVE  \A k \in 0 .. m : f[k] = c + h[k]
<1> DEFINE T == {k \in 0 .. m : f[k] # c + h[k]}
<1> SUFFICES ASSUME T # {} PROVE FALSE
  OBVIOUS
<1>1. PICK i \in T : \A k \in T : i <= k
  <2>1. T \subseteq Nat
    OBVIOUS
  <2>2. QED
    BY <2>1, NatMinimum
<1>2. /\ \A k \in 0 .. m : f[k] = IF k = 0 THEN c ELSE f[k - 1] + g[k]
      /\ \A k \in 0 .. m : h[k] = IF k = 0 THEN 0 ELSE h[k - 1] + d[k]
  BY DEF IsSum
<1>3. i # 0
  BY <1>2
<1>4. i - 1 \in 0 .. m /\ i - 1 \notin T
  BY <1>1, <1>3
<1>5. \A k \in 0 .. m : h[k] \in Int
  <2>1. \A k \in 1 .. m : d[k] \in Int
    OBVIOUS
  <2>2. 0 \in Int
    OBVIOUS
  <2>3. QED
    BY <2>1, <2>2, SumType
<1>6. QED
  BY <1>1, <1>2, <1>3, <1>4, <1>5

(* A sequence of numbers each of which is larger than the one before it.   *)
LEMMA Increasing ==
  ASSUME NEW m \in Nat, NEW f, \A k \in 1 .. m : f[k] \in Int,
         \A k \in 1 .. m - 1 : f[k + 1] >= f[k] + 1
  PROVE  \A i, j \in 1 .. m : i <= j => f[j] >= f[i] + (j - i)
<1> SUFFICES ASSUME NEW i \in 1 .. m PROVE \A j \in 1 .. m : i <= j => f[j] >= f[i] + (j - i)
  OBVIOUS
<1> DEFINE T == {j \in i .. m : ~ (f[j] >= f[i] + (j - i))}
<1> SUFFICES ASSUME T # {} PROVE FALSE
  OBVIOUS
<1>1. PICK j \in T : \A k \in T : j <= k
  <2>1. T \subseteq Nat
    OBVIOUS
  <2>2. QED
    BY <2>1, NatMinimum
<1>2. j # i
  OBVIOUS
<1>3. j - 1 \in i .. m /\ j - 1 \notin T
  BY <1>1, <1>2
<1>4. f[j - 1] >= f[i] + (j - 1 - i) /\ f[j] >= f[j - 1] + 1
  BY <1>3
<1>5. QED
  BY <1>1, <1>3, <1>4

LEMMA SizeBeforeFirst ==
  ASSUME NEW insts
  PROVE  SizeBefore(insts, 1) = 0
<1>1. PICK sum : IsSum(sum, Sizes(insts, 1 - 1), 0, 1 - 1) /\ SizeBefore(insts, 1) = sum[1 - 1]
  BY SizeBeforeIsSum
<1>2. QED
  BY <1>1 DEF IsSum

LEMMA SizeBeforeNext ==
  ASSUME NEW insts, NEW i \in Nat, i > 0, \A k \in 1 .. i : insts[k].size \in Int
  PROVE  /\ SizeBefore(insts, i) \in Int
         /\ SizeBefore(insts, i + 1) = SizeBefore(insts, i) + insts[i].size
<1> DEFINE y1 == Sizes(insts, i - 1)
           z1 == Sizes(insts, i)
<1>1. \A k \in 1 .. i - 1 : y1[k] = insts[k].size /\ y1[k] = z1[k]
  BY DEF Sizes
<1>2. \A k \in 1 .. i : z1[k] = insts[k].size
  BY DEF Sizes
<1>3. PICK f : IsSum(f, y1, 0, i - 1) /\ SizeBefore(insts, i) = f[i - 1]
  BY SizeBeforeIsSum
<1>4. i + 1 - 1 = i /\ i + 1 \in Nat /\ i + 1 > 0
  OBVIOUS
<1>5. PICK h : IsSum(h, z1, 0, i) /\ SizeBefore(insts, i + 1) = h[i]
  BY <1>4, SizeBeforeIsSum
<1> HIDE DEF y1, z1
<1>6. \A k \in 0 .. i - 1 : h[k] = f[k]
  <2> DEFINE l == i - 1
  <2>1. l \in Nat /\ l <= i /\ 0 \in Int
    OBVIOUS
  <2>2. \A k \in 1 .. l : y1[k] = z1[k]
    BY <1>1
  <2>3. IsSum(h, z1, 0, i) /\ IsSum(f, y1, 0, l)
    BY <1>3, <1>5
  <2> HIDE DEF l
  <2>4. \A k \in 0 .. l : h[k] = f[k]
    BY <2>1, <2>2, <2>3, SumUnique
  <2>5. QED
    BY <2>4 DEF l
<1>7. \A k \in 0 .. i : h[k] \in Int
  <2>1. \A k \in 1 .. i : z1[k] \in Int
    BY <1>2
  <2>2. QED
    BY <1>5, <2>1, SumType
<1>8. h[i] = h[i - 1] + z1[i]
  BY <1>5 DEF IsSum
<1>9. QED
  BY <1>2, <1>3, <1>5, <1>6, <1>7, <1>8

LEMMA SizeBeforeSame ==
  ASSUME NEW insts, NEW others, NEW i \in Nat, i > 0,
         \A k \in 1 .. i - 1 : insts[k].size \in Int /\ insts[k].size = others[k].size
  PROVE  SizeBefore(insts, i) = SizeBefore(others, i)
<1> DEFINE y1 == Sizes(insts, i - 1)
           z1 == Sizes(others, i - 1)
<1>1. \A k \in 1 .. i - 1 : y1[k] = z1[k]
  BY DEF Sizes
<1>3. PICK f : IsSum(f, y1, 0, i - 1) /\ SizeBefore(insts, i) = f[i - 1]
  BY SizeBeforeIsSum
<1>5. PICK h : IsSum(h, z1, 0, i - 1) /\ SizeBefore(others, i) = h[i - 1]
  BY SizeBeforeIsSum
<1> HIDE DEF y1, z1
<1>6. \A k \in 0 .. i - 1 : h[k] = f[k]
  <2> DEFINE l == i - 1
  <2>1. l \in Nat /\ l <= l /\ 0 \in Int
    OBVIOUS
  <2>2. \A k \in 1 .. l : y1[k] = z1[k]
    BY <1>1
  <2>3. IsSum(h, z1, 0, l) /\ IsSum(f, y1, 0, l)
    BY <1>3, <1>5
  <2> HIDE DEF l
  <2>4. \A k \in 0 .. l : h[k] = f[k]
    BY <2>1, <2>2, <2>3, SumUnique
  <2>5. QED
    BY <2>4 DEF l
<1>7. QED
  BY <1>3, <1>5, <1>6

----------------------------------------------------------------------------
(* Functions and the addresses of their instructions.                      *)
LEMMA InstSizes ==
  ASSUME NEW f \in Functions
  PROVE  /\ f.arch \in {"arm64", "arm", "thumb"} /\ f.start \in Nat
         /\ f.insts \in Seq(Insts(f.arch)) /\ Len(f.insts) \in Nat /\ Len(f.insts) >= 1
         /\ \A i \in 1 .. Len(f.insts) : /\ f.insts[i] \in Insts(f.arch)
                                         /\ f.insts[i].size \in 1 .. 9
                                         /\ f.arch # "thumb" => f.insts[i].size = 1
<1>1. /\ f.arch \in {"arm64", "arm", "thumb"} /\ f.start \in Nat
      /\ f.insts \in Seq(Insts(f.arch)) /\ f.insts # << >>
  BY RewriteAssumption DEF IsFunction
<1>2. Len(f.insts) \in Nat /\ Len(f.insts) >= 1
  BY <1>1, EmptySeq
<1>3. \A i \in 1 .. Len(f.insts) : f.insts[i] \in Insts(f.arch)
  BY <1>1, <1>2, ElementOfSeq
<1>4. \A inst \in A64!Insts : inst.size = 1
  BY DEF A64!Insts, A64!InstsOf
<1>5. \A inst \in A32!Insts : inst.size = 1
  BY DEF A32!Insts, A32!InstsOf
<1>6. \A inst \in Thumb!Insts16 \cup Thumb!Insts32 : inst.size \in {1, 2}
  BY DEF Thumb!Insts16, Thumb!Insts32, Thumb!InstsOf
<1>7. \A inst \in Thumb!Insts : inst.size \in 1 .. 9
  BY <1>6 DEF Thumb!Insts
<1>8. \A inst \in Insts(f.arch) : inst.size \in 1 .. 9 /\ (f.arch # "thumb" => inst.size = 1)
  BY <1>1, <1>4, <1>5, <1>7 DEF Insts
<1>9. QED
  BY <1>1, <1>2, <1>3, <1>8

PaddedInsts == fn.insts \o <<Padding>>

LEMMA InstAtPadded ==
  ASSUME fn \in Functions
  PROVE  /\ \A i \in 1 .. Len(fn.insts) + 1 : PaddedInsts[i] = InstAt(i)
         /\ Len(PaddedInsts) = Len(fn.insts) + 1
         /\ \A i \in Nat \ {0} : InstAt(i).size \in 1 .. 9 /\ (fn.arch # "thumb" => InstAt(i).size = 1)
         /\ \A i \in 1 .. Len(fn.insts) : InstAt(i) = fn.insts[i]
<1>1. Padding.size = 1
  BY DEF Padding, Inst
<1>2. /\ fn.insts \in Seq(Insts(fn.arch)) /\ Len(fn.insts) \in Nat
      /\ \A i \in 1 .. Len(fn.insts) : fn.insts[i].size \in 1 .. 9 /\ (fn.arch # "thumb" => fn.insts[i].size = 1)
  BY InstSizes
<1>3. \A i \in Nat \ {0} : InstAt(i).size \in 1 .. 9 /\ (fn.arch # "thumb" => InstAt(i).size = 1)
  BY <1>1, <1>2 DEF InstAt
<1>4. \A i \in 1 .. Len(fn.insts) : InstAt(i) = fn.insts[i]
  BY <1>2 DEF InstAt
<1>5. Len(PaddedInsts) = Len(fn.insts) + 1 /\ \A i \in 1 .. Len(fn.insts) + 1 : PaddedInsts[i] = InstAt(i)
  <2> DEFINE q == fn.insts
             p == Padding
  <2>1. q \in Seq(Insts(fn.arch)) /\ <<p>> \in Seq({p}) /\ Len(<<p>>) = 1 /\ <<p>>[1] = p
    BY <1>2
  <2> HIDE DEF q, p
  <2>2. Len(q \o <<p>>) = Len(q) + 1 /\ \A i \in 1 .. Len(q) + 1 : (q \o <<p>>)[i] = IF i <= Len(q) THEN q[i] ELSE p
    BY <2>1, LenProperties
  <2>3. QED
    BY <2>2 DEF q, p, PaddedInsts, InstAt
<1>6. QED
  BY <1>3, <1>4, <1>5

LEMMA AddressIsSum ==
  ASSUME fn \in Functions, NEW i \in Nat, i > 0
  PROVE  \E sum : /\ IsSum(sum, [k \in 1 .. i - 1 |-> InstAt(k).size], fn.start, i - 1)
                  /\ AddressOf(i) = sum[i - 1]
<1> DEFINE P(sum) == sum = [k \in 0 .. i - 1 |-> IF k = 0 THEN fn.start ELSE sum[k - 1] + InstAt(k).size]
<1> DEFINE s == CHOOSE sum : P(sum)
<1> DEFINE z == [k \in 1 .. i - 1 |-> InstAt(k).size]
<1>0. \A k \in 1 .. i - 1 : z[k] = InstAt(k).size /\ z[k] \in Int
  BY InstAtPadded
<1>1. PICK sum : IsSum(sum, z, fn.start, i - 1)
  <2> HIDE DEF z
  <2>1. i - 1 \in Nat /\ fn.start \in Int
    BY InstSizes
  <2>2. QED
    BY <1>0, <2>1, SumExists
<1>2. \A f : IsSum(f, z, fn.start, i - 1) <=> P(f)
  <2> SUFFICES ASSUME NEW f PROVE IsSum(f, z, fn.start, i - 1) <=> P(f)
    OBVIOUS
  <2>1. \A k \in 0 .. i - 1 : (IF k = 0 THEN fn.start ELSE f[k - 1] + z[k]) = (IF k = 0 THEN fn.start ELSE f[k - 1] + InstAt(k).size)
    <3> HIDE DEF z
    <3>1. QED
      BY <1>0
  <2>2. [k \in 0 .. i - 1 |-> IF k = 0 THEN fn.start ELSE f[k - 1] + z[k]] = [k \in 0 .. i - 1 |-> IF k = 0 THEN fn.start ELSE f[k - 1] + InstAt(k).size]
    <3> HIDE DEF z
    <3>1. QED
      BY <2>1
  <2>3. QED
    BY <2>2, Zenon DEF IsSum
<1>3. P(sum)
  BY <1>1, <1>2
<1>4. AddressOf(i) = s[i - 1]
  BY DEF AddressOf
<1> HIDE DEF P
<1>5. P(s)
  BY <1>3, Zenon
<1>6. QED
  BY <1>2, <1>4, <1>5, Zenon

(* The address of an instruction is that of the function and the sizes of  *)
(* those before it.                                                        *)
LEMMA AddressIsPlace ==
  ASSUME fn \in Functions
  PROVE  /\ \A i \in 1 .. Len(fn.insts) + 2 : AddressOf(i) = fn.start + SizeBefore(PaddedInsts, i)
         /\ \A i \in 1 .. Len(fn.insts) + 1 : AddressOf(i) = Place(fn, i)
<1>0. Len(fn.insts) \in Nat /\ fn.start \in Nat
  BY InstSizes
<1>1. ASSUME NEW i \in 1 .. Len(fn.insts) + 2
      PROVE  AddressOf(i) = fn.start + SizeBefore(PaddedInsts, i)
  <2> DEFINE l == i - 1
             z == [k \in 1 .. l |-> InstAt(k).size]
             y1 == Sizes(PaddedInsts, l)
  <2>1. l \in Nat /\ i \in Nat /\ i > 0 /\ \A k \in 1 .. l : k \in 1 .. Len(fn.insts) + 1 /\ k \in Nat \ {0}
    BY <1>0
  <2>a. \A k \in 1 .. l : PaddedInsts[k] = InstAt(k) /\ InstAt(k).size \in Int
    <3> HIDE DEF l
    <3>1. QED
      BY <2>1, InstAtPadded
  <2>b. \A k \in 1 .. l : y1[k] = PaddedInsts[k].size /\ z[k] = InstAt(k).size
    BY DEF Sizes
  <2>2. \A k \in 1 .. l : y1[k] = z[k] /\ z[k] \in Int /\ PaddedInsts[k].size \in Int
    <3> HIDE DEF l, z, y1
    <3>1. QED
      BY <2>a, <2>b
  <2>3. PICK f : IsSum(f, z, fn.start, l) /\ AddressOf(i) = f[l]
    BY <2>1, AddressIsSum
  <2>4. PICK h : IsSum(h, y1, 0, l) /\ SizeBefore(PaddedInsts, i) = h[l]
    BY <2>1, <2>2, SizeBeforeIsSum
  <2> HIDE DEF z, y1, l
  <2>5. fn.start \in Int
    BY <1>0
  <2>6. \A k \in 0 .. l : f[k] = fn.start + h[k]
    <3>1. \A k \in 1 .. l : y1[k] = z[k] /\ z[k] \in Int
      BY <2>2
    <3>2. IsSum(f, z, fn.start, l) /\ IsSum(h, y1, 0, l) /\ l \in Nat
      BY <2>1, <2>3, <2>4
    <3>3. QED
      BY <2>5, <3>1, <3>2, SumShift
  <2>7. QED
    BY <2>1, <2>3, <2>4, <2>6
<1>2. ASSUME NEW i \in 1 .. Len(fn.insts) + 1
      PROVE  AddressOf(i) = Place(fn, i)
  <2>1. i \in Nat /\ i > 0 /\ i \in 1 .. Len(fn.insts) + 2
    BY <1>0
  <2>2. \A k \in 1 .. i - 1 : k \in 1 .. Len(fn.insts) /\ k \in 1 .. Len(fn.insts) + 1 /\ k \in Nat \ {0}
    BY <1>0
  <2>3. \A k \in 1 .. i - 1 : PaddedInsts[k].size \in Int /\ PaddedInsts[k].size = fn.insts[k].size
    <3> SUFFICES ASSUME NEW k \in 1 .. i - 1 PROVE PaddedInsts[k].size \in Int /\ PaddedInsts[k].size = fn.insts[k].size
      OBVIOUS
    <3>1. PaddedInsts[k] = InstAt(k) /\ InstAt(k) = fn.insts[k] /\ InstAt(k).size \in Int
      BY <2>2, InstAtPadded
    <3>2. QED
      BY <3>1
  <2>4. SizeBefore(PaddedInsts, i) = SizeBefore(fn.insts, i)
    BY <2>1, <2>3, SizeBeforeSame
  <2>5. QED
    BY <1>1, <2>1, <2>4 DEF Place
<1>3. QED
  BY <1>1, <1>2

LEMMA AddressNext ==
  ASSUME fn \in Functions
  PROVE  /\ AddressOf(1) = fn.start
         /\ \A i \in Nat \ {0} : /\ AddressOf(i) \in Nat
                                 /\ AddressOf(i + 1) = AddressOf(i) + InstAt(i).size
                                 /\ AddressOf(i + 1) >= AddressOf(i) + 1
<1>0. fn.start \in Nat
  BY InstSizes
<1>1. AddressOf(1) = fn.start
  <2>1. PICK f : /\ IsSum(f, [k \in 1 .. 1 - 1 |-> InstAt(k).size], fn.start, 1 - 1)
                 /\ AddressOf(1) = f[1 - 1]
    <3>1. 1 \in Nat /\ 1 > 0
      OBVIOUS
    <3>2. QED
      BY <3>1, AddressIsSum, Zenon
  <2>2. QED
    BY <2>1 DEF IsSum
<1>2. ASSUME NEW i \in Nat \ {0}
      PROVE  AddressOf(i) \in Int /\ AddressOf(i + 1) = AddressOf(i) + InstAt(i).size
  <2> DEFINE l == i - 1
             z1 == [k \in 1 .. l |-> InstAt(k).size]
             z == [k \in 1 .. i |-> InstAt(k).size]
  <2>1. l \in Nat /\ l <= i /\ i \in Nat /\ i + 1 \in Nat /\ i + 1 > 0 /\ i + 1 - 1 = i /\ i > 0
    OBVIOUS
  <2>2. PICK f : IsSum(f, z1, fn.start, l) /\ AddressOf(i) = f[l]
    BY <2>1, AddressIsSum
  <2>3. PICK h : IsSum(h, z, fn.start, i) /\ AddressOf(i + 1) = h[i]
    <3> DEFINE j == i + 1
    <3>1. j \in Nat /\ j > 0 /\ j - 1 = i
      OBVIOUS
    <3> HIDE DEF j
    <3>2. \E h : /\ IsSum(h, [k \in 1 .. j - 1 |-> InstAt(k).size], fn.start, j - 1)
                /\ AddressOf(j) = h[j - 1]
      BY <3>1, AddressIsSum, Zenon
    <3>3. \E h : IsSum(h, [k \in 1 .. i |-> InstAt(k).size], fn.start, i) /\ AddressOf(j) = h[i]
      BY <3>1, <3>2, Zenon
    <3>4. QED
      BY <3>3 DEF j
  <2>4. \A k \in 1 .. i : z[k] = InstAt(k).size /\ z[k] \in Int
    BY InstAtPadded
  <2>5. \A k \in 1 .. l : z1[k] = z[k]
    OBVIOUS
  <2>6. h[i] = h[i - 1] + z[i]
    <3>1. i \in 0 .. i /\ i # 0
      OBVIOUS
    <3> HIDE DEF z
    <3>2. QED
      BY <2>3, <3>1 DEF IsSum
  <2>c. fn.start \in Int
    BY <1>0
  <2>d. l = i - 1 /\ l \in 0 .. l /\ l \in 0 .. i
    OBVIOUS
  <2> HIDE DEF z1, z, l
  <2>7. \A k \in 0 .. l : h[k] = f[k]
    BY <2>1, <2>2, <2>3, <2>5, <2>c, SumUnique
  <2>8. \A k \in 0 .. i : h[k] \in Int
    <3>1. \A k \in 1 .. i : z[k] \in Int
      BY <2>4
    <3>2. QED
      BY <2>1, <2>3, <3>1, <2>c, SumType
  <2>9. QED
    BY <2>1, <2>2, <2>3, <2>4, <2>6, <2>7, <2>8, <2>d
<1>3. \A i \in Nat \ {0} : AddressOf(i + 1) >= AddressOf(i) + 1
  <2> SUFFICES ASSUME NEW i \in Nat \ {0} PROVE AddressOf(i + 1) >= AddressOf(i) + 1
    OBVIOUS
  <2>1. InstAt(i).size \in 1 .. 9
    BY InstAtPadded
  <2>2. QED
    BY <1>2, <2>1
<1>4. ASSUME NEW i \in Nat \ {0} PROVE AddressOf(i) >= fn.start
  <2> DEFINE f == [k \in 1 .. i |-> AddressOf(k)]
  <2>1. \A k \in 1 .. i : f[k] \in Int
    BY <1>2
  <2>2. \A k \in 1 .. i - 1 : f[k + 1] >= f[k] + 1
    BY <1>3
  <2>3. f[1] = fn.start /\ f[i] = AddressOf(i) /\ 1 \in 1 .. i /\ i \in 1 .. i /\ 1 <= i /\ i \in Nat
    BY <1>1
  <2> HIDE DEF f
  <2>4. f[i] >= f[1] + (i - 1)
    BY <2>1, <2>2, <2>3, Increasing
  <2>5. QED
    BY <1>0, <2>1, <2>3, <2>4
<1>5. QED
  BY <1>0, <1>1, <1>2, <1>3, <1>4

LEMMA AddressIncreases ==
  ASSUME fn \in Functions, NEW i \in Nat \ {0}, NEW j \in Nat \ {0}, i <= j
  PROVE  AddressOf(j) >= AddressOf(i) + (j - i)
<1> DEFINE f == [k \in 1 .. j |-> AddressOf(k)]
<1>1. \A k \in 1 .. j : f[k] \in Int
  BY AddressNext
<1>2. \A k \in 1 .. j - 1 : f[k + 1] >= f[k] + 1
  BY AddressNext
<1>3. f[i] = AddressOf(i) /\ f[j] = AddressOf(j) /\ i \in 1 .. j /\ j \in 1 .. j /\ j \in Nat
  OBVIOUS
<1> HIDE DEF f
<1>4. f[j] >= f[i] + (j - i)
  BY <1>1, <1>2, <1>3, Increasing
<1>5. QED
  BY <1>3, <1>4

LEMMA AddressOrder ==
  ASSUME fn \in Functions
  PROVE  \A i, j \in Nat \ {0} : /\ i < j => AddressOf(i) < AddressOf(j)
                                 /\ i <= j => AddressOf(i) <= AddressOf(j)
                                 /\ AddressOf(i) = AddressOf(j) => i = j
<1>1. ASSUME NEW i \in Nat \ {0}, NEW j \in Nat \ {0}, i < j
      PROVE  AddressOf(i) < AddressOf(j)
  <2>1. AddressOf(j) >= AddressOf(i) + (j - i)
    BY <1>1, AddressIncreases
  <2>2. AddressOf(i) \in Nat /\ AddressOf(j) \in Nat
    BY AddressNext
  <2>3. QED
    BY <1>1, <2>1, <2>2
<1>2. \A i \in Nat \ {0} : AddressOf(i) \in Nat
  BY AddressNext
<1>3. QED
  BY <1>1, <1>2

LEMMA FunctionEnds ==
  ASSUME fn \in Functions
  PROVE  /\ End(fn) = AddressOf(Len(fn.insts) + 1) /\ End(fn) \in Nat
         /\ PaddedEnd(fn) \in {End(fn), End(fn) + 1}
         /\ PaddedEnd(fn) = End(fn) + 1 => fn.arch = "thumb"
         /\ fn.start > RangeLow /\ End(fn) + 8 < Caller /\ fn.start + 6 + RangeHigh < Caller
<1>1. Len(fn.insts) \in Nat /\ Len(fn.insts) + 1 \in 1 .. Len(fn.insts) + 1 /\ Len(fn.insts) + 1 \in Nat \ {0}
  BY InstSizes
<1>2. End(fn) = AddressOf(Len(fn.insts) + 1)
  BY <1>1, AddressIsPlace DEF End
<1>3. End(fn) \in Nat
  BY <1>1, <1>2, AddressNext
<1>4. QED
  BY <1>2, <1>3, RewriteAssumption DEF PaddedEnd, IsFunction

(* The head of a backup length exists, and lies in the padded function.    *)
IsHead(h, len) ==
  /\ h \in 1 .. len /\ h <= Len(fn.insts) + 1
  /\ AddressOf(h) < fn.start + len /\ fn.start + len <= AddressOf(h + 1)
  /\ AddressOf(h + 1) <= PaddedEnd(fn)

LEMMA HeadExists ==
  ASSUME fn \in Functions, NEW len \in Nat, len > 0, IsLongEnough(len)
  PROVE  IsHead(HeadOf(len), len)
<1> DEFINE s == fn.start + len
           P(i) == AddressOf(i) < s /\ AddressOf(i + 1) >= s
           T == {i \in Nat : i > 0 /\ AddressOf(i + 1) >= s}
<1>0. fn.start \in Nat /\ Len(fn.insts) \in Nat
  BY InstSizes
<1>a. \A k \in Nat \ {0} : AddressOf(k) \in Nat /\ AddressOf(k + 1) = AddressOf(k) + InstAt(k).size
  BY AddressNext
<1>c. AddressOf(1) = fn.start
  BY AddressNext
<1>1. len \in T
  <2>1. 1 \in Nat \ {0} /\ len + 1 \in Nat \ {0} /\ 1 <= len + 1
    OBVIOUS
  <2>2. AddressOf(len + 1) >= AddressOf(1) + (len + 1 - 1)
    BY <2>1, AddressIncreases
  <2>3. AddressOf(len + 1) \in Nat
    BY <1>a, <2>1
  <2>4. AddressOf(len + 1) >= s
    BY <1>0, <1>c, <2>2, <2>3
  <2>5. QED
    BY <2>4
<1>2. PICK i \in T : \A k \in T : i <= k
  <2>1. T \subseteq Nat /\ T # {}
    BY <1>1
  <2>2. QED
    BY <2>1, NatMinimum
<1>3. i \in 1 .. len
  BY <1>1, <1>2
<1>4. AddressOf(i) < s
  <2>1. CASE i = 1
    <3> HIDE DEF T
    <3>1. QED
      BY <2>1, <1>0, <1>c
  <2>2. CASE i > 1
    <3>1. i - 1 \in Nat /\ i - 1 > 0 /\ i - 1 \notin T /\ i - 1 + 1 = i
      BY <1>2, <2>2
    <3>2. ~ (AddressOf(i) >= s)
      BY <3>1
    <3>3. AddressOf(i) \in Nat
      BY <1>3, <1>a
    <3>4. QED
      BY <3>2, <3>3, <1>0
  <2>3. QED
    BY <1>3, <2>1, <2>2
<1>5. \E k \in 1 .. len : P(k)
  BY <1>2, <1>3, <1>4
<1> DEFINE h == HeadOf(len)
<1>6. h = CHOOSE k \in 1 .. len : P(k)
  BY DEF HeadOf
<1>7. h \in 1 .. len /\ P(h)
  BY <1>5, <1>6
<1> HIDE DEF h
<1>8. s <= PaddedEnd(fn)
  BY DEF IsLongEnough
<1> DEFINE L == Len(fn.insts)
<1>9. /\ PaddedEnd(fn) \in {AddressOf(L + 1), AddressOf(L + 1) + 1}
      /\ PaddedEnd(fn) # AddressOf(L + 1) => L + 1 + 1 \in Nat
  BY <1>0, FunctionEnds
<1>b. PaddedEnd(fn) \in Nat /\ L + 1 \in Nat \ {0} /\ h \in Nat \ {0} /\ h + 1 \in Nat \ {0} /\ AddressOf(h) \in Nat
  <2>1. L + 1 \in Nat \ {0} /\ h \in Nat \ {0} /\ h + 1 \in Nat \ {0}
    BY <1>0, <1>7
  <2>2. AddressOf(L + 1) \in Nat /\ AddressOf(h) \in Nat
    BY <2>1, <1>a
  <2>3. QED
    BY <1>9, <2>1, <2>2
<1>d. L \in Nat /\ s \in Nat
  BY <1>0
<1> HIDE DEF L
<1>10. h <= L + 1
  <2> SUFFICES ASSUME h > L + 1 PROVE FALSE
    BY <1>b, <1>d
  <2>1. AddressOf(h) >= AddressOf(L + 1) + (h - (L + 1))
    BY <1>b, AddressIncreases
  <2>2. AddressOf(L + 1) \in Nat
    BY <1>b, <1>a
  <2>3. QED
    BY <1>0, <1>7, <1>8, <1>9, <1>b, <2>1, <2>2
<1>11. AddressOf(h + 1) <= PaddedEnd(fn)
  <2>1. CASE h <= L
    <3>1. h + 1 <= L + 1 /\ AddressOf(L + 1) \in Nat /\ AddressOf(h + 1) \in Nat
      BY <1>b, <1>d, <2>1, <1>a
    <3>2. AddressOf(h + 1) <= AddressOf(L + 1)
      BY <1>b, <3>1, AddressOrder
    <3>3. QED
      BY <1>b, <1>d, <1>9, <2>1, <3>1, <3>2
  <2>2. CASE h = L + 1
    <3>1. InstAt(h).size = 1
      BY <1>0, <2>2 DEF InstAt, Padding, Inst, L
    <3>2. AddressOf(h + 1) = AddressOf(h) + InstAt(h).size
      BY <1>b, <1>a
    <3>3. QED
      BY <1>0, <1>7, <1>8, <1>9, <1>b, <2>2, <3>1, <3>2
  <2>3. QED
    BY <1>b, <1>d, <1>10, <2>1, <2>2
<1>12. QED
  BY <1>7, <1>10, <1>11 DEF IsHead, h, L

----------------------------------------------------------------------------
(* What executing one word does.                                           *)
Regs(r, x, y, lr) == [r |-> r, x |-> x, y |-> y, lr |-> lr]

Put(rg, to, v) == [rg EXCEPT ![to] = v]

LEMMA RegsFields ==
  ASSUME NEW r, NEW x, NEW y, NEW lr
  PROVE  /\ Regs(r, x, y, lr).r = r /\ Regs(r, x, y, lr).x = x
         /\ Regs(r, x, y, lr).y = y /\ Regs(r, x, y, lr).lr = lr
         /\ Regs(r, x, y, lr)["r"] = r /\ Regs(r, x, y, lr)["x"] = x /\ Regs(r, x, y, lr)["y"] = y
         /\ \A v : /\ Put(Regs(r, x, y, lr), "r", v) = Regs(v, x, y, lr)
                   /\ Put(Regs(r, x, y, lr), "x", v) = Regs(r, v, y, lr)
                   /\ Put(Regs(r, x, y, lr), "y", v) = Regs(r, x, v, lr)
                   /\ Put(Regs(r, x, y, lr), "lr", v) = Regs(r, x, y, v)
BY DEF Regs, Put

Advance == ip + IF Fetch(ip + 1).op = "second" THEN 2 ELSE 1

(* Where a value that is jumped to leads.                                  *)
Dest(v) == CASE v.is = "address" -> v.of
             [] v.is = "content" -> Pointee
             [] OTHER -> Crash

Stays(rg) == ip' = Advance /\ thumb' = Home /\ stack' = stack /\ regs' = rg

LEMMA AfterIs == After = Address(Advance, Home) /\ Dest(After) = Advance /\ After.t = Home
BY DEF After, Advance, Dest, Address, Value

LEMMA ExecLdr ==
  ASSUME Execute, NEW c \in BOOLEAN, NEW to \in {"r", "x", "y"}, NEW imm, Fetch(ip) = LdrIf(c, to, imm)
  PROVE  Stays(IF ~ c \/ flag THEN Put(regs, to, Stored(BaseAt(fn.arch, ip) + imm)) ELSE regs)
<1> DEFINE w == Fetch(ip)
<1>1. w.op = "ldr" /\ w.to = to /\ w.c = c /\ w.arg = imm
  BY DEF LdrIf, Word
<1> HIDE DEF w
<1>2. Goal(w) = After
  BY <1>1 DEF Goal, DataWords
<1>3. Result(w) = Stored(BaseAt(fn.arch, ip) + imm)
  BY <1>1 DEF Result, Literal
<1>4. Jump(After)
  BY <1>1, <1>2 DEF Execute, w
<1>5. stack' = stack /\ regs' = IF ~ c \/ flag THEN Put(regs, to, Result(w)) ELSE regs
  BY <1>1 DEF Execute, w, Put
<1>6. QED
  BY <1>3, <1>4, <1>5, AfterIs DEF Jump, Stays, Dest

LEMMA ExecLdrPc ==
  ASSUME Execute, NEW c \in BOOLEAN, NEW imm, Fetch(ip) = LdrIf(c, "pc", imm)
  PROVE  /\ regs' = regs /\ stack' = stack
         /\ ~ c \/ flag => LET v == Stored(BaseAt(fn.arch, ip) + imm) IN ip' = Dest(v) /\ thumb' = v.t
         /\ c /\ ~ flag => ip' = Advance /\ thumb' = Home
<1> DEFINE w == Fetch(ip)
<1>1. w.op = "ldr" /\ w.to = "pc" /\ w.c = c /\ w.arg = imm
  BY DEF LdrIf, Word
<1> HIDE DEF w
<1>2. Goal(w) = Stored(BaseAt(fn.arch, ip) + imm)
  BY <1>1 DEF Goal, DataWords, Literal
<1>4. Jump(IF ~ c \/ flag THEN Goal(w) ELSE After)
  BY <1>1 DEF Execute, w
<1>5. stack' = stack /\ regs' = regs
  BY <1>1 DEF Execute, w
<1>6. QED
  BY <1>2, <1>4, <1>5, AfterIs DEF Jump, Dest

LEMMA ExecB ==
  ASSUME Execute, NEW c \in BOOLEAN, NEW imm, Fetch(ip) = BIf(c, imm)
  PROVE  /\ regs' = regs /\ stack' = stack /\ thumb' = Home
         /\ ~ c \/ flag => ip' = PcAt(fn.arch, ip) + SignExtend(imm)
         /\ c /\ ~ flag => ip' = Advance
<1> DEFINE w == Fetch(ip)
<1>1. w.op = "b" /\ w.to = "pc" /\ w.c = c /\ w.arg = imm
  BY DEF BIf, Word
<1> HIDE DEF w
<1>2. Goal(w) = Address(PcAt(fn.arch, ip) + SignExtend(imm), Home)
  BY <1>1 DEF Goal, DataWords
<1>4. Jump(IF ~ c \/ flag THEN Goal(w) ELSE After)
  BY <1>1 DEF Execute, w
<1>5. stack' = stack /\ regs' = regs
  BY <1>1 DEF Execute, w
<1>6. QED
  BY <1>2, <1>4, <1>5, AfterIs DEF Jump, Dest, Address, Value

LEMMA ExecLoad ==
  ASSUME Execute, NEW to \in {"r", "x", "y"}, NEW from, NEW len, Fetch(ip) = Load(to, from, len)
  PROVE  Stays(Put(regs, to, Loaded(regs[from], len)))
<1> DEFINE w == Fetch(ip)
<1>1. w.op = "load" /\ w.to = to /\ w.from = from /\ w.c = FALSE /\ w.arg = len
  BY DEF Load, Word
<1> HIDE DEF w
<1>2. Goal(w) = After
  BY <1>1 DEF Goal, DataWords
<1>3. Jump(After)
  BY <1>1, <1>2 DEF Execute, w
<1>4. Result(w) = Loaded(regs[from], len)
  BY <1>1 DEF Result
<1>5. stack' = stack /\ regs' = Put(regs, to, Result(w))
  BY <1>1 DEF Execute, w, Put
<1>6. QED
  BY <1>3, <1>4, <1>5, AfterIs DEF Jump, Stays, Dest

(* What the operations that compute make of a value.                       *)
Compute(op, v) ==
  CASE op = "move"  -> v
    [] op = "sum"   -> Sum(v.of)
    [] op = "index" -> [v EXCEPT !.of = @ + IF flag THEN 4 ELSE 0]
    [] op = "thumb" -> [v EXCEPT !.t = TRUE]

LEMMA ExecSet ==
  ASSUME Execute, NEW op \in {"move", "sum", "index", "thumb"}, NEW to \in {"r", "x", "y"}, NEW from, Fetch(ip) = Set(op, to, from)
  PROVE  Stays(Put(regs, to, Compute(op, regs[from])))
<1> DEFINE w == Fetch(ip)
<1>1. w.op = op /\ w.to = to /\ w.from = from /\ w.c = FALSE
  BY DEF Set, Word
<1> HIDE DEF w
<1>2. Goal(w) = After
  BY <1>1 DEF Goal, DataWords
<1>3. Jump(After)
  BY <1>1, <1>2 DEF Execute, w
<1>4. Result(w) = Compute(op, regs[from])
  BY <1>1 DEF Result, Compute
<1>5. stack' = stack /\ regs' = Put(regs, to, Result(w))
  BY <1>1 DEF Execute, w, Put
<1>6. QED
  BY <1>3, <1>4, <1>5, AfterIs DEF Jump, Stays, Dest

LEMMA ExecPlain ==
  ASSUME Execute, NEW inst, inst.c \in BOOLEAN, Fetch(ip) = Plain(inst)
  PROVE  Stays(IF ~ inst.c \/ flag THEN Put(regs, "r", Computed(inst.imm)) ELSE regs)
<1> DEFINE w == Fetch(ip)
<1>1. w.op = "plain" /\ w.to = "r" /\ w.c = inst.c /\ w.arg = inst.imm
  BY DEF Plain, Word
<1> HIDE DEF w
<1>2. Goal(w) = After
  BY <1>1 DEF Goal, DataWords
<1>3. Jump(After)
  BY <1>1, <1>2 DEF Execute, w
<1>4. Result(w) = Computed(inst.imm)
  BY <1>1 DEF Result
<1>5. stack' = stack /\ regs' = IF ~ inst.c \/ flag THEN Put(regs, "r", Result(w)) ELSE regs
  BY <1>1 DEF Execute, w, Put
<1>6. QED
  BY <1>3, <1>4, <1>5, AfterIs DEF Jump, Stays, Dest

LEMMA ExecLink ==
  ASSUME Execute, NEW c \in BOOLEAN, NEW imm, Fetch(ip) = Link(c, imm)
  PROVE  Stays(IF ~ c \/ flag THEN Put(regs, "lr", Address(BaseAt(fn.arch, ip) + imm, Home)) ELSE regs)
<1> DEFINE w == Fetch(ip)
<1>1. w.op = "link" /\ w.to = "lr" /\ w.c = c /\ w.arg = imm
  BY DEF Link, Word
<1> HIDE DEF w
<1>2. Goal(w) = After
  BY <1>1 DEF Goal, DataWords
<1>3. Jump(After)
  BY <1>1, <1>2 DEF Execute, w
<1>4. Result(w) = Address(BaseAt(fn.arch, ip) + imm, Home)
  BY <1>1 DEF Result
<1>5. stack' = stack /\ regs' = IF ~ c \/ flag THEN Put(regs, "lr", Result(w)) ELSE regs
  BY <1>1 DEF Execute, w, Put
<1>6. QED
  BY <1>3, <1>4, <1>5, AfterIs DEF Jump, Stays, Dest

LEMMA ExecNop ==
  ASSUME Execute, Fetch(ip) = Nop
  PROVE  Stays(regs)
<1> DEFINE w == Fetch(ip)
<1>1. w.op = "nop" /\ w.to = "-" /\ w.c = FALSE
  BY DEF Nop, Word
<1> HIDE DEF w
<1>2. Goal(w) = After
  BY <1>1 DEF Goal, DataWords
<1>3. Jump(After)
  BY <1>1, <1>2 DEF Execute, w
<1>4. stack' = stack /\ regs' = regs
  BY <1>1 DEF Execute, w
<1>5. QED
  BY <1>3, <1>4, AfterIs DEF Jump, Stays, Dest

LEMMA ExecBr ==
  ASSUME Execute, NEW op \in {"br", "blr"}, Fetch(ip) = Set(op, "pc", "x")
  PROVE  /\ ip' = Dest(regs.x) /\ thumb' = regs.x.t /\ stack' = stack
         /\ regs' = IF op = "blr" THEN Put(regs, "lr", Address(Advance, Home)) ELSE regs
<1> DEFINE w == Fetch(ip)
<1>1. w.op = op /\ w.to = "pc" /\ w.c = FALSE
  BY DEF Set, Word
<1> HIDE DEF w
<1>2. Goal(w) = regs.x
  BY <1>1 DEF Goal, DataWords
<1>3. Jump(regs.x)
  BY <1>1, <1>2 DEF Execute, w
<1>4. stack' = stack /\ regs' = IF op = "blr" THEN Put(regs, "lr", After) ELSE regs
  BY <1>1 DEF Execute, w, Put
<1>5. QED
  BY <1>3, <1>4, AfterIs DEF Jump, Dest

Saved(x, y, to) == [x |-> x, y |-> y, pc |-> to]

LEMMA ExecPush ==
  ASSUME Execute, NEW from \in {"x", "xy"}, Fetch(ip) = Push(from)
  PROVE  /\ ip' = Advance /\ thumb' = Home /\ regs' = regs
         /\ stack' = Saved(regs.x, IF from = "xy" THEN regs.y ELSE Lost, Lost)
<1> DEFINE w == Fetch(ip)
<1>1. w.op = "push" /\ w.to = "-" /\ w.from = from /\ w.c = FALSE
  BY DEF Push, Word
<1> HIDE DEF w
<1>2. Goal(w) = After
  BY <1>1 DEF Goal, DataWords
<1>3. Jump(After)
  BY <1>1, <1>2 DEF Execute, w
<1>4. stack' = Saved(regs.x, IF from = "xy" THEN regs.y ELSE Lost, Lost) /\ regs' = regs
  BY <1>1 DEF Execute, w, Saved
<1>5. QED
  BY <1>3, <1>4, AfterIs DEF Jump, Dest

LEMMA ExecStore ==
  ASSUME Execute, NEW from, NEW x, NEW y, NEW to, stack = Saved(x, y, to), Fetch(ip) = Store(from)
  PROVE  /\ ip' = Advance /\ thumb' = Home /\ regs' = regs
         /\ stack' = Saved(x, y, regs[from])
<1> DEFINE w == Fetch(ip)
<1>1. w.op = "store" /\ w.to = "-" /\ w.from = from /\ w.c = FALSE
  BY DEF Store, Word
<1> HIDE DEF w
<1>2. Goal(w) = After
  BY <1>1 DEF Goal, DataWords
<1>3. Jump(After)
  BY <1>1, <1>2 DEF Execute, w
<1>4. stack' = [stack EXCEPT !.pc = regs[from]] /\ regs' = regs
  BY <1>1 DEF Execute, w
<1>5. QED
  BY <1>3, <1>4, AfterIs DEF Jump, Dest, Saved

LEMMA ExecPop ==
  ASSUME Execute, NEW rg \in {"x", "xpc", "xypc"}, NEW x, NEW y, NEW to, stack = Saved(x, y, to), Fetch(ip) = Pop(rg)
  PROVE  /\ IF rg = "x" THEN ip' = Advance /\ thumb' = Home ELSE ip' = Dest(to) /\ thumb' = to.t
         /\ stack' = stack
         /\ \A r1, x1, y1, lr1 : regs = Regs(r1, x1, y1, lr1) =>
              regs' = Regs(r1, x, IF rg = "xypc" THEN y ELSE y1, lr1)
<1> DEFINE w == Fetch(ip)
<1>1. w.op = "pop" /\ w.to = rg /\ w.from = "-" /\ w.c = FALSE
  <2> DEFINE p == Pop(rg)
  <2>1. p.op = "pop" /\ p.to = rg /\ p.from = "-" /\ p.c = FALSE
    BY DEF Pop, Word
  <2> HIDE DEF p
  <2>2. w = p
    BY DEF p
  <2>3. QED
    BY <2>1, <2>2
<1> HIDE DEF w
<1>2. Goal(w) = IF rg = "x" THEN After ELSE to
  BY <1>1 DEF Goal, DataWords, Saved
<1>3. Jump(IF rg = "x" THEN After ELSE to)
  BY <1>1, <1>2 DEF Execute, w
<1>4. stack' = stack /\ regs' = [regs EXCEPT !.x = stack.x, !.y = IF rg = "xypc" THEN stack.y ELSE @]
  BY <1>1 DEF Execute, w
<1>5. stack.x = x /\ stack.y = y
  BY DEF Saved
<1>6. ASSUME NEW r1, NEW x1, NEW y1, NEW lr1, regs = Regs(r1, x1, y1, lr1)
      PROVE  regs' = Regs(r1, x, IF rg = "xypc" THEN y ELSE y1, lr1)
  BY <1>4, <1>5, <1>6 DEF Regs
<1>7. QED
  BY <1>3, <1>4, <1>6, AfterIs DEF Jump, Dest

----------------------------------------------------------------------------
(* Sequences of words.                                                     *)
IsSeq(s) == \E S : s \in Seq(S)

LEMMA Joined ==
  ASSUME NEW s, NEW t, IsSeq(s), IsSeq(t)
  PROVE  /\ IsSeq(s \o t) /\ Len(s) \in Nat /\ Len(t) \in Nat /\ Len(s \o t) = Len(s) + Len(t)
         /\ \A j \in 1 .. Len(s) : (s \o t)[j] = s[j]
         /\ \A j \in 1 .. Len(t) : (s \o t)[Len(s) + j] = t[j]
<1>1. PICK S : s \in Seq(S)
  BY DEF IsSeq
<1>2. PICK T : t \in Seq(T)
  BY DEF IsSeq
<1>3. s \in Seq(S \cup T) /\ t \in Seq(S \cup T)
  BY <1>1, <1>2
<1>4. s \o t \in Seq(S \cup T)
  BY <1>3
<1>5. QED
  BY <1>3, <1>4 DEF IsSeq

LEMMA SeqOf1 == \A a : IsSeq(<<a>>)
<1> TAKE a
<1>1. <<a>> \in Seq({a})
  OBVIOUS
<1>2. QED
  BY <1>1 DEF IsSeq

LEMMA SeqOf2 == \A a, b : IsSeq(<<a, b>>)
<1> TAKE a, b
<1>1. <<a, b>> \in Seq({a, b})
  OBVIOUS
<1>2. QED
  BY <1>1 DEF IsSeq

LEMMA SeqOf3 == \A a, b, c : IsSeq(<<a, b, c>>)
<1> TAKE a, b, c
<1>1. <<a, b, c>> \in Seq({a, b, c})
  OBVIOUS
<1>2. QED
  BY <1>1 DEF IsSeq

LEMMA Unconditional ==
  /\ \A imm : B(imm) = BIf(FALSE, imm)
  /\ \A to, imm : Ldr(to, imm) = LdrIf(FALSE, to, imm)
BY DEF B, BIf, Ldr, LdrIf


LEMMA A64Ops ==
  /\ \A imm : A64!B(imm) = B(imm)
  /\ \A c, imm : A64!BIf(c, imm) = BIf(c, imm)
  /\ \A to, imm : A64!Ldr(to, imm) = Ldr(to, imm)
  /\ \A c, to, imm : A64!LdrIf(c, to, imm) = LdrIf(c, to, imm)
  /\ \A c, imm : A64!Link(c, imm) = Link(c, imm)
  /\ \A to, from, len : A64!Load(to, from, len) = Load(to, from, len)
  /\ \A op, to, from : A64!Set(op, to, from) = Set(op, to, from)
  /\ \A rg : A64!Push(rg) = Push(rg)
  /\ \A rg : A64!Pop(rg) = Pop(rg)
  /\ \A from : A64!Store(from) = Store(from)
  /\ \A inst : A64!Plain(inst) = Plain(inst)
  /\ A64!Nop = Nop
  /\ \A v : A64!Halves(v) = <<Data("low", v), Data("high", v)>>
  /\ \A a, t : A64!Address(a, t) = Address(a, t)
<1>0. /\ A64!Lost = Lost
      /\ \A a, t : A64!Address(a, t) = Address(a, t)
  BY DEF A64!Lost, A64!Value, Lost, Value, A64!Address, Address
<1>1. \A op, to, from, arg, c : A64!Word(op, to, from, arg, c) = Word(op, to, from, arg, c)
  BY <1>0 DEF A64!Word, Word
<1>2. \A op, v : A64!Data(op, v) = Data(op, v)
  BY <1>1 DEF A64!Data, Data
<1>3. QED
  BY <1>0, <1>1, <1>2 DEF A64!B, B, A64!BIf, BIf, A64!Ldr, Ldr, A64!LdrIf, LdrIf, A64!Link, Link, A64!Load, Load, A64!Set, Set, A64!Push, Push, A64!Pop, Pop, A64!Store, Store, A64!Plain, Plain, A64!Nop, Nop, A64!Halves, A64!Whole, A64!Wide, A64!Second, Second


LEMMA A32Ops ==
  /\ \A imm : A32!B(imm) = B(imm)
  /\ \A c, imm : A32!BIf(c, imm) = BIf(c, imm)
  /\ \A to, imm : A32!Ldr(to, imm) = Ldr(to, imm)
  /\ \A c, to, imm : A32!LdrIf(c, to, imm) = LdrIf(c, to, imm)
  /\ \A c, imm : A32!Link(c, imm) = Link(c, imm)
  /\ \A to, from, len : A32!Load(to, from, len) = Load(to, from, len)
  /\ \A op, to, from : A32!Set(op, to, from) = Set(op, to, from)
  /\ \A rg : A32!Push(rg) = Push(rg)
  /\ \A rg : A32!Pop(rg) = Pop(rg)
  /\ \A from : A32!Store(from) = Store(from)
  /\ \A inst : A32!Plain(inst) = Plain(inst)
  /\ A32!Nop = Nop
  /\ \A v : A32!Whole(v) = <<Data("whole", v)>>
  /\ \A a, t : A32!Address(a, t) = Address(a, t)
<1>0. /\ A32!Lost = Lost
      /\ \A a, t : A32!Address(a, t) = Address(a, t)
  BY DEF A32!Lost, A32!Value, Lost, Value, A32!Address, Address
<1>1. \A op, to, from, arg, c : A32!Word(op, to, from, arg, c) = Word(op, to, from, arg, c)
  BY <1>0 DEF A32!Word, Word
<1>2. \A op, v : A32!Data(op, v) = Data(op, v)
  BY <1>1 DEF A32!Data, Data
<1>3. QED
  BY <1>0, <1>1, <1>2 DEF A32!B, B, A32!BIf, BIf, A32!Ldr, Ldr, A32!LdrIf, LdrIf, A32!Link, Link, A32!Load, Load, A32!Set, Set, A32!Push, Push, A32!Pop, Pop, A32!Store, Store, A32!Plain, Plain, A32!Nop, Nop, A32!Halves, A32!Whole, A32!Wide, A32!Second, Second


LEMMA ThumbOps ==
  /\ \A imm : Thumb!B(imm) = B(imm)
  /\ \A c, imm : Thumb!BIf(c, imm) = BIf(c, imm)
  /\ \A to, imm : Thumb!Ldr(to, imm) = Ldr(to, imm)
  /\ \A c, to, imm : Thumb!LdrIf(c, to, imm) = LdrIf(c, to, imm)
  /\ \A c, imm : Thumb!Link(c, imm) = Link(c, imm)
  /\ \A to, from, len : Thumb!Load(to, from, len) = Load(to, from, len)
  /\ \A op, to, from : Thumb!Set(op, to, from) = Set(op, to, from)
  /\ \A rg : Thumb!Push(rg) = Push(rg)
  /\ \A rg : Thumb!Pop(rg) = Pop(rg)
  /\ \A from : Thumb!Store(from) = Store(from)
  /\ \A inst : Thumb!Plain(inst) = Plain(inst)
  /\ Thumb!Nop = Nop
  /\ \A v : Thumb!Halves(v) = <<Data("low", v), Data("high", v)>>
  /\ \A v : Thumb!Whole(v) = <<Data("whole", v)>>
  /\ \A w : Thumb!Wide(w) = <<w, Second>>
  /\ \A a, t : Thumb!Address(a, t) = Address(a, t)
<1>0. /\ Thumb!Lost = Lost
      /\ \A a, t : Thumb!Address(a, t) = Address(a, t)
  BY DEF Thumb!Lost, Thumb!Value, Lost, Value, Thumb!Address, Address
<1>1. \A op, to, from, arg, c : Thumb!Word(op, to, from, arg, c) = Word(op, to, from, arg, c)
  BY <1>0 DEF Thumb!Word, Word
<1>2. \A op, v : Thumb!Data(op, v) = Data(op, v)
  BY <1>1 DEF Thumb!Data, Data
<1>3. QED
  BY <1>0, <1>1, <1>2 DEF Thumb!B, B, Thumb!BIf, BIf, Thumb!Ldr, Ldr, Thumb!LdrIf, LdrIf, Thumb!Link, Link, Thumb!Load, Load, Thumb!Set, Set, Thumb!Push, Push, Thumb!Pop, Pop, Thumb!Store, Store, Thumb!Plain, Plain, Thumb!Nop, Nop, Thumb!Halves, Thumb!Whole, Thumb!Wide, Thumb!Second, Second

----------------------------------------------------------------------------
(* Words that lie in memory, and one step from one to the next.            *)
CodeAt(o, s) ==
  /\ o \in Nat /\ IsSeq(s)
  /\ \A j \in 1 .. Len(s) : Fetch(o + (j - 1)) = s[j]
  /\ Fetch(o + Len(s)).op # "second"

LEMMA CodeWord ==
  ASSUME NEW o, NEW s, CodeAt(o, s), NEW k \in Nat, k < Len(s), NEW m, m = k + 1
  PROVE  Fetch(o + k) = s[m]
<1>1. Len(s) \in Nat
  BY DEF CodeAt, IsSeq
<1>2. m \in 1 .. Len(s) /\ m - 1 = k
  BY <1>1
<1>3. Fetch(o + (m - 1)) = s[m]
  BY <1>2, Zenon DEF CodeAt
<1>4. QED
  BY <1>2, <1>3

LEMMA CodeWords ==
  ASSUME NEW o, NEW s, CodeAt(o, s)
  PROVE  /\ o \in Nat /\ Len(s) \in Nat /\ Fetch(o + Len(s)).op # "second"
         /\ Len(s) > 0 => Fetch(o) = s[1]
         /\ Len(s) > 1 => Fetch(o + 1) = s[2]
         /\ Len(s) > 2 => Fetch(o + 2) = s[3]
         /\ Len(s) > 3 => Fetch(o + 3) = s[4]
         /\ Len(s) > 4 => Fetch(o + 4) = s[5]
         /\ Len(s) > 5 => Fetch(o + 5) = s[6]
         /\ Len(s) > 6 => Fetch(o + 6) = s[7]
         /\ Len(s) > 7 => Fetch(o + 7) = s[8]
         /\ Len(s) > 8 => Fetch(o + 8) = s[9]
         /\ Len(s) > 9 => Fetch(o + 9) = s[10]
         /\ Len(s) > 10 => Fetch(o + 10) = s[11]
         /\ Len(s) > 11 => Fetch(o + 11) = s[12]
         /\ Len(s) > 12 => Fetch(o + 12) = s[13]
         /\ Len(s) > 13 => Fetch(o + 13) = s[14]
         /\ Len(s) > 14 => Fetch(o + 14) = s[15]
         /\ Len(s) > 15 => Fetch(o + 15) = s[16]
<1>1. Len(s) \in Nat /\ o \in Nat
  BY DEF CodeAt, IsSeq
<1>2. Len(s) > 0 => Fetch(o) = s[1]
  <2>1. Len(s) > 0 => Fetch(o + 0) = s[1]
    BY <1>1, CodeWord
  <2>2. o + 0 = o
    BY <1>1
  <2>3. QED
    BY <2>1, <2>2
<1>3. Len(s) > 1 => Fetch(o + 1) = s[2]
  BY <1>1, CodeWord
<1>4. Len(s) > 2 => Fetch(o + 2) = s[3]
  BY <1>1, CodeWord
<1>5. Len(s) > 3 => Fetch(o + 3) = s[4]
  BY <1>1, CodeWord
<1>6. Len(s) > 4 => Fetch(o + 4) = s[5]
  BY <1>1, CodeWord
<1>7. Len(s) > 5 => Fetch(o + 5) = s[6]
  BY <1>1, CodeWord
<1>8. Len(s) > 6 => Fetch(o + 6) = s[7]
  BY <1>1, CodeWord
<1>9. Len(s) > 7 => Fetch(o + 7) = s[8]
  BY <1>1, CodeWord
<1>10. Len(s) > 8 => Fetch(o + 8) = s[9]
  BY <1>1, CodeWord
<1>11. Len(s) > 9 => Fetch(o + 9) = s[10]
  BY <1>1, CodeWord
<1>12. Len(s) > 10 => Fetch(o + 10) = s[11]
  BY <1>1, CodeWord
<1>13. Len(s) > 11 => Fetch(o + 11) = s[12]
  BY <1>1, CodeWord
<1>14. Len(s) > 12 => Fetch(o + 12) = s[13]
  BY <1>1, CodeWord
<1>15. Len(s) > 13 => Fetch(o + 13) = s[14]
  BY <1>1, CodeWord
<1>16. Len(s) > 14 => Fetch(o + 14) = s[15]
  BY <1>1, CodeWord
<1>17. Len(s) > 15 => Fetch(o + 15) = s[16]
  BY <1>1, CodeWord
<1>18. QED
  BY <1>1, <1>2, <1>3, <1>4, <1>5, <1>6, <1>7, <1>8, <1>9, <1>10, <1>11, <1>12, <1>13, <1>14, <1>15, <1>16, <1>17 DEF CodeAt

LEMMA StepLdr ==
  ASSUME Execute, NEW a, NEW b, b = a + 1, ip = a, NEW to \in {"r", "x", "y"}, NEW imm,
         Fetch(a) = Ldr(to, imm), Fetch(b).op # "second",
         NEW v, Stored(BaseAt(fn.arch, a) + imm) = v,
         NEW r, NEW x, NEW y, NEW lr, regs = Regs(r, x, y, lr)
  PROVE  /\ ip' = b /\ thumb' = Home /\ stack' = stack
         /\ to = "r" => regs' = Regs(v, x, y, lr)
         /\ to = "x" => regs' = Regs(r, v, y, lr)
         /\ to = "y" => regs' = Regs(r, x, v, lr)
<1>1. Fetch(ip) = LdrIf(FALSE, to, imm)
  BY Unconditional
<1>2. Stays(IF ~ FALSE \/ flag THEN Put(regs, to, Stored(BaseAt(fn.arch, ip) + imm)) ELSE regs)
  BY <1>1, ExecLdr
<1>3. Stays(Put(Regs(r, x, y, lr), to, v))
  BY <1>2
<1>4. Advance = b
  BY DEF Advance
<1>5. ip' = b /\ thumb' = Home /\ stack' = stack /\ regs' = Put(Regs(r, x, y, lr), to, v)
  BY <1>3, <1>4 DEF Stays
<1>6. QED
  BY <1>5, RegsFields

LEMMA StepLoad ==
  ASSUME Execute, NEW a, NEW b, b = a + 1, ip = a, Fetch(b).op # "second",
         NEW to \in {"r", "x", "y"}, NEW from \in {"r", "x"}, NEW len, Fetch(a) = Load(to, from, len),
         NEW r, NEW x, NEW y, NEW lr, regs = Regs(r, x, y, lr),
         NEW v, Loaded(IF from = "r" THEN r ELSE x, len) = v
  PROVE  /\ ip' = b /\ thumb' = Home /\ stack' = stack
         /\ to = "r" => regs' = Regs(v, x, y, lr)
         /\ to = "x" => regs' = Regs(r, v, y, lr)
         /\ to = "y" => regs' = Regs(r, x, v, lr)
<1>1. Stays(Put(regs, to, Loaded(regs[from], len)))
  BY ExecLoad
<1>2. Stays(Put(Regs(r, x, y, lr), to, v))
  BY <1>1, RegsFields
<1>3. Advance = b
  BY DEF Advance
<1>4. ip' = b /\ thumb' = Home /\ stack' = stack /\ regs' = Put(Regs(r, x, y, lr), to, v)
  BY <1>2, <1>3 DEF Stays
<1>5. QED
  BY <1>4, RegsFields

LEMMA StepSet ==
  ASSUME Execute, NEW a, NEW b, b = a + 1, ip = a, Fetch(b).op # "second",
         NEW op \in {"move", "sum", "index", "thumb"}, NEW to \in {"r", "x", "y"}, Fetch(a) = Set(op, to, "x"),
         NEW r, NEW x, NEW y, NEW lr, regs = Regs(r, x, y, lr),
         NEW v, Compute(op, x) = v
  PROVE  /\ ip' = b /\ thumb' = Home /\ stack' = stack
         /\ to = "r" => regs' = Regs(v, x, y, lr)
         /\ to = "x" => regs' = Regs(r, v, y, lr)
         /\ to = "y" => regs' = Regs(r, x, v, lr)
<1>1. Stays(Put(regs, to, Compute(op, regs["x"])))
  BY ExecSet
<1>2. Stays(Put(Regs(r, x, y, lr), to, v))
  BY <1>1, RegsFields
<1>3. Advance = b
  BY DEF Advance
<1>4. ip' = b /\ thumb' = Home /\ stack' = stack /\ regs' = Put(Regs(r, x, y, lr), to, v)
  BY <1>2, <1>3 DEF Stays
<1>5. QED
  BY <1>4, RegsFields

LEMMA StepLdrIf ==
  ASSUME Execute, NEW a, NEW b, b = a + 1, ip = a, Fetch(b).op # "second",
         NEW c \in BOOLEAN, NEW imm, Fetch(a) = LdrIf(c, "r", imm),
         NEW r, NEW x, NEW y, NEW lr, regs = Regs(r, x, y, lr),
         NEW v, Stored(BaseAt(fn.arch, a) + imm) = v
  PROVE  /\ ip' = b /\ thumb' = Home /\ stack' = stack
         /\ ~ c \/ flag => regs' = Regs(v, x, y, lr)
         /\ c /\ ~ flag => regs' = Regs(r, x, y, lr)
<1>1. Stays(IF ~ c \/ flag THEN Put(regs, "r", Stored(BaseAt(fn.arch, ip) + imm)) ELSE regs)
  BY ExecLdr
<1>2. Put(regs, "r", Stored(BaseAt(fn.arch, ip) + imm)) = Regs(v, x, y, lr)
  BY RegsFields
<1>3. Advance = b
  BY DEF Advance
<1>4. QED
  BY <1>1, <1>2, <1>3 DEF Stays

LEMMA StepPlain ==
  ASSUME Execute, NEW a, NEW b, b = a + 1, ip = a, Fetch(b).op # "second",
         NEW inst, inst.c \in BOOLEAN, Fetch(a) = Plain(inst),
         NEW r, NEW x, NEW y, NEW lr, regs = Regs(r, x, y, lr)
  PROVE  /\ ip' = b /\ thumb' = Home /\ stack' = stack
         /\ ~ inst.c \/ flag => regs' = Regs(Computed(inst.imm), x, y, lr)
         /\ inst.c /\ ~ flag => regs' = Regs(r, x, y, lr)
<1>1. Stays(IF ~ inst.c \/ flag THEN Put(regs, "r", Computed(inst.imm)) ELSE regs)
  BY ExecPlain
<1>2. Put(regs, "r", Computed(inst.imm)) = Regs(Computed(inst.imm), x, y, lr)
  BY RegsFields
<1>3. Advance = b
  BY DEF Advance
<1>4. QED
  BY <1>1, <1>2, <1>3 DEF Stays

LEMMA StepLink ==
  ASSUME Execute, NEW a, NEW b, b = a + 1, ip = a, Fetch(b).op # "second",
         NEW c \in BOOLEAN, NEW imm, Fetch(a) = Link(c, imm),
         NEW r, NEW x, NEW y, NEW lr, regs = Regs(r, x, y, lr)
  PROVE  /\ ip' = b /\ thumb' = Home /\ stack' = stack
         /\ ~ c \/ flag => regs' = Regs(r, x, y, Address(BaseAt(fn.arch, a) + imm, Home))
         /\ c /\ ~ flag => regs' = Regs(r, x, y, lr)
<1>1. Stays(IF ~ c \/ flag THEN Put(regs, "lr", Address(BaseAt(fn.arch, ip) + imm, Home)) ELSE regs)
  BY ExecLink
<1>2. Put(regs, "lr", Address(BaseAt(fn.arch, ip) + imm, Home)) = Regs(r, x, y, Address(BaseAt(fn.arch, a) + imm, Home))
  BY RegsFields
<1>3. Advance = b
  BY DEF Advance
<1>4. QED
  BY <1>1, <1>2, <1>3 DEF Stays

LEMMA StepNop ==
  ASSUME Execute, NEW a, NEW b, b = a + 1, ip = a, Fetch(b).op # "second", Fetch(a) = Nop
  PROVE  ip' = b /\ thumb' = Home /\ stack' = stack /\ regs' = regs
BY ExecNop DEF Stays, Advance

LEMMA StepBr ==
  ASSUME Execute, NEW a, NEW b, b = a + 1, ip = a, Fetch(b).op # "second",
         NEW op \in {"br", "blr"}, Fetch(a) = Set(op, "pc", "x"),
         NEW r, NEW x, NEW y, NEW lr, regs = Regs(r, x, y, lr), x.is = "address"
  PROVE  /\ ip' = x.of /\ thumb' = x.t /\ stack' = stack
         /\ regs' = IF op = "blr" THEN Regs(r, x, y, Address(b, Home)) ELSE Regs(r, x, y, lr)
<1>1. /\ ip' = Dest(regs.x) /\ thumb' = regs.x.t /\ stack' = stack
      /\ regs' = IF op = "blr" THEN Put(regs, "lr", Address(Advance, Home)) ELSE regs
  BY ExecBr
<1>2. Advance = b
  BY DEF Advance
<1>3. regs.x = x
  BY RegsFields
<1>4. Dest(x) = x.of
  BY DEF Dest
<1>5. Put(regs, "lr", Address(b, Home)) = Regs(r, x, y, Address(b, Home))
  BY RegsFields
<1>6. QED
  BY <1>1, <1>2, <1>3, <1>4, <1>5

LEMMA StepPush ==
  ASSUME Execute, NEW a, NEW b, b = a + 1, ip = a, Fetch(b).op # "second",
         NEW from \in {"x", "xy"}, Fetch(a) = Push(from),
         NEW r, NEW x, NEW y, NEW lr, regs = Regs(r, x, y, lr)
  PROVE  /\ ip' = b /\ thumb' = Home /\ regs' = regs
         /\ stack' = Saved(x, IF from = "xy" THEN y ELSE Lost, Lost)
BY ExecPush, RegsFields DEF Advance

LEMMA StepStore ==
  ASSUME Execute, NEW a, NEW b, b = a + 1, ip = a, Fetch(b).op # "second",
         NEW from \in {"x", "y"}, Fetch(a) = Store(from),
         NEW r, NEW x, NEW y, NEW lr, regs = Regs(r, x, y, lr), NEW x1, NEW y1, NEW to1, stack = Saved(x1, y1, to1)
  PROVE  /\ ip' = b /\ thumb' = Home /\ regs' = regs
         /\ stack' = Saved(x1, y1, IF from = "x" THEN x ELSE y)
BY ExecStore, RegsFields DEF Advance

LEMMA StepPop ==
  ASSUME Execute, NEW a, NEW b, b = a + 1, ip = a, Fetch(b).op # "second",
         NEW rg \in {"x", "xpc", "xypc"}, Fetch(a) = Pop(rg),
         NEW r, NEW x, NEW y, NEW lr, regs = Regs(r, x, y, lr), NEW x1, NEW y1, NEW to1, stack = Saved(x1, y1, to1)
  PROVE  /\ rg = "x" => ip' = b /\ thumb' = Home
         /\ rg # "x" => ip' = Dest(to1) /\ thumb' = to1.t
         /\ regs' = Regs(r, x1, IF rg = "xypc" THEN y1 ELSE y, lr)
         /\ stack' = stack
<1>1. Advance = b
  BY DEF Advance
<1>2. /\ IF rg = "x" THEN ip' = Advance /\ thumb' = Home ELSE ip' = Dest(to1) /\ thumb' = to1.t
      /\ stack' = stack
      /\ \A r2, x2, y2, lr2 : regs = Regs(r2, x2, y2, lr2) =>
           regs' = Regs(r2, x1, IF rg = "xypc" THEN y1 ELSE y2, lr2)
  BY ExecPop
<1>3. regs' = Regs(r, x1, IF rg = "xypc" THEN y1 ELSE y, lr)
  BY <1>2
<1>4. QED
  BY <1>1, <1>2, <1>3

LEMMA StepLdrPc ==
  ASSUME Execute, NEW a, NEW b, b = a + 1, ip = a, Fetch(b).op # "second",
         NEW c \in BOOLEAN, NEW imm, Fetch(a) = LdrIf(c, "pc", imm),
         NEW v, Stored(BaseAt(fn.arch, a) + imm) = v, v.is = "address"
  PROVE  /\ regs' = regs /\ stack' = stack
         /\ ~ c \/ flag => ip' = v.of /\ thumb' = v.t
         /\ c /\ ~ flag => ip' = b /\ thumb' = Home
BY ExecLdrPc DEF Advance, Dest

LEMMA SignSmall == \A imm \in 0 .. 63 : SignExtend(imm) = imm
BY RewriteAssumption DEF SignExtend

LEMMA StepBIf ==
  ASSUME Execute, NEW a, NEW b, b = a + 1, ip = a, Fetch(b).op # "second",
         NEW c \in BOOLEAN, NEW imm \in 0 .. 63, Fetch(a) = BIf(c, imm)
  PROVE  /\ regs' = regs /\ stack' = stack /\ thumb' = Home
         /\ ~ c \/ flag => ip' = PcAt(fn.arch, a) + imm
         /\ c /\ ~ flag => ip' = b
BY ExecB, SignSmall DEF Advance

LEMMA StepB ==
  ASSUME Execute, NEW a, NEW b, b = a + 1, ip = a, Fetch(b).op # "second", NEW imm \in 0 .. 63, Fetch(a) = B(imm)
  PROVE  regs' = regs /\ stack' = stack /\ thumb' = Home /\ ip' = PcAt(fn.arch, a) + imm
<1>1. Fetch(a) = BIf(FALSE, imm)
  BY Unconditional
<1>2. QED
  BY <1>1, StepBIf

(* A jump on the condition of the instruction itself.                      *)
IfTaken(imm) == BIf(TRUE, imm)

LEMMA StepIfTaken ==
  ASSUME Execute, NEW a, NEW b, b = a + 1, ip = a, Fetch(b).op # "second",
         NEW imm \in 0 .. 63, Fetch(a) = IfTaken(imm)
  PROVE  /\ regs' = regs /\ stack' = stack /\ thumb' = Home
         /\ flag => ip' = PcAt(fn.arch, a) + imm
         /\ ~ flag => ip' = b
<1>1. Fetch(a) = BIf(TRUE, imm) /\ TRUE \in BOOLEAN
  BY DEF IfTaken
<1>2. /\ regs' = regs /\ stack' = stack /\ thumb' = Home
      /\ ~ TRUE \/ flag => ip' = PcAt(fn.arch, a) + imm
      /\ TRUE /\ ~ flag => ip' = b
  BY <1>1, StepBIf
<1>3. QED
  BY <1>2

LEMMA WordOps ==
  /\ \A imm : B(imm).op = "b"
  /\ \A c, imm : BIf(c, imm).op = "b"
  /\ \A imm : IfTaken(imm).op = "b"
  /\ \A to, imm : Ldr(to, imm).op = "ldr"
  /\ \A c, to, imm : LdrIf(c, to, imm).op = "ldr"
  /\ \A c, imm : Link(c, imm).op = "link"
  /\ \A to, from, len : Load(to, from, len).op = "load"
  /\ \A op, to, from : Set(op, to, from).op = op
  /\ \A rg : Push(rg).op = "push" /\ Pop(rg).op = "pop" /\ Store(rg).op = "store"
  /\ \A inst : Plain(inst).op = "plain"
  /\ Nop.op = "nop" /\ Second.op = "second"
  /\ \A op, v : Data(op, v).op = op /\ Data(op, v).v = v
BY DEF B, IfTaken, BIf, Ldr, LdrIf, Link, Load, Set, Push, Pop, Store, Plain, Nop, Second, Data, Word

LEMMA StoredHalves ==
  ASSUME NEW a, NEW b, b = a + 1, NEW v, Fetch(a) = Data("low", v), Fetch(b) = Data("high", v)
  PROVE  Stored(a) = v
BY WordOps DEF Stored

LEMMA StoredWhole ==
  ASSUME NEW a, NEW v, Fetch(a) = Data("whole", v)
  PROVE  Stored(a) = v
BY WordOps DEF Stored

(* A jump to an address that is stored.                                    *)
LEMMA StepLdrTo ==
  ASSUME Execute, NEW a, ip = a, NEW imm, Fetch(a) = Ldr("pc", imm),
         NEW v, Stored(BaseAt(fn.arch, a) + imm) = v, v.is = "address"
  PROVE  regs' = regs /\ stack' = stack /\ ip' = v.of /\ thumb' = v.t
<1>1. Fetch(ip) = LdrIf(FALSE, "pc", imm) /\ FALSE \in BOOLEAN
  BY Unconditional
<1>2. /\ regs' = regs /\ stack' = stack
      /\ ip' = Dest(v) /\ thumb' = v.t
  BY <1>1, ExecLdrPc
<1>3. QED
  BY <1>2 DEF Dest

(* Instructions of two halfwords.                                          *)
LEMMA StepWideLdr ==
  ASSUME Execute, NEW a, NEW b, b = a + 2, ip = a, Fetch(a + 1) = Second, NEW to \in {"r", "x", "y"}, NEW imm,
         Fetch(a) = Ldr(to, imm),
         NEW v, Stored(BaseAt(fn.arch, a) + imm) = v,
         NEW r, NEW x, NEW y, NEW lr, regs = Regs(r, x, y, lr)
  PROVE  /\ ip' = b /\ thumb' = Home /\ stack' = stack
         /\ to = "r" => regs' = Regs(v, x, y, lr)
         /\ to = "x" => regs' = Regs(r, v, y, lr)
         /\ to = "y" => regs' = Regs(r, x, v, lr)
<1>1. Fetch(ip) = LdrIf(FALSE, to, imm)
  BY Unconditional
<1>2. Stays(IF ~ FALSE \/ flag THEN Put(regs, to, Stored(BaseAt(fn.arch, ip) + imm)) ELSE regs)
  BY <1>1, ExecLdr
<1>3. Stays(Put(Regs(r, x, y, lr), to, v))
  BY <1>2
<1>4. Advance = b
  BY WordOps DEF Advance
<1>5. ip' = b /\ thumb' = Home /\ stack' = stack /\ regs' = Put(Regs(r, x, y, lr), to, v)
  BY <1>3, <1>4 DEF Stays
<1>6. QED
  BY <1>5, RegsFields

LEMMA StepWideLoad ==
  ASSUME Execute, NEW a, NEW b, b = a + 2, ip = a, Fetch(a + 1) = Second,
         NEW to \in {"r", "x", "y"}, NEW from \in {"r", "x"}, NEW len, Fetch(a) = Load(to, from, len),
         NEW r, NEW x, NEW y, NEW lr, regs = Regs(r, x, y, lr),
         NEW v, Loaded(IF from = "r" THEN r ELSE x, len) = v
  PROVE  /\ ip' = b /\ thumb' = Home /\ stack' = stack
         /\ to = "r" => regs' = Regs(v, x, y, lr)
         /\ to = "x" => regs' = Regs(r, v, y, lr)
         /\ to = "y" => regs' = Regs(r, x, v, lr)
<1>1. Stays(Put(regs, to, Loaded(regs[from], len)))
  BY ExecLoad
<1>2. Stays(Put(Regs(r, x, y, lr), to, v))
  BY <1>1, RegsFields
<1>3. Advance = b
  BY WordOps DEF Advance
<1>4. ip' = b /\ thumb' = Home /\ stack' = stack /\ regs' = Put(Regs(r, x, y, lr), to, v)
  BY <1>2, <1>3 DEF Stays
<1>5. QED
  BY <1>4, RegsFields

LEMMA StepWideSet ==
  ASSUME Execute, NEW a, NEW b, b = a + 2, ip = a, Fetch(a + 1) = Second,
         NEW op \in {"move", "sum", "index", "thumb"}, NEW to \in {"r", "x", "y"}, Fetch(a) = Set(op, to, "x"),
         NEW r, NEW x, NEW y, NEW lr, regs = Regs(r, x, y, lr),
         NEW v, Compute(op, x) = v
  PROVE  /\ ip' = b /\ thumb' = Home /\ stack' = stack
         /\ to = "r" => regs' = Regs(v, x, y, lr)
         /\ to = "x" => regs' = Regs(r, v, y, lr)
         /\ to = "y" => regs' = Regs(r, x, v, lr)
<1>1. Stays(Put(regs, to, Compute(op, regs["x"])))
  BY ExecSet
<1>2. Stays(Put(Regs(r, x, y, lr), to, v))
  BY <1>1, RegsFields
<1>3. Advance = b
  BY WordOps DEF Advance
<1>4. ip' = b /\ thumb' = Home /\ stack' = stack /\ regs' = Put(Regs(r, x, y, lr), to, v)
  BY <1>2, <1>3 DEF Stays
<1>5. QED
  BY <1>4, RegsFields

LEMMA StepWidePlain ==
  ASSUME Execute, NEW a, NEW b, b = a + 2, ip = a, Fetch(a + 1) = Second,
         NEW inst, inst.c \in BOOLEAN, Fetch(a) = Plain(inst),
         NEW r, NEW x, NEW y, NEW lr, regs = Regs(r, x, y, lr)
  PROVE  /\ ip' = b /\ thumb' = Home /\ stack' = stack
         /\ ~ inst.c \/ flag => regs' = Regs(Computed(inst.imm), x, y, lr)
         /\ inst.c /\ ~ flag => regs' = Regs(r, x, y, lr)
<1>1. Stays(IF ~ inst.c \/ flag THEN Put(regs, "r", Computed(inst.imm)) ELSE regs)
  BY ExecPlain
<1>2. Put(regs, "r", Computed(inst.imm)) = Regs(Computed(inst.imm), x, y, lr)
  BY RegsFields
<1>3. Advance = b
  BY WordOps DEF Advance
<1>4. QED
  BY <1>1, <1>2, <1>3 DEF Stays

LEMMA StepWideNop ==
  ASSUME Execute, NEW a, NEW b, b = a + 2, ip = a, Fetch(a + 1) = Second, Fetch(a) = Nop
  PROVE  ip' = b /\ thumb' = Home /\ stack' = stack /\ regs' = regs
BY ExecNop, WordOps DEF Stays, Advance

LinkAlways(imm) == Link(FALSE, imm)

LEMMA StepLinkAlways ==
  ASSUME Execute, NEW a, NEW b, b = a + 2, ip = a, Fetch(a + 1) = Second, NEW imm, Fetch(a) = LinkAlways(imm),
         NEW r, NEW x, NEW y, NEW lr, regs = Regs(r, x, y, lr)
  PROVE  /\ ip' = b /\ thumb' = Home /\ stack' = stack
         /\ regs' = Regs(r, x, y, Address(BaseAt(fn.arch, a) + imm, Home))
<1>1. Fetch(ip) = Link(FALSE, imm) /\ FALSE \in BOOLEAN
  BY DEF LinkAlways
<1>2. Stays(IF ~ FALSE \/ flag THEN Put(regs, "lr", Address(BaseAt(fn.arch, ip) + imm, Home)) ELSE regs)
  BY <1>1, ExecLink
<1>3. Put(regs, "lr", Address(BaseAt(fn.arch, ip) + imm, Home)) = Regs(r, x, y, Address(BaseAt(fn.arch, a) + imm, Home))
  BY RegsFields
<1>4. Advance = b
  BY WordOps DEF Advance
<1>5. Stays(Put(regs, "lr", Address(BaseAt(fn.arch, ip) + imm, Home)))
  BY <1>2
<1>6. QED
  BY <1>3, <1>4, <1>5 DEF Stays

(* An entry of a table, and an address of Thumb code.                      *)
Indexed(v, g) == [v EXCEPT !.of = @ + IF g THEN 4 ELSE 0]
Marked(v) == [v EXCEPT !.t = TRUE]

LEMMA ThumbBase ==
  ASSUME NEW o \in Nat, o % 2 = 0, fn.arch = "thumb"
  PROVE  /\ BaseAt(fn.arch, o) = o + 2 /\ BaseAt(fn.arch, o + 1) = o + 2
         /\ BaseAt(fn.arch, o + 2) = o + 4
         /\ BaseAt(fn.arch, o + 3) = o + 4
         /\ BaseAt(fn.arch, o + 4) = o + 6
         /\ BaseAt(fn.arch, o + 5) = o + 6
         /\ BaseAt(fn.arch, o + 6) = o + 8
         /\ BaseAt(fn.arch, o + 7) = o + 8
         /\ BaseAt(fn.arch, o + 8) = o + 10
         /\ BaseAt(fn.arch, o + 9) = o + 10
         /\ BaseAt(fn.arch, o + 10) = o + 12
         /\ BaseAt(fn.arch, o + 11) = o + 12
         /\ BaseAt(fn.arch, o + 12) = o + 14
         /\ BaseAt(fn.arch, o + 13) = o + 14
<1>1. PICK q \in Nat : o = 2 * q
  BY o = 2 * (o \div 2)
<1>2. QED
  BY <1>1 DEF BaseAt, PcAt

----------------------------------------------------------------------------
(* What a rewritten instruction has done when it is left, if it was        *)
(* entered with these registers and this condition: to is what it refers   *)
(* to, where that lies now, pcv what PC was.                               *)
Skips(inst, g) == IF inst.kind \in {"B_COND", "CBZ"} THEN ~ g ELSE inst.c /\ ~ g

Done(inst, to, pcv, g, end, r, x, y, lr, p, t, rg) ==
  \E xx :
    /\ xx = x \/ (fn.arch = "arm64" /\ inst.kind \in Branches)
    /\ LET falls(r1)    == p = end /\ t = Home /\ rg = Regs(r1, xx, y, lr)
           goes(v, lr1) == p = v.of /\ t = v.t /\ rg = Regs(r, xx, y, lr1)
       IN IF Skips(inst, g) THEN falls(r)
          ELSE /\ inst.kind = "IGNORED" => falls(Computed(inst.imm))
               /\ inst.kind \in {"B", "B_COND", "CBZ", "BX"} => goes(to, lr)
               /\ inst.kind \in {"BL", "BLX"} => goes(to, Address(end, Home))
               /\ inst.kind = "ADR" => falls(to)
               /\ inst.kind = "MOV" => falls(pcv)
               /\ inst.kind = "ADD" => falls(Sum(pcv.of))
               /\ inst.kind \in {"LDR", "VLDR"} => falls(Content(to.of, inst.len))
               /\ inst.kind = "LDR_REG" => falls(Content(pcv.of, inst.len))
               /\ inst.kind = "PLD" => falls(r)
               /\ inst.kind = "MOV_PC" => goes(pcv, lr)
               /\ inst.kind \in {"LDR_PC", "LDR_REG_PC"} => goes(Address(Pointee, FALSE), lr)
               /\ inst.kind \in {"TB", "ADD_PC"} => goes(Address(pcv.of + IF g THEN 4 ELSE 0, Home), lr)
LEMMA A64Words ==
  ASSUME NEW inst \in A64!Insts, NEW to, NEW inHead \in BOOLEAN, NEW s,
         s = A64!Rewrite(inst, to, inHead), s # << >>
  PROVE  /\ IsSeq(s) /\ Len(s) = A64!InstLen(inst) /\ Len(s) \in Nat /\ Len(s) >= 1 /\ Len(s) <= 7 /\ s[1].op # "second"
         /\ inst.kind = "B" =>
              /\ s[1] = Ldr("x", 2) /\ s[2] = B(3) /\ s[3] = Data("low", to) /\ s[4] = Data("high", to)
              /\ s[5] = Set("br", "pc", "x")
         /\ inst.kind = "BL" =>
              /\ s[1] = Ldr("x", 2) /\ s[2] = B(3) /\ s[3] = Data("low", to) /\ s[4] = Data("high", to)
              /\ s[5] = Set("blr", "pc", "x")
         /\ inst.kind = "B_COND" =>
              /\ s[1] = IfTaken(2) /\ s[2] = B(6) /\ s[3] = Ldr("x", 2) /\ s[4] = B(3)
              /\ s[5] = Data("low", to) /\ s[6] = Data("high", to) /\ s[7] = Set("br", "pc", "x")
         /\ inst.kind = "ADR" =>
              /\ ~ inHead
              /\ s[1] = Ldr("r", 2) /\ s[2] = B(3) /\ s[3] = Data("low", to) /\ s[4] = Data("high", to)
         /\ inst.kind = "LDR" =>
              /\ ~ inHead
              /\ s[1] = Ldr("r", 3) /\ s[2] = Load("r", "r", inst.len) /\ s[3] = B(3)
              /\ s[4] = Data("low", to) /\ s[5] = Data("high", to)
         /\ inst.kind = "PLD" =>
              /\ s[1] = Push("x") /\ s[2] = Ldr("x", 4) /\ s[3] = Nop /\ s[4] = Pop("x") /\ s[5] = B(3)
              /\ s[6] = Data("low", to) /\ s[7] = Data("high", to)
         /\ inst.kind = "VLDR" =>
              /\ ~ inHead
              /\ s[1] = Push("x") /\ s[2] = Ldr("x", 4) /\ s[3] = Load("r", "x", inst.len) /\ s[4] = Pop("x")
              /\ s[5] = B(3) /\ s[6] = Data("low", to) /\ s[7] = Data("high", to)
         /\ inst.kind = "CBZ" =>
              /\ s[1] = IfTaken(2) /\ s[2] = B(5) /\ s[3] = Ldr("x", 2) /\ s[4] = Set("br", "pc", "x")
              /\ s[5] = Data("low", to) /\ s[6] = Data("high", to)
         /\ inst.kind = "IGNORED" =>
              /\ s[1] = Plain(inst)
<1>1. inst.kind \in {"IGNORED", "B", "B_COND", "BL", "ADR", "LDR", "PLD", "VLDR", "CBZ"}
  BY DEF A64!Insts, A64!InstsOf
<1>2. CASE inst.kind = "B"
  <2>1. s = A64!RewriteB(inst, to)
    BY <1>1, <1>2 DEF A64!Rewrite
  <2>2. s = << >> \o <<Ldr("x", 2), B(3)>> \o <<Data("low", to), Data("high", to)>> \o <<Set("br", "pc", "x")>>
    BY <1>2, <2>1, A64Ops DEF A64!RewriteB
  <2>a. Len(s) = 5 /\ s[1] = Ldr("x", 2) /\ s[2] = B(3) /\ s[3] = Data("low", to) /\ s[4] = Data("high", to) /\ s[5] = Set("br", "pc", "x")
    BY <2>2
  <2>b. s \in Seq({Ldr("x", 2), B(3), Data("low", to), Data("high", to), Set("br", "pc", "x")})
    BY <2>2
  <2>3. IsSeq(s)
    BY <2>b DEF IsSeq
  <2>4. A64!InstLen(inst) = 5
    BY <1>2 DEF A64!InstLen
  <2>5. s[1].op # "second"
    BY <2>a, WordOps
  <2>6. QED
    BY <1>2, <2>a, <2>3, <2>4, <2>5
<1>3. CASE inst.kind = "BL"
  <2>1. s = A64!RewriteB(inst, to)
    BY <1>1, <1>3 DEF A64!Rewrite
  <2>2. s = << >> \o <<Ldr("x", 2), B(3)>> \o <<Data("low", to), Data("high", to)>> \o <<Set("blr", "pc", "x")>>
    BY <1>3, <2>1, A64Ops DEF A64!RewriteB
  <2>a. Len(s) = 5 /\ s[1] = Ldr("x", 2) /\ s[2] = B(3) /\ s[3] = Data("low", to) /\ s[4] = Data("high", to) /\ s[5] = Set("blr", "pc", "x")
    BY <2>2
  <2>b. s \in Seq({Ldr("x", 2), B(3), Data("low", to), Data("high", to), Set("blr", "pc", "x")})
    BY <2>2
  <2>3. IsSeq(s)
    BY <2>b DEF IsSeq
  <2>4. A64!InstLen(inst) = 5
    BY <1>3 DEF A64!InstLen
  <2>5. s[1].op # "second"
    BY <2>a, WordOps
  <2>6. QED
    BY <1>3, <2>a, <2>3, <2>4, <2>5
<1>4. CASE inst.kind = "B_COND"
  <2>1. s = A64!RewriteB(inst, to)
    BY <1>1, <1>4 DEF A64!Rewrite
  <2>2. s = <<IfTaken(2), B(6)>> \o <<Ldr("x", 2), B(3)>> \o <<Data("low", to), Data("high", to)>> \o <<Set("br", "pc", "x")>>
    BY <1>4, <2>1, A64Ops DEF A64!RewriteB, IfTaken
  <2>a. Len(s) = 7 /\ s[1] = IfTaken(2) /\ s[2] = B(6) /\ s[3] = Ldr("x", 2) /\ s[4] = B(3) /\ s[5] = Data("low", to) /\ s[6] = Data("high", to) /\ s[7] = Set("br", "pc", "x")
    BY <2>2
  <2>b. s \in Seq({IfTaken(2), B(6), Ldr("x", 2), B(3), Data("low", to), Data("high", to), Set("br", "pc", "x")})
    BY <2>2
  <2>3. IsSeq(s)
    BY <2>b DEF IsSeq
  <2>4. A64!InstLen(inst) = 7
    BY <1>4 DEF A64!InstLen
  <2>5. s[1].op # "second"
    BY <2>a, WordOps
  <2>6. QED
    BY <1>4, <2>a, <2>3, <2>4, <2>5
<1>5. CASE inst.kind = "ADR"
  <2>1. s = A64!RewriteAdr(to, inHead)
    BY <1>1, <1>5 DEF A64!Rewrite
  <2>2. s = <<Ldr("r", 2), B(3)>> \o <<Data("low", to), Data("high", to)>> /\ ~ inHead
    BY <1>5, <2>1, A64Ops DEF A64!RewriteAdr
  <2>a. Len(s) = 4 /\ s[1] = Ldr("r", 2) /\ s[2] = B(3) /\ s[3] = Data("low", to) /\ s[4] = Data("high", to)
    BY <2>2
  <2>b. s \in Seq({Ldr("r", 2), B(3), Data("low", to), Data("high", to)})
    BY <2>2
  <2>3. IsSeq(s)
    BY <2>b DEF IsSeq
  <2>4. A64!InstLen(inst) = 4
    BY <1>5 DEF A64!InstLen
  <2>5. s[1].op # "second"
    BY <2>a, WordOps
  <2>6. QED
    BY <1>5, <2>2, <2>a, <2>3, <2>4, <2>5
<1>6. CASE inst.kind = "LDR"
  <2>1. s = A64!RewriteLdr(inst, to, inHead)
    BY <1>1, <1>6 DEF A64!Rewrite
  <2>2. s = <<Ldr("r", 3), Load("r", "r", inst.len), B(3)>> \o <<Data("low", to), Data("high", to)>> /\ ~ inHead
    BY <1>6, <2>1, A64Ops DEF A64!RewriteLdr
  <2>a. Len(s) = 5 /\ s[1] = Ldr("r", 3) /\ s[2] = Load("r", "r", inst.len) /\ s[3] = B(3) /\ s[4] = Data("low", to) /\ s[5] = Data("high", to)
    BY <2>2
  <2>b. s \in Seq({Ldr("r", 3), Load("r", "r", inst.len), B(3), Data("low", to), Data("high", to)})
    BY <2>2
  <2>3. IsSeq(s)
    BY <2>b DEF IsSeq
  <2>4. A64!InstLen(inst) = 5
    BY <1>6 DEF A64!InstLen
  <2>5. s[1].op # "second"
    BY <2>a, WordOps
  <2>6. QED
    BY <1>6, <2>2, <2>a, <2>3, <2>4, <2>5
<1>7. CASE inst.kind = "PLD"
  <2>1. s = A64!RewriteLdr(inst, to, inHead)
    BY <1>1, <1>7 DEF A64!Rewrite
  <2>2. s = <<Push("x"), Ldr("x", 4), Nop, Pop("x"), B(3)>> \o <<Data("low", to), Data("high", to)>>
    BY <1>7, <2>1, A64Ops DEF A64!RewriteLdr
  <2>a. Len(s) = 7 /\ s[1] = Push("x") /\ s[2] = Ldr("x", 4) /\ s[3] = Nop /\ s[4] = Pop("x") /\ s[5] = B(3) /\ s[6] = Data("low", to) /\ s[7] = Data("high", to)
    BY <2>2
  <2>b. s \in Seq({Push("x"), Ldr("x", 4), Nop, Pop("x"), B(3), Data("low", to), Data("high", to)})
    BY <2>2
  <2>3. IsSeq(s)
    BY <2>b DEF IsSeq
  <2>4. A64!InstLen(inst) = 7
    BY <1>7 DEF A64!InstLen
  <2>5. s[1].op # "second"
    BY <2>a, WordOps
  <2>6. QED
    BY <1>7, <2>a, <2>3, <2>4, <2>5
<1>8. CASE inst.kind = "VLDR"
  <2>1. s = A64!RewriteLdr(inst, to, inHead)
    BY <1>1, <1>8 DEF A64!Rewrite
  <2>2. s = <<Push("x"), Ldr("x", 4), Load("r", "x", inst.len), Pop("x"), B(3)>> \o <<Data("low", to), Data("high", to)>> /\ ~ inHead
    BY <1>8, <2>1, A64Ops DEF A64!RewriteLdr
  <2>a. Len(s) = 7 /\ s[1] = Push("x") /\ s[2] = Ldr("x", 4) /\ s[3] = Load("r", "x", inst.len) /\ s[4] = Pop("x") /\ s[5] = B(3) /\ s[6] = Data("low", to) /\ s[7] = Data("high", to)
    BY <2>2
  <2>b. s \in Seq({Push("x"), Ldr("x", 4), Load("r", "x", inst.len), Pop("x"), B(3), Data("low", to), Data("high", to)})
    BY <2>2
  <2>3. IsSeq(s)
    BY <2>b DEF IsSeq
  <2>4. A64!InstLen(inst) = 7
    BY <1>8 DEF A64!InstLen
  <2>5. s[1].op # "second"
    BY <2>a, WordOps
  <2>6. QED
    BY <1>8, <2>2, <2>a, <2>3, <2>4, <2>5
<1>9. CASE inst.kind = "CBZ"
  <2>1. s = A64!RewriteCb(to)
    BY <1>1, <1>9 DEF A64!Rewrite
  <2>2. s = <<IfTaken(2), B(5), Ldr("x", 2), Set("br", "pc", "x")>> \o <<Data("low", to), Data("high", to)>>
    BY <1>9, <2>1, A64Ops DEF A64!RewriteCb, IfTaken
  <2>a. Len(s) = 6 /\ s[1] = IfTaken(2) /\ s[2] = B(5) /\ s[3] = Ldr("x", 2) /\ s[4] = Set("br", "pc", "x") /\ s[5] = Data("low", to) /\ s[6] = Data("high", to)
    BY <2>2
  <2>b. s \in Seq({IfTaken(2), B(5), Ldr("x", 2), Set("br", "pc", "x"), Data("low", to), Data("high", to)})
    BY <2>2
  <2>3. IsSeq(s)
    BY <2>b DEF IsSeq
  <2>4. A64!InstLen(inst) = 6
    BY <1>9 DEF A64!InstLen
  <2>5. s[1].op # "second"
    BY <2>a, WordOps
  <2>6. QED
    BY <1>9, <2>a, <2>3, <2>4, <2>5
<1>10. CASE inst.kind = "IGNORED"
  <2>1. s = <<A64!Plain(inst)>>
    BY <1>1, <1>10 DEF A64!Rewrite
  <2>2. s = <<Plain(inst)>>
    BY <2>1, A64Ops
  <2>a. Len(s) = 1 /\ s[1] = Plain(inst)
    BY <2>2
  <2>b. s \in Seq({Plain(inst)})
    BY <2>2
  <2>3. IsSeq(s)
    BY <2>b DEF IsSeq
  <2>4. A64!InstLen(inst) = 1
    BY <1>10 DEF A64!InstLen
  <2>5. s[1].op # "second"
    BY <2>a, WordOps
  <2>6. QED
    BY <1>10, <2>a, <2>3, <2>4, <2>5
<1>11. QED
  BY <1>1, <1>2, <1>3, <1>4, <1>5, <1>6, <1>7, <1>8, <1>9, <1>10

LEMMA StepPopX ==
  ASSUME Execute, NEW a, NEW b, b = a + 1, ip = a, Fetch(b).op # "second", Fetch(a) = Pop("x"),
         NEW r, NEW x, NEW y, NEW lr, regs = Regs(r, x, y, lr),
         NEW x1, NEW y1, NEW to1, stack = Saved(x1, y1, to1)
  PROVE  ip' = b /\ thumb' = Home /\ stack' = stack /\ regs' = Regs(r, x1, y, lr)
<1>1. "x" \in {"x", "xpc", "xypc"}
  OBVIOUS
<1>2. /\ "x" = "x" => ip' = b /\ thumb' = Home
      /\ "x" # "x" => ip' = Dest(to1) /\ thumb' = to1.t
      /\ regs' = Regs(r, x1, IF "x" = "xypc" THEN y1 ELSE y, lr)
      /\ stack' = stack
  BY <1>1, StepPop, Zenon
<1>3. ip' = b /\ thumb' = Home /\ stack' = stack /\ ("x" = "xypc" \/ regs' = Regs(r, x1, y, lr))
  BY <1>2
<1>4. QED
  BY <1>3

LEMMA StepPopPc ==
  ASSUME Execute, NEW a, NEW b, b = a + 1, ip = a, Fetch(b).op # "second",
         NEW rg \in {"xpc", "xypc"}, Fetch(a) = Pop(rg),
         NEW r, NEW x, NEW y, NEW lr, regs = Regs(r, x, y, lr),
         NEW x1, NEW y1, NEW to1, stack = Saved(x1, y1, to1)
  PROVE  /\ ip' = Dest(to1) /\ thumb' = to1.t /\ stack' = stack
         /\ regs' = Regs(r, x1, IF rg = "xypc" THEN y1 ELSE y, lr)
<1>1. rg \in {"x", "xpc", "xypc"} /\ rg # "x"
  OBVIOUS
<1>2. IF rg = "x" THEN ip' = Advance /\ thumb' = Home ELSE ip' = Dest(to1) /\ thumb' = to1.t
  <2>1. rg \in {"x", "xpc", "xypc"}
    BY <1>1
  <2>2. QED
    BY <2>1, ExecPop
<1>3. /\ stack' = stack
      /\ \A r2, x2, y2, lr2 : regs = Regs(r2, x2, y2, lr2) =>
           regs' = Regs(r2, x1, IF rg = "xypc" THEN y1 ELSE y2, lr2)
  <2>1. rg \in {"x", "xpc", "xypc"}
    BY <1>1
  <2>2. QED
    BY <2>1, ExecPop, Zenon
<1>4. regs' = Regs(r, x1, IF rg = "xypc" THEN y1 ELSE y, lr)
  BY <1>3, Zenon
<1>5. QED
  BY <1>1, <1>2, <1>3, <1>4

LEMMA StepBlr ==
  ASSUME Execute, NEW a, NEW b, b = a + 1, ip = a, Fetch(b).op # "second", Fetch(a) = Set("blr", "pc", "x"),
         NEW r, NEW x, NEW y, NEW lr, regs = Regs(r, x, y, lr), x.is = "address"
  PROVE  ip' = x.of /\ thumb' = x.t /\ stack' = stack /\ regs' = Regs(r, x, y, Address(b, Home))
<1>1. "blr" \in {"br", "blr"}
  OBVIOUS
<1>2. regs' = IF "blr" = "blr" THEN Regs(r, x, y, Address(b, Home)) ELSE Regs(r, x, y, lr)
  BY <1>1, StepBr
<1>3. ip' = x.of /\ thumb' = x.t /\ stack' = stack
  BY <1>1, StepBr
<1>4. QED
  BY <1>2, <1>3
----------------------------------------------------------------------------
(* The points at which a thread is in the rewritten form of an instruction *)
(* of arm64, which begins at o, and what it holds there.                   *)
A64Mid(inst, to, pcv, o, g, r, x, y, lr, p, rg, st) ==
  \/ p = o /\ rg = Regs(r, x, y, lr)
  \/ inst.kind \in {"B", "BL"} /\ p = o + 1 /\ rg = Regs(r, to, y, lr)
  \/ inst.kind \in {"B", "BL"} /\ p = o + 4 /\ rg = Regs(r, to, y, lr)
  \/ inst.kind \in {"B_COND", "CBZ"} /\ ~ g /\ p = o + 1 /\ rg = Regs(r, x, y, lr)
  \/ inst.kind \in {"B_COND", "CBZ"} /\ g /\ p = o + 2 /\ rg = Regs(r, x, y, lr)
  \/ inst.kind \in {"B_COND", "CBZ"} /\ g /\ p = o + 3 /\ rg = Regs(r, to, y, lr)
  \/ inst.kind = "B_COND" /\ g /\ p = o + 6 /\ rg = Regs(r, to, y, lr)
  \/ inst.kind \in {"ADR", "LDR"} /\ p = o + 1 /\ rg = Regs(to, x, y, lr)
  \/ inst.kind = "LDR" /\ p = o + 2 /\ rg = Regs(Content(to.of, inst.len), x, y, lr)
  \/ inst.kind \in {"PLD", "VLDR"} /\ p = o + 1 /\ rg = Regs(r, x, y, lr) /\ st = Saved(x, Lost, Lost)
  \/ inst.kind \in {"PLD", "VLDR"} /\ p = o + 2 /\ rg = Regs(r, to, y, lr) /\ st = Saved(x, Lost, Lost)
  \/ inst.kind = "PLD" /\ p = o + 3 /\ rg = Regs(r, to, y, lr) /\ st = Saved(x, Lost, Lost)
  \/ inst.kind = "PLD" /\ p = o + 4 /\ rg = Regs(r, x, y, lr)
  \/ inst.kind = "VLDR" /\ p = o + 3 /\ rg = Regs(Content(to.of, inst.len), to, y, lr) /\ st = Saved(x, Lost, Lost)
  \/ inst.kind = "VLDR" /\ p = o + 4 /\ rg = Regs(Content(to.of, inst.len), x, y, lr)

A64Now(inst, to, pcv, o, r, x, y, lr) ==
  A64Mid(inst, to, pcv, o, flag, r, x, y, lr, ip, regs, stack)
A64Next(inst, to, pcv, o, r, x, y, lr) ==
  A64Mid(inst, to, pcv, o, flag, r, x, y, lr, ip', regs', stack')
LEMMA A64Step ==
  ASSUME Execute, fn.arch = "arm64", NEW inst \in A64!Insts, NEW inHead \in BOOLEAN, NEW s, NEW o, CodeAt(o, s),
         NEW to, to.is = "address", s = A64!Rewrite(inst, to, inHead), s # << >>, NEW pcv,
         NEW r, NEW x, NEW y, NEW lr, A64Now(inst, to, pcv, o, r, x, y, lr),
         inst.kind \in {"LDR", "VLDR"} => Loaded(to, inst.len) = Content(to.of, inst.len)
  PROVE  \/ /\ A64Next(inst, to, pcv, o, r, x, y, lr)
            /\ thumb' = Home /\ ip' > o /\ ip' < o + Len(s)
         \/ Done(inst, to, pcv, flag, o + Len(s), r, x, y, lr, ip', thumb', regs')
<1>1. /\ inst.kind \in {"IGNORED", "B", "B_COND", "BL", "ADR", "LDR", "PLD", "VLDR", "CBZ"} /\ inst.c \in BOOLEAN /\ ~ inst.c
      /\ Fetch(o + Len(s)).op # "second" /\ o \in Nat /\ fn.arch = "arm64" /\ to.is = "address"
      /\ inst.kind \in {"LDR", "VLDR"} => Loaded(to, inst.len) = Content(to.of, inst.len)
      /\ A64Now(inst, to, pcv, o, r, x, y, lr)
  BY DEF A64!Insts, A64!InstsOf, CodeAt
<1>c. ~ inst.c /\ fn.arch = "arm64"
  BY <1>1
<1>2. CASE inst.kind = "B"
  <2>a. Len(s) = 5 /\ s[1] = Ldr("x", 2) /\ s[2] = B(3) /\ s[3] = Data("low", to) /\ s[4] = Data("high", to) /\ s[5] = Set("br", "pc", "x")
    BY <1>1, <1>2, A64Words DEF A64!InstLen
  <2>0. Len(s) = 5 /\ o \in Nat
    BY <1>1, <2>a
  <2>c. (Len(s) > 0 => Fetch(o) = s[1]) /\ (Len(s) > 1 => Fetch(o + 1) = s[2]) /\ (Len(s) > 2 => Fetch(o + 2) = s[3]) /\ (Len(s) > 3 => Fetch(o + 3) = s[4]) /\ (Len(s) > 4 => Fetch(o + 4) = s[5])
    BY CodeWords, Zenon
  <2>b. Fetch(o) = s[1] /\ Fetch(o + 1) = s[2] /\ Fetch(o + 2) = s[3] /\ Fetch(o + 3) = s[4] /\ Fetch(o + 4) = s[5]
    BY <2>0, <2>c
  <2>1. /\ o \in Nat
        /\ Fetch(o) = Ldr("x", 2) /\ Fetch(o + 1) = B(3) /\ Fetch(o + 2) = Data("low", to)
        /\ Fetch(o + 3) = Data("high", to) /\ Fetch(o + 4) = Set("br", "pc", "x")
    BY <2>0, <2>a, <2>b
  <2>2. Fetch(o).op # "second" /\ Fetch(o + 1).op # "second" /\ Fetch(o + 2).op # "second" /\ Fetch(o + 3).op # "second" /\ Fetch(o + 4).op # "second" /\ Fetch(o + 5).op # "second"
    BY <1>1, <2>0, <2>1, WordOps
  <2>3. CASE ip = o /\ regs = Regs(r, x, y, lr)
    <3>1. Stored(BaseAt(fn.arch, o) + 2) = to
      BY <1>1, <2>1, StoredHalves DEF BaseAt, PcAt
    <3>2. ip' = o + 1 /\ thumb' = Home /\ stack' = stack /\ regs' = Regs(r, to, y, lr)
      BY <2>1, <2>2, <2>3, <3>1, StepLdr
    <3>3. A64Next(inst, to, pcv, o, r, x, y, lr)
      BY <1>2, <1>c, <2>0, <2>3, <3>1, <3>2 DEF A64Next, A64Mid
    <3>4. ip' > o /\ ip' < o + Len(s) /\ thumb' = Home
      BY <1>2, <1>c, <2>0, <2>3, <3>1, <3>2
    <3>5. QED
      BY <3>3, <3>4
  <2>4. CASE ip = o + 1 /\ regs = Regs(r, to, y, lr)
    <3>1. ip' = o + 4 /\ thumb' = Home /\ stack' = stack /\ regs' = regs
      BY <1>1, <2>1, <2>2, <2>4, StepB DEF PcAt
    <3>2. A64Next(inst, to, pcv, o, r, x, y, lr)
      BY <1>2, <1>c, <2>0, <2>4, <3>1 DEF A64Next, A64Mid
    <3>3. ip' > o /\ ip' < o + Len(s) /\ thumb' = Home
      BY <1>2, <1>c, <2>0, <2>4, <3>1
    <3>4. QED
      BY <3>2, <3>3
  <2>5. CASE ip = o + 4 /\ regs = Regs(r, to, y, lr)
    <3>1. ip' = to.of /\ thumb' = to.t /\ stack' = stack /\ regs' = Regs(r, to, y, lr)
      BY <1>1, <2>1, <2>2, <2>5, StepBr
    <3>2. QED
      BY <1>2, <1>c, <2>0, <2>5, <3>1 DEF Done, Skips, Branches
  <2>6. QED
    BY <1>2, <2>3, <2>4, <2>5 DEF A64Now, A64Mid
<1>3. CASE inst.kind = "BL"
  <2>a. Len(s) = 5 /\ s[1] = Ldr("x", 2) /\ s[2] = B(3) /\ s[3] = Data("low", to) /\ s[4] = Data("high", to) /\ s[5] = Set("blr", "pc", "x")
    BY <1>1, <1>3, A64Words DEF A64!InstLen
  <2>0. Len(s) = 5 /\ o \in Nat
    BY <1>1, <2>a
  <2>c. (Len(s) > 0 => Fetch(o) = s[1]) /\ (Len(s) > 1 => Fetch(o + 1) = s[2]) /\ (Len(s) > 2 => Fetch(o + 2) = s[3]) /\ (Len(s) > 3 => Fetch(o + 3) = s[4]) /\ (Len(s) > 4 => Fetch(o + 4) = s[5])
    BY CodeWords, Zenon
  <2>b. Fetch(o) = s[1] /\ Fetch(o + 1) = s[2] /\ Fetch(o + 2) = s[3] /\ Fetch(o + 3) = s[4] /\ Fetch(o + 4) = s[5]
    BY <2>0, <2>c
  <2>1. /\ o \in Nat
        /\ Fetch(o) = Ldr("x", 2) /\ Fetch(o + 1) = B(3) /\ Fetch(o + 2) = Data("low", to)
        /\ Fetch(o + 3) = Data("high", to) /\ Fetch(o + 4) = Set("blr", "pc", "x")
    BY <2>0, <2>a, <2>b
  <2>2. Fetch(o).op # "second" /\ Fetch(o + 1).op # "second" /\ Fetch(o + 2).op # "second" /\ Fetch(o + 3).op # "second" /\ Fetch(o + 4).op # "second" /\ Fetch(o + 5).op # "second"
    BY <1>1, <2>0, <2>1, WordOps
  <2>3. CASE ip = o /\ regs = Regs(r, x, y, lr)
    <3>1. Stored(BaseAt(fn.arch, o) + 2) = to
      BY <1>1, <2>1, StoredHalves DEF BaseAt, PcAt
    <3>2. ip' = o + 1 /\ thumb' = Home /\ stack' = stack /\ regs' = Regs(r, to, y, lr)
      BY <2>1, <2>2, <2>3, <3>1, StepLdr
    <3>3. A64Next(inst, to, pcv, o, r, x, y, lr)
      BY <1>3, <1>c, <2>0, <2>3, <3>1, <3>2 DEF A64Next, A64Mid
    <3>4. ip' > o /\ ip' < o + Len(s) /\ thumb' = Home
      BY <1>3, <1>c, <2>0, <2>3, <3>1, <3>2
    <3>5. QED
      BY <3>3, <3>4
  <2>4. CASE ip = o + 1 /\ regs = Regs(r, to, y, lr)
    <3>1. ip' = o + 4 /\ thumb' = Home /\ stack' = stack /\ regs' = regs
      BY <1>1, <2>1, <2>2, <2>4, StepB DEF PcAt
    <3>2. A64Next(inst, to, pcv, o, r, x, y, lr)
      BY <1>3, <1>c, <2>0, <2>4, <3>1 DEF A64Next, A64Mid
    <3>3. ip' > o /\ ip' < o + Len(s) /\ thumb' = Home
      BY <1>3, <1>c, <2>0, <2>4, <3>1
    <3>4. QED
      BY <3>2, <3>3
  <2>5. CASE ip = o + 4 /\ regs = Regs(r, to, y, lr)
    <3>1. ip' = to.of /\ thumb' = to.t /\ stack' = stack /\ regs' = Regs(r, to, y, Address(o + 5, Home))
      BY <1>1, <2>1, <2>2, <2>5, StepBlr
    <3>2. QED
      BY <1>3, <1>c, <2>0, <2>5, <3>1 DEF Done, Skips, Branches
  <2>6. QED
    BY <1>3, <2>3, <2>4, <2>5 DEF A64Now, A64Mid
<1>4. CASE inst.kind = "B_COND"
  <2>a. Len(s) = 7 /\ s[1] = IfTaken(2) /\ s[2] = B(6) /\ s[3] = Ldr("x", 2) /\ s[4] = B(3) /\ s[5] = Data("low", to) /\ s[6] = Data("high", to) /\ s[7] = Set("br", "pc", "x")
    BY <1>1, <1>4, A64Words DEF A64!InstLen
  <2>0. Len(s) = 7 /\ o \in Nat
    BY <1>1, <2>a
  <2>c. (Len(s) > 0 => Fetch(o) = s[1]) /\ (Len(s) > 1 => Fetch(o + 1) = s[2]) /\ (Len(s) > 2 => Fetch(o + 2) = s[3]) /\ (Len(s) > 3 => Fetch(o + 3) = s[4]) /\ (Len(s) > 4 => Fetch(o + 4) = s[5]) /\ (Len(s) > 5 => Fetch(o + 5) = s[6]) /\ (Len(s) > 6 => Fetch(o + 6) = s[7])
    BY CodeWords, Zenon
  <2>b. Fetch(o) = s[1] /\ Fetch(o + 1) = s[2] /\ Fetch(o + 2) = s[3] /\ Fetch(o + 3) = s[4] /\ Fetch(o + 4) = s[5] /\ Fetch(o + 5) = s[6] /\ Fetch(o + 6) = s[7]
    BY <2>0, <2>c
  <2>1. /\ o \in Nat
        /\ Fetch(o) = IfTaken(2) /\ Fetch(o + 1) = B(6) /\ Fetch(o + 2) = Ldr("x", 2)
        /\ Fetch(o + 3) = B(3) /\ Fetch(o + 4) = Data("low", to) /\ Fetch(o + 5) = Data("high", to)
        /\ Fetch(o + 6) = Set("br", "pc", "x")
    BY <2>0, <2>a, <2>b
  <2>2. Fetch(o).op # "second" /\ Fetch(o + 1).op # "second" /\ Fetch(o + 2).op # "second" /\ Fetch(o + 3).op # "second" /\ Fetch(o + 4).op # "second" /\ Fetch(o + 5).op # "second" /\ Fetch(o + 6).op # "second" /\ Fetch(o + 7).op # "second"
    BY <1>1, <2>0, <2>1, WordOps
  <2>3. CASE ip = o /\ regs = Regs(r, x, y, lr)
    <3>1. thumb' = Home /\ stack' = stack /\ regs' = regs
      BY <2>1, <2>2, <2>3, StepIfTaken
    <3>2. (flag => ip' = o + 2) /\ (~ flag => ip' = o + 1)
      BY <1>1, <2>1, <2>2, <2>3, StepIfTaken DEF PcAt
    <3>3. CASE flag
      <4>1. A64Next(inst, to, pcv, o, r, x, y, lr)
        BY <1>4, <1>c, <2>0, <2>3, <3>1, <3>2, <3>3 DEF A64Next, A64Mid
      <4>2. ip' > o /\ ip' < o + Len(s) /\ thumb' = Home
        BY <1>4, <1>c, <2>0, <2>3, <3>1, <3>2, <3>3
      <4>3. QED
        BY <4>1, <4>2
    <3>4. CASE ~ flag
      <4>1. A64Next(inst, to, pcv, o, r, x, y, lr)
        BY <1>4, <1>c, <2>0, <2>3, <3>1, <3>2, <3>4 DEF A64Next, A64Mid
      <4>2. ip' > o /\ ip' < o + Len(s) /\ thumb' = Home
        BY <1>4, <1>c, <2>0, <2>3, <3>1, <3>2, <3>4
      <4>3. QED
        BY <4>1, <4>2
    <3>5. QED
      BY <3>3, <3>4
  <2>4. CASE ip = o + 1 /\ regs = Regs(r, x, y, lr) /\ ~ flag
    <3>1. ip' = o + 7 /\ thumb' = Home /\ stack' = stack /\ regs' = regs
      BY <1>1, <2>1, <2>2, <2>4, StepB DEF PcAt
    <3>2. QED
      BY <1>4, <1>c, <2>0, <2>4, <3>1 DEF Done, Skips, Branches
  <2>5. CASE ip = o + 2 /\ regs = Regs(r, x, y, lr) /\ flag
    <3>1. Stored(BaseAt(fn.arch, o + 2) + 2) = to
      BY <1>1, <2>1, StoredHalves DEF BaseAt, PcAt
    <3>2. ip' = o + 3 /\ thumb' = Home /\ stack' = stack /\ regs' = Regs(r, to, y, lr)
      BY <2>1, <2>2, <2>5, <3>1, StepLdr
    <3>3. A64Next(inst, to, pcv, o, r, x, y, lr)
      BY <1>4, <1>c, <2>0, <2>5, <3>1, <3>2 DEF A64Next, A64Mid
    <3>4. ip' > o /\ ip' < o + Len(s) /\ thumb' = Home
      BY <1>4, <1>c, <2>0, <2>5, <3>1, <3>2
    <3>5. QED
      BY <3>3, <3>4
  <2>6. CASE ip = o + 3 /\ regs = Regs(r, to, y, lr) /\ flag
    <3>1. ip' = o + 6 /\ thumb' = Home /\ stack' = stack /\ regs' = regs
      BY <1>1, <2>1, <2>2, <2>6, StepB DEF PcAt
    <3>2. A64Next(inst, to, pcv, o, r, x, y, lr)
      BY <1>4, <1>c, <2>0, <2>6, <3>1 DEF A64Next, A64Mid
    <3>3. ip' > o /\ ip' < o + Len(s) /\ thumb' = Home
      BY <1>4, <1>c, <2>0, <2>6, <3>1
    <3>4. QED
      BY <3>2, <3>3
  <2>7. CASE ip = o + 6 /\ regs = Regs(r, to, y, lr) /\ flag
    <3>1. ip' = to.of /\ thumb' = to.t /\ stack' = stack /\ regs' = Regs(r, to, y, lr)
      BY <1>1, <2>1, <2>2, <2>7, StepBr
    <3>2. QED
      BY <1>4, <1>c, <2>0, <2>7, <3>1 DEF Done, Skips, Branches
  <2>8. QED
    BY <1>4, <2>3, <2>4, <2>5, <2>6, <2>7 DEF A64Now, A64Mid
<1>5. CASE inst.kind = "ADR"
  <2>a. Len(s) = 4 /\ ~ inHead /\ s[1] = Ldr("r", 2) /\ s[2] = B(3) /\ s[3] = Data("low", to) /\ s[4] = Data("high", to)
    BY <1>1, <1>5, A64Words DEF A64!InstLen
  <2>0. Len(s) = 4 /\ o \in Nat
    BY <1>1, <2>a
  <2>c. (Len(s) > 0 => Fetch(o) = s[1]) /\ (Len(s) > 1 => Fetch(o + 1) = s[2]) /\ (Len(s) > 2 => Fetch(o + 2) = s[3]) /\ (Len(s) > 3 => Fetch(o + 3) = s[4])
    BY CodeWords, Zenon
  <2>b. Fetch(o) = s[1] /\ Fetch(o + 1) = s[2] /\ Fetch(o + 2) = s[3] /\ Fetch(o + 3) = s[4]
    BY <2>0, <2>c
  <2>1. /\ o \in Nat
        /\ Fetch(o) = Ldr("r", 2) /\ Fetch(o + 1) = B(3) /\ Fetch(o + 2) = Data("low", to)
        /\ Fetch(o + 3) = Data("high", to)
    BY <2>0, <2>a, <2>b
  <2>2. Fetch(o).op # "second" /\ Fetch(o + 1).op # "second" /\ Fetch(o + 2).op # "second" /\ Fetch(o + 3).op # "second" /\ Fetch(o + 4).op # "second"
    BY <1>1, <2>0, <2>1, WordOps
  <2>3. CASE ip = o /\ regs = Regs(r, x, y, lr)
    <3>1. Stored(BaseAt(fn.arch, o) + 2) = to
      BY <1>1, <2>1, StoredHalves DEF BaseAt, PcAt
    <3>2. ip' = o + 1 /\ thumb' = Home /\ stack' = stack /\ regs' = Regs(to, x, y, lr)
      BY <2>1, <2>2, <2>3, <3>1, StepLdr
    <3>3. A64Next(inst, to, pcv, o, r, x, y, lr)
      BY <1>5, <1>c, <2>0, <2>3, <3>1, <3>2 DEF A64Next, A64Mid
    <3>4. ip' > o /\ ip' < o + Len(s) /\ thumb' = Home
      BY <1>5, <1>c, <2>0, <2>3, <3>1, <3>2
    <3>5. QED
      BY <3>3, <3>4
  <2>4. CASE ip = o + 1 /\ regs = Regs(to, x, y, lr)
    <3>1. ip' = o + 4 /\ thumb' = Home /\ stack' = stack /\ regs' = regs
      BY <1>1, <2>1, <2>2, <2>4, StepB DEF PcAt
    <3>2. QED
      BY <1>5, <1>c, <2>0, <2>4, <3>1 DEF Done, Skips, Branches
  <2>5. QED
    BY <1>5, <2>3, <2>4 DEF A64Now, A64Mid
<1>6. CASE inst.kind = "LDR"
  <2>a. Len(s) = 5 /\ ~ inHead /\ s[1] = Ldr("r", 3) /\ s[2] = Load("r", "r", inst.len) /\ s[3] = B(3) /\ s[4] = Data("low", to) /\ s[5] = Data("high", to)
    BY <1>1, <1>6, A64Words DEF A64!InstLen
  <2>0. Len(s) = 5 /\ o \in Nat
    BY <1>1, <2>a
  <2>c. (Len(s) > 0 => Fetch(o) = s[1]) /\ (Len(s) > 1 => Fetch(o + 1) = s[2]) /\ (Len(s) > 2 => Fetch(o + 2) = s[3]) /\ (Len(s) > 3 => Fetch(o + 3) = s[4]) /\ (Len(s) > 4 => Fetch(o + 4) = s[5])
    BY CodeWords, Zenon
  <2>b. Fetch(o) = s[1] /\ Fetch(o + 1) = s[2] /\ Fetch(o + 2) = s[3] /\ Fetch(o + 3) = s[4] /\ Fetch(o + 4) = s[5]
    BY <2>0, <2>c
  <2>1. /\ o \in Nat
        /\ Fetch(o) = Ldr("r", 3) /\ Fetch(o + 1) = Load("r", "r", inst.len) /\ Fetch(o + 2) = B(3)
        /\ Fetch(o + 3) = Data("low", to) /\ Fetch(o + 4) = Data("high", to)
    BY <2>0, <2>a, <2>b
  <2>2. Fetch(o).op # "second" /\ Fetch(o + 1).op # "second" /\ Fetch(o + 2).op # "second" /\ Fetch(o + 3).op # "second" /\ Fetch(o + 4).op # "second" /\ Fetch(o + 5).op # "second"
    BY <1>1, <2>0, <2>1, WordOps
  <2>3. CASE ip = o /\ regs = Regs(r, x, y, lr)
    <3>1. Stored(BaseAt(fn.arch, o) + 3) = to
      BY <1>1, <2>1, StoredHalves DEF BaseAt, PcAt
    <3>2. ip' = o + 1 /\ thumb' = Home /\ stack' = stack /\ regs' = Regs(to, x, y, lr)
      BY <2>1, <2>2, <2>3, <3>1, StepLdr
    <3>3. A64Next(inst, to, pcv, o, r, x, y, lr)
      BY <1>6, <1>c, <2>0, <2>3, <3>1, <3>2 DEF A64Next, A64Mid
    <3>4. ip' > o /\ ip' < o + Len(s) /\ thumb' = Home
      BY <1>6, <1>c, <2>0, <2>3, <3>1, <3>2
    <3>5. QED
      BY <3>3, <3>4
  <2>4. CASE ip = o + 1 /\ regs = Regs(to, x, y, lr)
    <3>1. Loaded(to, inst.len) = Content(to.of, inst.len)
      BY <1>1, <1>6
    <3>2. ip' = o + 2 /\ thumb' = Home /\ stack' = stack /\ regs' = Regs(Content(to.of, inst.len), x, y, lr)
      BY <2>1, <2>2, <2>4, <3>1, StepLoad
    <3>3. A64Next(inst, to, pcv, o, r, x, y, lr)
      BY <1>6, <1>c, <2>0, <2>4, <3>1, <3>2 DEF A64Next, A64Mid
    <3>4. ip' > o /\ ip' < o + Len(s) /\ thumb' = Home
      BY <1>6, <1>c, <2>0, <2>4, <3>1, <3>2
    <3>5. QED
      BY <3>3, <3>4
  <2>5. CASE ip = o + 2 /\ regs = Regs(Content(to.of, inst.len), x, y, lr)
    <3>1. ip' = o + 5 /\ thumb' = Home /\ stack' = stack /\ regs' = regs
      BY <1>1, <2>1, <2>2, <2>5, StepB DEF PcAt
    <3>2. QED
      BY <1>6, <1>c, <2>0, <2>5, <3>1 DEF Done, Skips, Branches
  <2>6. QED
    BY <1>6, <2>3, <2>4, <2>5 DEF A64Now, A64Mid
<1>7. CASE inst.kind = "PLD"
  <2>a. Len(s) = 7 /\ s[1] = Push("x") /\ s[2] = Ldr("x", 4) /\ s[3] = Nop /\ s[4] = Pop("x") /\ s[5] = B(3) /\ s[6] = Data("low", to) /\ s[7] = Data("high", to)
    BY <1>1, <1>7, A64Words DEF A64!InstLen
  <2>0. Len(s) = 7 /\ o \in Nat
    BY <1>1, <2>a
  <2>c. (Len(s) > 0 => Fetch(o) = s[1]) /\ (Len(s) > 1 => Fetch(o + 1) = s[2]) /\ (Len(s) > 2 => Fetch(o + 2) = s[3]) /\ (Len(s) > 3 => Fetch(o + 3) = s[4]) /\ (Len(s) > 4 => Fetch(o + 4) = s[5]) /\ (Len(s) > 5 => Fetch(o + 5) = s[6]) /\ (Len(s) > 6 => Fetch(o + 6) = s[7])
    BY CodeWords, Zenon
  <2>b. Fetch(o) = s[1] /\ Fetch(o + 1) = s[2] /\ Fetch(o + 2) = s[3] /\ Fetch(o + 3) = s[4] /\ Fetch(o + 4) = s[5] /\ Fetch(o + 5) = s[6] /\ Fetch(o + 6) = s[7]
    BY <2>0, <2>c
  <2>1. /\ o \in Nat
        /\ Fetch(o) = Push("x") /\ Fetch(o + 1) = Ldr("x", 4) /\ Fetch(o + 2) = Nop
        /\ Fetch(o + 3) = Pop("x") /\ Fetch(o + 4) = B(3) /\ Fetch(o + 5) = Data("low", to)
        /\ Fetch(o + 6) = Data("high", to)
    BY <2>0, <2>a, <2>b
  <2>2. Fetch(o).op # "second" /\ Fetch(o + 1).op # "second" /\ Fetch(o + 2).op # "second" /\ Fetch(o + 3).op # "second" /\ Fetch(o + 4).op # "second" /\ Fetch(o + 5).op # "second" /\ Fetch(o + 6).op # "second" /\ Fetch(o + 7).op # "second"
    BY <1>1, <2>0, <2>1, WordOps
  <2>3. CASE ip = o /\ regs = Regs(r, x, y, lr)
    <3>1. ip' = o + 1 /\ thumb' = Home /\ regs' = regs /\ stack' = Saved(x, Lost, Lost)
      BY <2>1, <2>2, <2>3, StepPush
    <3>2. A64Next(inst, to, pcv, o, r, x, y, lr)
      BY <1>7, <1>c, <2>0, <2>3, <3>1 DEF A64Next, A64Mid
    <3>3. ip' > o /\ ip' < o + Len(s) /\ thumb' = Home
      BY <1>7, <1>c, <2>0, <2>3, <3>1
    <3>4. QED
      BY <3>2, <3>3
  <2>4. CASE ip = o + 1 /\ regs = Regs(r, x, y, lr) /\ stack = Saved(x, Lost, Lost)
    <3>1. Stored(BaseAt(fn.arch, o + 1) + 4) = to
      BY <1>1, <2>1, StoredHalves DEF BaseAt, PcAt
    <3>2. ip' = o + 2 /\ thumb' = Home /\ stack' = stack /\ regs' = Regs(r, to, y, lr)
      BY <2>1, <2>2, <2>4, <3>1, StepLdr
    <3>3. A64Next(inst, to, pcv, o, r, x, y, lr)
      BY <1>7, <1>c, <2>0, <2>4, <3>1, <3>2 DEF A64Next, A64Mid
    <3>4. ip' > o /\ ip' < o + Len(s) /\ thumb' = Home
      BY <1>7, <1>c, <2>0, <2>4, <3>1, <3>2
    <3>5. QED
      BY <3>3, <3>4
  <2>5. CASE ip = o + 2 /\ regs = Regs(r, to, y, lr) /\ stack = Saved(x, Lost, Lost)
    <3>1. ip' = o + 3 /\ thumb' = Home /\ stack' = stack /\ regs' = regs
      BY <2>1, <2>2, <2>5, StepNop
    <3>2. A64Next(inst, to, pcv, o, r, x, y, lr)
      BY <1>7, <1>c, <2>0, <2>5, <3>1 DEF A64Next, A64Mid
    <3>3. ip' > o /\ ip' < o + Len(s) /\ thumb' = Home
      BY <1>7, <1>c, <2>0, <2>5, <3>1
    <3>4. QED
      BY <3>2, <3>3
  <2>6. CASE ip = o + 3 /\ regs = Regs(r, to, y, lr) /\ stack = Saved(x, Lost, Lost)
    <3>1. ip' = o + 4 /\ thumb' = Home /\ stack' = stack /\ regs' = Regs(r, x, y, lr)
      BY <2>1, <2>2, <2>6, StepPopX
    <3>2. A64Next(inst, to, pcv, o, r, x, y, lr)
      BY <1>7, <1>c, <2>0, <2>6, <3>1 DEF A64Next, A64Mid
    <3>3. ip' > o /\ ip' < o + Len(s) /\ thumb' = Home
      BY <1>7, <1>c, <2>0, <2>6, <3>1
    <3>4. QED
      BY <3>2, <3>3
  <2>7. CASE ip = o + 4 /\ regs = Regs(r, x, y, lr)
    <3>1. ip' = o + 7 /\ thumb' = Home /\ stack' = stack /\ regs' = regs
      BY <1>1, <2>1, <2>2, <2>7, StepB DEF PcAt
    <3>2. QED
      BY <1>7, <1>c, <2>0, <2>7, <3>1 DEF Done, Skips, Branches
  <2>8. QED
    BY <1>7, <2>3, <2>4, <2>5, <2>6, <2>7 DEF A64Now, A64Mid
<1>8. CASE inst.kind = "VLDR"
  <2>a. Len(s) = 7 /\ ~ inHead /\ s[1] = Push("x") /\ s[2] = Ldr("x", 4) /\ s[3] = Load("r", "x", inst.len) /\ s[4] = Pop("x") /\ s[5] = B(3) /\ s[6] = Data("low", to) /\ s[7] = Data("high", to)
    BY <1>1, <1>8, A64Words DEF A64!InstLen
  <2>0. Len(s) = 7 /\ o \in Nat
    BY <1>1, <2>a
  <2>c. (Len(s) > 0 => Fetch(o) = s[1]) /\ (Len(s) > 1 => Fetch(o + 1) = s[2]) /\ (Len(s) > 2 => Fetch(o + 2) = s[3]) /\ (Len(s) > 3 => Fetch(o + 3) = s[4]) /\ (Len(s) > 4 => Fetch(o + 4) = s[5]) /\ (Len(s) > 5 => Fetch(o + 5) = s[6]) /\ (Len(s) > 6 => Fetch(o + 6) = s[7])
    BY CodeWords, Zenon
  <2>b. Fetch(o) = s[1] /\ Fetch(o + 1) = s[2] /\ Fetch(o + 2) = s[3] /\ Fetch(o + 3) = s[4] /\ Fetch(o + 4) = s[5] /\ Fetch(o + 5) = s[6] /\ Fetch(o + 6) = s[7]
    BY <2>0, <2>c
  <2>1. /\ o \in Nat
        /\ Fetch(o) = Push("x") /\ Fetch(o + 1) = Ldr("x", 4)
        /\ Fetch(o + 2) = Load("r", "x", inst.len) /\ Fetch(o + 3) = Pop("x")
        /\ Fetch(o + 4) = B(3) /\ Fetch(o + 5) = Data("low", to) /\ Fetch(o + 6) = Data("high", to)
    BY <2>0, <2>a, <2>b
  <2>2. Fetch(o).op # "second" /\ Fetch(o + 1).op # "second" /\ Fetch(o + 2).op # "second" /\ Fetch(o + 3).op # "second" /\ Fetch(o + 4).op # "second" /\ Fetch(o + 5).op # "second" /\ Fetch(o + 6).op # "second" /\ Fetch(o + 7).op # "second"
    BY <1>1, <2>0, <2>1, WordOps
  <2>3. CASE ip = o /\ regs = Regs(r, x, y, lr)
    <3>1. ip' = o + 1 /\ thumb' = Home /\ regs' = regs /\ stack' = Saved(x, Lost, Lost)
      BY <2>1, <2>2, <2>3, StepPush
    <3>2. A64Next(inst, to, pcv, o, r, x, y, lr)
      BY <1>8, <1>c, <2>0, <2>3, <3>1 DEF A64Next, A64Mid
    <3>3. ip' > o /\ ip' < o + Len(s) /\ thumb' = Home
      BY <1>8, <1>c, <2>0, <2>3, <3>1
    <3>4. QED
      BY <3>2, <3>3
  <2>4. CASE ip = o + 1 /\ regs = Regs(r, x, y, lr) /\ stack = Saved(x, Lost, Lost)
    <3>1. Stored(BaseAt(fn.arch, o + 1) + 4) = to
      BY <1>1, <2>1, StoredHalves DEF BaseAt, PcAt
    <3>2. ip' = o + 2 /\ thumb' = Home /\ stack' = stack /\ regs' = Regs(r, to, y, lr)
      BY <2>1, <2>2, <2>4, <3>1, StepLdr
    <3>3. A64Next(inst, to, pcv, o, r, x, y, lr)
      BY <1>8, <1>c, <2>0, <2>4, <3>1, <3>2 DEF A64Next, A64Mid
    <3>4. ip' > o /\ ip' < o + Len(s) /\ thumb' = Home
      BY <1>8, <1>c, <2>0, <2>4, <3>1, <3>2
    <3>5. QED
      BY <3>3, <3>4
  <2>5. CASE ip = o + 2 /\ regs = Regs(r, to, y, lr) /\ stack = Saved(x, Lost, Lost)
    <3>1. Loaded(to, inst.len) = Content(to.of, inst.len)
      BY <1>1, <1>8
    <3>2. ip' = o + 3 /\ thumb' = Home /\ stack' = stack /\ regs' = Regs(Content(to.of, inst.len), to, y, lr)
      BY <2>1, <2>2, <2>5, <3>1, StepLoad
    <3>3. A64Next(inst, to, pcv, o, r, x, y, lr)
      BY <1>8, <1>c, <2>0, <2>5, <3>1, <3>2 DEF A64Next, A64Mid
    <3>4. ip' > o /\ ip' < o + Len(s) /\ thumb' = Home
      BY <1>8, <1>c, <2>0, <2>5, <3>1, <3>2
    <3>5. QED
      BY <3>3, <3>4
  <2>6. CASE ip = o + 3 /\ regs = Regs(Content(to.of, inst.len), to, y, lr) /\ stack = Saved(x, Lost, Lost)
    <3>1. ip' = o + 4 /\ thumb' = Home /\ stack' = stack /\ regs' = Regs(Content(to.of, inst.len), x, y, lr)
      BY <2>1, <2>2, <2>6, StepPopX
    <3>2. A64Next(inst, to, pcv, o, r, x, y, lr)
      BY <1>8, <1>c, <2>0, <2>6, <3>1 DEF A64Next, A64Mid
    <3>3. ip' > o /\ ip' < o + Len(s) /\ thumb' = Home
      BY <1>8, <1>c, <2>0, <2>6, <3>1
    <3>4. QED
      BY <3>2, <3>3
  <2>7. CASE ip = o + 4 /\ regs = Regs(Content(to.of, inst.len), x, y, lr)
    <3>1. ip' = o + 7 /\ thumb' = Home /\ stack' = stack /\ regs' = regs
      BY <1>1, <2>1, <2>2, <2>7, StepB DEF PcAt
    <3>2. QED
      BY <1>8, <1>c, <2>0, <2>7, <3>1 DEF Done, Skips, Branches
  <2>8. QED
    BY <1>8, <2>3, <2>4, <2>5, <2>6, <2>7 DEF A64Now, A64Mid
<1>9. CASE inst.kind = "CBZ"
  <2>a. Len(s) = 6 /\ s[1] = IfTaken(2) /\ s[2] = B(5) /\ s[3] = Ldr("x", 2) /\ s[4] = Set("br", "pc", "x") /\ s[5] = Data("low", to) /\ s[6] = Data("high", to)
    BY <1>1, <1>9, A64Words DEF A64!InstLen
  <2>0. Len(s) = 6 /\ o \in Nat
    BY <1>1, <2>a
  <2>c. (Len(s) > 0 => Fetch(o) = s[1]) /\ (Len(s) > 1 => Fetch(o + 1) = s[2]) /\ (Len(s) > 2 => Fetch(o + 2) = s[3]) /\ (Len(s) > 3 => Fetch(o + 3) = s[4]) /\ (Len(s) > 4 => Fetch(o + 4) = s[5]) /\ (Len(s) > 5 => Fetch(o + 5) = s[6])
    BY CodeWords, Zenon
  <2>b. Fetch(o) = s[1] /\ Fetch(o + 1) = s[2] /\ Fetch(o + 2) = s[3] /\ Fetch(o + 3) = s[4] /\ Fetch(o + 4) = s[5] /\ Fetch(o + 5) = s[6]
    BY <2>0, <2>c
  <2>1. /\ o \in Nat
        /\ Fetch(o) = IfTaken(2) /\ Fetch(o + 1) = B(5) /\ Fetch(o + 2) = Ldr("x", 2)
        /\ Fetch(o + 3) = Set("br", "pc", "x") /\ Fetch(o + 4) = Data("low", to)
        /\ Fetch(o + 5) = Data("high", to)
    BY <2>0, <2>a, <2>b
  <2>2. Fetch(o).op # "second" /\ Fetch(o + 1).op # "second" /\ Fetch(o + 2).op # "second" /\ Fetch(o + 3).op # "second" /\ Fetch(o + 4).op # "second" /\ Fetch(o + 5).op # "second" /\ Fetch(o + 6).op # "second"
    BY <1>1, <2>0, <2>1, WordOps
  <2>3. CASE ip = o /\ regs = Regs(r, x, y, lr)
    <3>1. thumb' = Home /\ stack' = stack /\ regs' = regs
      BY <2>1, <2>2, <2>3, StepIfTaken
    <3>2. (flag => ip' = o + 2) /\ (~ flag => ip' = o + 1)
      BY <1>1, <2>1, <2>2, <2>3, StepIfTaken DEF PcAt
    <3>3. CASE flag
      <4>1. A64Next(inst, to, pcv, o, r, x, y, lr)
        BY <1>9, <1>c, <2>0, <2>3, <3>1, <3>2, <3>3 DEF A64Next, A64Mid
      <4>2. ip' > o /\ ip' < o + Len(s) /\ thumb' = Home
        BY <1>9, <1>c, <2>0, <2>3, <3>1, <3>2, <3>3
      <4>3. QED
        BY <4>1, <4>2
    <3>4. CASE ~ flag
      <4>1. A64Next(inst, to, pcv, o, r, x, y, lr)
        BY <1>9, <1>c, <2>0, <2>3, <3>1, <3>2, <3>4 DEF A64Next, A64Mid
      <4>2. ip' > o /\ ip' < o + Len(s) /\ thumb' = Home
        BY <1>9, <1>c, <2>0, <2>3, <3>1, <3>2, <3>4
      <4>3. QED
        BY <4>1, <4>2
    <3>5. QED
      BY <3>3, <3>4
  <2>4. CASE ip = o + 1 /\ regs = Regs(r, x, y, lr) /\ ~ flag
    <3>1. ip' = o + 6 /\ thumb' = Home /\ stack' = stack /\ regs' = regs
      BY <1>1, <2>1, <2>2, <2>4, StepB DEF PcAt
    <3>2. QED
      BY <1>9, <1>c, <2>0, <2>4, <3>1 DEF Done, Skips, Branches
  <2>5. CASE ip = o + 2 /\ regs = Regs(r, x, y, lr) /\ flag
    <3>1. Stored(BaseAt(fn.arch, o + 2) + 2) = to
      BY <1>1, <2>1, StoredHalves DEF BaseAt, PcAt
    <3>2. ip' = o + 3 /\ thumb' = Home /\ stack' = stack /\ regs' = Regs(r, to, y, lr)
      BY <2>1, <2>2, <2>5, <3>1, StepLdr
    <3>3. A64Next(inst, to, pcv, o, r, x, y, lr)
      BY <1>9, <1>c, <2>0, <2>5, <3>1, <3>2 DEF A64Next, A64Mid
    <3>4. ip' > o /\ ip' < o + Len(s) /\ thumb' = Home
      BY <1>9, <1>c, <2>0, <2>5, <3>1, <3>2
    <3>5. QED
      BY <3>3, <3>4
  <2>6. CASE ip = o + 3 /\ regs = Regs(r, to, y, lr) /\ flag
    <3>1. ip' = to.of /\ thumb' = to.t /\ stack' = stack /\ regs' = Regs(r, to, y, lr)
      BY <1>1, <2>1, <2>2, <2>6, StepBr
    <3>2. QED
      BY <1>9, <1>c, <2>0, <2>6, <3>1 DEF Done, Skips, Branches
  <2>7. QED
    BY <1>9, <2>3, <2>4, <2>5, <2>6 DEF A64Now, A64Mid
<1>10. CASE inst.kind = "IGNORED"
  <2>a. Len(s) = 1 /\ s[1] = Plain(inst)
    BY <1>1, <1>10, A64Words DEF A64!InstLen
  <2>0. Len(s) = 1 /\ o \in Nat
    BY <1>1, <2>a
  <2>c. (Len(s) > 0 => Fetch(o) = s[1])
    BY CodeWords, Zenon
  <2>b. Fetch(o) = s[1]
    BY <2>0, <2>c
  <2>1. /\ o \in Nat
        /\ Fetch(o) = Plain(inst)
    BY <2>0, <2>a, <2>b
  <2>2. Fetch(o).op # "second" /\ Fetch(o + 1).op # "second"
    BY <1>1, <2>0, <2>1, WordOps
  <2>3. CASE ip = o /\ regs = Regs(r, x, y, lr)
    <3>1. ip' = o + 1 /\ thumb' = Home /\ stack' = stack
      BY <1>1, <2>1, <2>2, <2>3, StepPlain
    <3>2. inst.c /\ ~ flag => regs' = Regs(r, x, y, lr)
      BY <1>1, <2>1, <2>2, <2>3, StepPlain
    <3>3. ~ (inst.c /\ ~ flag) => regs' = Regs(Computed(inst.imm), x, y, lr)
      BY <1>1, <2>1, <2>2, <2>3, StepPlain
    <3>4. QED
      BY <1>10, <1>c, <2>0, <2>3, <3>1, <3>2, <3>3 DEF Done, Skips, Branches
  <2>4. QED
    BY <1>10, <2>3 DEF A64Now, A64Mid
<1>11. QED
  BY <1>1, <1>2, <1>3, <1>4, <1>5, <1>6, <1>7, <1>8, <1>9, <1>10

----------------------------------------------------------------------------
(* The words of rewritten A32 and Thumb instructions.                      *)
LEMMA Appended ==
  \A q, v : q \in Seq(Nat) /\ v \in Nat =>
    /\ Append(q, v) \in Seq(Nat) /\ Len(Append(q, v)) = Len(q) + 1 /\ Append(q, v) # << >>
    /\ \A i \in 1 .. Len(q) : Append(q, v)[i] = q[i]
    /\ Append(q, v)[Len(q) + 1] = v
OBVIOUS

LEMMA JoinedAt ==
  \A s, t : IsSeq(s) /\ IsSeq(t) =>
    /\ IsSeq(s \o t) /\ Len(s \o t) = Len(s) + Len(t)
    /\ \A j \in 1 .. Len(s) : (s \o t)[j] = s[j]
    /\ \A j \in 1 .. Len(t) : (s \o t)[Len(s) + j] = t[j]
BY Joined

LEMMA A32B ==
  ASSUME NEW inst \in A32!Insts, inst.kind = "B", NEW to, NEW inHead \in BOOLEAN, NEW pcv, NEW s, s = A32!Rewrite(inst, to, inHead, pcv), s # << >>
  PROVE  /\ IsSeq(s) /\ Len(s) = 3 /\ A32!InstLen(inst) = 3 /\ s[1].op # "second"
         /\ s[1] = LdrIf(inst.c, "pc", 0) /\ s[2] = B(0) /\ s[3] = Data("whole", to)
<1>1. s = A32!RewriteB(inst, to)
  BY DEF A32!Rewrite
<1>2. s = << >> \o <<LdrIf(inst.c, "pc", 0), B(0)>> \o <<Data("whole", to)>>
  BY <1>1, A32Ops DEF A32!RewriteB
<1> DEFINE w1 == LdrIf(inst.c, "pc", 0)
           w2 == B(0)
           w3 == Data("whole", to)
<1>3. s = << >> \o <<w1, w2>> \o <<w3>>
  BY <1>2
<1> HIDE DEF w1, w2, w3
<1>4. Len(s) = 3 /\ s[1] = w1 /\ s[2] = w2 /\ s[3] = w3
  BY <1>3
<1>5. s \in Seq({w1, w2, w3})
  BY <1>3
<1>6. IsSeq(s)
  BY <1>5 DEF IsSeq
<1>7. A32!InstLen(inst) = 3
  BY DEF A32!InstLen
<1>8. w1.op # "second"
  BY WordOps DEF w1
<1>9. QED
  BY <1>4, <1>6, <1>7, <1>8 DEF w1, w2, w3

LEMMA A32BX ==
  ASSUME NEW inst \in A32!Insts, inst.kind = "BX", NEW to, NEW inHead \in BOOLEAN, NEW pcv, NEW s, s = A32!Rewrite(inst, to, inHead, pcv), s # << >>
  PROVE  /\ IsSeq(s) /\ Len(s) = 3 /\ A32!InstLen(inst) = 3 /\ s[1].op # "second"
         /\ s[1] = LdrIf(inst.c, "pc", 0) /\ s[2] = B(0) /\ s[3] = Data("whole", to)
<1>1. s = A32!RewriteB(inst, to)
  BY DEF A32!Rewrite
<1>2. s = << >> \o <<LdrIf(inst.c, "pc", 0), B(0)>> \o <<Data("whole", to)>>
  BY <1>1, A32Ops DEF A32!RewriteB
<1> DEFINE w1 == LdrIf(inst.c, "pc", 0)
           w2 == B(0)
           w3 == Data("whole", to)
<1>3. s = << >> \o <<w1, w2>> \o <<w3>>
  BY <1>2
<1> HIDE DEF w1, w2, w3
<1>4. Len(s) = 3 /\ s[1] = w1 /\ s[2] = w2 /\ s[3] = w3
  BY <1>3
<1>5. s \in Seq({w1, w2, w3})
  BY <1>3
<1>6. IsSeq(s)
  BY <1>5 DEF IsSeq
<1>7. A32!InstLen(inst) = 3
  BY DEF A32!InstLen
<1>8. w1.op # "second"
  BY WordOps DEF w1
<1>9. QED
  BY <1>4, <1>6, <1>7, <1>8 DEF w1, w2, w3

LEMMA A32BL ==
  ASSUME NEW inst \in A32!Insts, inst.kind = "BL", NEW to, NEW inHead \in BOOLEAN, NEW pcv, NEW s, s = A32!Rewrite(inst, to, inHead, pcv), s # << >>
  PROVE  /\ IsSeq(s) /\ Len(s) = 4 /\ A32!InstLen(inst) = 4 /\ s[1].op # "second"
         /\ s[1] = Link(inst.c, 2) /\ s[2] = LdrIf(inst.c, "pc", 0) /\ s[3] = B(0)
         /\ s[4] = Data("whole", to)
<1>1. s = A32!RewriteB(inst, to)
  BY DEF A32!Rewrite
<1>2. s = <<Link(inst.c, 2)>> \o <<LdrIf(inst.c, "pc", 0), B(0)>> \o <<Data("whole", to)>>
  BY <1>1, A32Ops DEF A32!RewriteB
<1> DEFINE w1 == Link(inst.c, 2)
           w2 == LdrIf(inst.c, "pc", 0)
           w3 == B(0)
           w4 == Data("whole", to)
<1>3. s = <<w1>> \o <<w2, w3>> \o <<w4>>
  BY <1>2
<1> HIDE DEF w1, w2, w3, w4
<1>4. Len(s) = 4 /\ s[1] = w1 /\ s[2] = w2 /\ s[3] = w3 /\ s[4] = w4
  BY <1>3
<1>5. s \in Seq({w1, w2, w3, w4})
  BY <1>3
<1>6. IsSeq(s)
  BY <1>5 DEF IsSeq
<1>7. A32!InstLen(inst) = 4
  BY DEF A32!InstLen
<1>8. w1.op # "second"
  BY WordOps DEF w1
<1>9. QED
  BY <1>4, <1>6, <1>7, <1>8 DEF w1, w2, w3, w4

LEMMA A32BLX ==
  ASSUME NEW inst \in A32!Insts, inst.kind = "BLX", NEW to, NEW inHead \in BOOLEAN, NEW pcv, NEW s, s = A32!Rewrite(inst, to, inHead, pcv), s # << >>
  PROVE  /\ IsSeq(s) /\ Len(s) = 4 /\ A32!InstLen(inst) = 4 /\ s[1].op # "second"
         /\ s[1] = Link(inst.c, 2) /\ s[2] = LdrIf(inst.c, "pc", 0) /\ s[3] = B(0)
         /\ s[4] = Data("whole", to)
<1>1. s = A32!RewriteB(inst, to)
  BY DEF A32!Rewrite
<1>2. s = <<Link(inst.c, 2)>> \o <<LdrIf(inst.c, "pc", 0), B(0)>> \o <<Data("whole", to)>>
  BY <1>1, A32Ops DEF A32!RewriteB
<1> DEFINE w1 == Link(inst.c, 2)
           w2 == LdrIf(inst.c, "pc", 0)
           w3 == B(0)
           w4 == Data("whole", to)
<1>3. s = <<w1>> \o <<w2, w3>> \o <<w4>>
  BY <1>2
<1> HIDE DEF w1, w2, w3, w4
<1>4. Len(s) = 4 /\ s[1] = w1 /\ s[2] = w2 /\ s[3] = w3 /\ s[4] = w4
  BY <1>3
<1>5. s \in Seq({w1, w2, w3, w4})
  BY <1>3
<1>6. IsSeq(s)
  BY <1>5 DEF IsSeq
<1>7. A32!InstLen(inst) = 4
  BY DEF A32!InstLen
<1>8. w1.op # "second"
  BY WordOps DEF w1
<1>9. QED
  BY <1>4, <1>6, <1>7, <1>8 DEF w1, w2, w3, w4

LEMMA A32ADDPC ==
  ASSUME NEW inst \in A32!Insts, inst.kind = "ADD_PC", NEW to, NEW inHead \in BOOLEAN, NEW pcv, NEW s, s = A32!Rewrite(inst, to, inHead, pcv), s # << >>
  PROVE  /\ IsSeq(s) /\ Len(s) = 8 /\ A32!InstLen(inst) = 8 /\ s[1].op # "second"
         /\ s[1] = BIf(inst.c, 0) /\ s[2] = B(5) /\ s[3] = Push("xy") /\ s[4] = Ldr("x", 2)
         /\ s[5] = Set("index", "y", "x") /\ s[6] = Store("y") /\ s[7] = Pop("xypc")
         /\ s[8] = Data("whole", pcv)
<1>1. s = A32!RewriteAdd(inst, pcv)
  BY DEF A32!Rewrite
<1>2. s = <<BIf(inst.c, 0), B(5), Push("xy"), Ldr("x", 2), Set("index", "y", "x"), Store("y"), Pop("xypc")>> \o <<Data("whole", pcv)>>
  BY <1>1, A32Ops DEF A32!RewriteAdd
<1> DEFINE w1 == BIf(inst.c, 0)
           w2 == B(5)
           w3 == Push("xy")
           w4 == Ldr("x", 2)
           w5 == Set("index", "y", "x")
           w6 == Store("y")
           w7 == Pop("xypc")
           w8 == Data("whole", pcv)
<1>3. s = <<w1, w2, w3, w4, w5, w6, w7>> \o <<w8>>
  BY <1>2
<1> HIDE DEF w1, w2, w3, w4, w5, w6, w7, w8
<1>4. Len(s) = 8 /\ s[1] = w1 /\ s[2] = w2 /\ s[3] = w3 /\ s[4] = w4 /\ s[5] = w5 /\ s[6] = w6 /\ s[7] = w7 /\ s[8] = w8
  BY <1>3
<1>5. s \in Seq({w1, w2, w3, w4, w5, w6, w7, w8})
  BY <1>3
<1>6. IsSeq(s)
  BY <1>5 DEF IsSeq
<1>7. A32!InstLen(inst) = 8
  BY DEF A32!InstLen
<1>8. w1.op # "second"
  BY WordOps DEF w1
<1>9. QED
  BY <1>4, <1>6, <1>7, <1>8 DEF w1, w2, w3, w4, w5, w6, w7, w8

LEMMA A32ADD ==
  ASSUME NEW inst \in A32!Insts, inst.kind = "ADD", NEW to, NEW inHead \in BOOLEAN, NEW pcv, NEW s, s = A32!Rewrite(inst, to, inHead, pcv), s # << >>
  PROVE  /\ IsSeq(s) /\ Len(s) = 8 /\ A32!InstLen(inst) = 8 /\ s[1].op # "second"
         /\ s[1] = BIf(inst.c, 0) /\ s[2] = B(5) /\ s[3] = Push("x") /\ s[4] = Ldr("x", 2)
         /\ s[5] = Set("sum", "r", "x") /\ s[6] = Pop("x") /\ s[7] = B(0)
         /\ s[8] = Data("whole", pcv)
<1>1. s = A32!RewriteAdd(inst, pcv)
  BY DEF A32!Rewrite
<1>2. s = <<BIf(inst.c, 0), B(5), Push("x"), Ldr("x", 2), Set("sum", "r", "x"), Pop("x"), B(0)>> \o <<Data("whole", pcv)>>
  BY <1>1, A32Ops DEF A32!RewriteAdd
<1> DEFINE w1 == BIf(inst.c, 0)
           w2 == B(5)
           w3 == Push("x")
           w4 == Ldr("x", 2)
           w5 == Set("sum", "r", "x")
           w6 == Pop("x")
           w7 == B(0)
           w8 == Data("whole", pcv)
<1>3. s = <<w1, w2, w3, w4, w5, w6, w7>> \o <<w8>>
  BY <1>2
<1> HIDE DEF w1, w2, w3, w4, w5, w6, w7, w8
<1>4. Len(s) = 8 /\ s[1] = w1 /\ s[2] = w2 /\ s[3] = w3 /\ s[4] = w4 /\ s[5] = w5 /\ s[6] = w6 /\ s[7] = w7 /\ s[8] = w8
  BY <1>3
<1>5. s \in Seq({w1, w2, w3, w4, w5, w6, w7, w8})
  BY <1>3
<1>6. IsSeq(s)
  BY <1>5 DEF IsSeq
<1>7. A32!InstLen(inst) = 8
  BY DEF A32!InstLen
<1>8. w1.op # "second"
  BY WordOps DEF w1
<1>9. QED
  BY <1>4, <1>6, <1>7, <1>8 DEF w1, w2, w3, w4, w5, w6, w7, w8

LEMMA A32MOV ==
  ASSUME NEW inst \in A32!Insts, inst.kind = "MOV", NEW to, NEW inHead \in BOOLEAN, NEW pcv, NEW s, s = A32!Rewrite(inst, to, inHead, pcv), s # << >>
  PROVE  /\ IsSeq(s) /\ Len(s) = 8 /\ A32!InstLen(inst) = 8 /\ s[1].op # "second"
         /\ s[1] = BIf(inst.c, 0) /\ s[2] = B(5) /\ s[3] = Push("x") /\ s[4] = Ldr("x", 2)
         /\ s[5] = Set("move", "r", "x") /\ s[6] = Pop("x") /\ s[7] = B(0)
         /\ s[8] = Data("whole", pcv)
<1>1. s = A32!RewriteMov(inst, pcv)
  BY DEF A32!Rewrite
<1>2. s = <<BIf(inst.c, 0), B(5), Push("x"), Ldr("x", 2), Set("move", "r", "x"), Pop("x"), B(0)>> \o <<Data("whole", pcv)>>
  BY <1>1, A32Ops DEF A32!RewriteMov
<1> DEFINE w1 == BIf(inst.c, 0)
           w2 == B(5)
           w3 == Push("x")
           w4 == Ldr("x", 2)
           w5 == Set("move", "r", "x")
           w6 == Pop("x")
           w7 == B(0)
           w8 == Data("whole", pcv)
<1>3. s = <<w1, w2, w3, w4, w5, w6, w7>> \o <<w8>>
  BY <1>2
<1> HIDE DEF w1, w2, w3, w4, w5, w6, w7, w8
<1>4. Len(s) = 8 /\ s[1] = w1 /\ s[2] = w2 /\ s[3] = w3 /\ s[4] = w4 /\ s[5] = w5 /\ s[6] = w6 /\ s[7] = w7 /\ s[8] = w8
  BY <1>3
<1>5. s \in Seq({w1, w2, w3, w4, w5, w6, w7, w8})
  BY <1>3
<1>6. IsSeq(s)
  BY <1>5 DEF IsSeq
<1>7. A32!InstLen(inst) = 8
  BY DEF A32!InstLen
<1>8. w1.op # "second"
  BY WordOps DEF w1
<1>9. QED
  BY <1>4, <1>6, <1>7, <1>8 DEF w1, w2, w3, w4, w5, w6, w7, w8

LEMMA A32MOVPC ==
  ASSUME NEW inst \in A32!Insts, inst.kind = "MOV_PC", NEW to, NEW inHead \in BOOLEAN, NEW pcv, NEW s, s = A32!Rewrite(inst, to, inHead, pcv), s # << >>
  PROVE  /\ IsSeq(s) /\ Len(s) = 3 /\ A32!InstLen(inst) = 3 /\ s[1].op # "second"
         /\ s[1] = LdrIf(inst.c, "pc", 0) /\ s[2] = B(0) /\ s[3] = Data("whole", pcv)
<1>1. s = A32!RewriteMov(inst, pcv)
  BY DEF A32!Rewrite
<1>2. s = <<LdrIf(inst.c, "pc", 0), B(0)>> \o <<Data("whole", pcv)>>
  BY <1>1, A32Ops DEF A32!RewriteMov
<1> DEFINE w1 == LdrIf(inst.c, "pc", 0)
           w2 == B(0)
           w3 == Data("whole", pcv)
<1>3. s = <<w1, w2>> \o <<w3>>
  BY <1>2
<1> HIDE DEF w1, w2, w3
<1>4. Len(s) = 3 /\ s[1] = w1 /\ s[2] = w2 /\ s[3] = w3
  BY <1>3
<1>5. s \in Seq({w1, w2, w3})
  BY <1>3
<1>6. IsSeq(s)
  BY <1>5 DEF IsSeq
<1>7. A32!InstLen(inst) = 3
  BY DEF A32!InstLen
<1>8. w1.op # "second"
  BY WordOps DEF w1
<1>9. QED
  BY <1>4, <1>6, <1>7, <1>8 DEF w1, w2, w3

LEMMA A32ADR ==
  ASSUME NEW inst \in A32!Insts, inst.kind = "ADR", NEW to, NEW inHead \in BOOLEAN, NEW pcv, NEW s, s = A32!Rewrite(inst, to, inHead, pcv), s # << >>
  PROVE  /\ IsSeq(s) /\ Len(s) = 3 /\ A32!InstLen(inst) = 3 /\ s[1].op # "second"
         /\ s[1] = LdrIf(inst.c, "r", 0) /\ s[2] = B(0) /\ s[3] = Data("whole", to)
<1>1. s = A32!RewriteAdr(inst, to, inHead)
  BY DEF A32!Rewrite
<1>2. s = <<LdrIf(inst.c, "r", 0), B(0)>> \o <<Data("whole", to)>> /\ ~ inHead
  BY <1>1, A32Ops DEF A32!RewriteAdr
<1> DEFINE w1 == LdrIf(inst.c, "r", 0)
           w2 == B(0)
           w3 == Data("whole", to)
<1>3. s = <<w1, w2>> \o <<w3>>
  BY <1>2
<1> HIDE DEF w1, w2, w3
<1>4. Len(s) = 3 /\ s[1] = w1 /\ s[2] = w2 /\ s[3] = w3
  BY <1>3
<1>5. s \in Seq({w1, w2, w3})
  BY <1>3
<1>6. IsSeq(s)
  BY <1>5 DEF IsSeq
<1>7. A32!InstLen(inst) = 3
  BY DEF A32!InstLen
<1>8. w1.op # "second"
  BY WordOps DEF w1
<1>9. QED
  BY <1>2, <1>4, <1>6, <1>7, <1>8 DEF w1, w2, w3

A32LDRPCWords(inst, to, s) ==
  /\ IsSeq(s) /\ Len(s) = 9 /\ A32!InstLen(inst) = 9 /\ s[1].op # "second"
  /\ s[1] = BIf(inst.c, 0) /\ s[2] = B(6) /\ s[3] = Push("x") /\ s[4] = Ldr("x", 0)
  /\ s[5] = B(0) /\ s[6] = Data("whole", to) /\ s[7] = Load("x", "x", inst.len)
  /\ s[8] = Store("x") /\ s[9] = Pop("xpc")

LEMMA A32LDRPC ==
  \A inst, to, inHead, pcv, s :
    inst \in A32!Insts /\ inst.kind = "LDR_PC" /\ inHead \in BOOLEAN /\ s = A32!Rewrite(inst, to, inHead, pcv)
      /\ s # << >> => A32LDRPCWords(inst, to, s)
<1> SUFFICES ASSUME NEW inst \in A32!Insts, inst.kind = "LDR_PC", NEW to, NEW inHead \in BOOLEAN, NEW pcv,
                    NEW s, s = A32!Rewrite(inst, to, inHead, pcv), s # << >>
             PROVE  A32LDRPCWords(inst, to, s)
  OBVIOUS
<1>1. s = A32!RewriteLdrLit(inst, to, inHead)
  BY DEF A32!Rewrite
<1>2. s = <<BIf(inst.c, 0), B(6), Push("x"), Ldr("x", 0), B(0)>> \o <<Data("whole", to)>> \o <<Load("x", "x", inst.len), Store("x"), Pop("xpc")>> /\ ~ inHead
  BY <1>1, A32Ops DEF A32!RewriteLdrLit
<1> DEFINE w1 == BIf(inst.c, 0)
           w2 == B(6)
           w3 == Push("x")
           w4 == Ldr("x", 0)
           w5 == B(0)
           w6 == Data("whole", to)
           w7 == Load("x", "x", inst.len)
           w8 == Store("x")
           w9 == Pop("xpc")
<1>3. s = <<w1, w2, w3, w4, w5>> \o <<w6>> \o <<w7, w8, w9>>
  BY <1>2
<1> HIDE DEF w1, w2, w3, w4, w5, w6, w7, w8, w9
<1>4. Len(s) = 9 /\ s[1] = w1 /\ s[2] = w2 /\ s[3] = w3 /\ s[4] = w4 /\ s[5] = w5 /\ s[6] = w6 /\ s[7] = w7 /\ s[8] = w8 /\ s[9] = w9
  BY <1>3
<1>5. s \in Seq({w1, w2, w3, w4, w5, w6, w7, w8, w9})
  BY <1>3
<1>6. IsSeq(s)
  BY <1>5 DEF IsSeq
<1>7. A32!InstLen(inst) = 9
  BY DEF A32!InstLen
<1>8. w1.op # "second"
  BY WordOps DEF w1
<1>9. QED
  BY <1>2, <1>4, <1>6, <1>7, <1>8 DEF A32LDRPCWords, w1, w2, w3, w4, w5, w6, w7, w8, w9

A32LDRWords(inst, to, s) ==
  /\ IsSeq(s) /\ Len(s) = 6 /\ A32!InstLen(inst) = 6 /\ s[1].op # "second"
  /\ s[1] = BIf(inst.c, 0) /\ s[2] = B(3) /\ s[3] = Ldr("r", 0) /\ s[4] = B(0)
  /\ s[5] = Data("whole", to) /\ s[6] = Load("r", "r", inst.len)

LEMMA A32LDR ==
  \A inst, to, inHead, pcv, s :
    inst \in A32!Insts /\ inst.kind = "LDR" /\ inHead \in BOOLEAN /\ s = A32!Rewrite(inst, to, inHead, pcv)
      /\ s # << >> => A32LDRWords(inst, to, s)
<1> SUFFICES ASSUME NEW inst \in A32!Insts, inst.kind = "LDR", NEW to, NEW inHead \in BOOLEAN, NEW pcv,
                    NEW s, s = A32!Rewrite(inst, to, inHead, pcv), s # << >>
             PROVE  A32LDRWords(inst, to, s)
  OBVIOUS
<1>1. s = A32!RewriteLdrLit(inst, to, inHead)
  BY DEF A32!Rewrite
<1>2. s = <<BIf(inst.c, 0), B(3), Ldr("r", 0), B(0)>> \o <<Data("whole", to)>> \o <<Load("r", "r", inst.len)>> /\ ~ inHead
  BY <1>1, A32Ops DEF A32!RewriteLdrLit
<1> DEFINE w1 == BIf(inst.c, 0)
           w2 == B(3)
           w3 == Ldr("r", 0)
           w4 == B(0)
           w5 == Data("whole", to)
           w6 == Load("r", "r", inst.len)
<1>3. s = <<w1, w2, w3, w4>> \o <<w5>> \o <<w6>>
  BY <1>2
<1> HIDE DEF w1, w2, w3, w4, w5, w6
<1>a. Len(s) = 6 /\ s[1] = w1 /\ s[2] = w2 /\ s[3] = w3 /\ s[4] = w4 /\ s[6] = w6
  BY <1>3
<1>b. s[5] = w5
  <2> DEFINE p == <<w1, w2, w3, w4>>
             q == <<w5>>
             t == <<w6>>
  <2>1. Len(p) = 4 /\ q[1] = w5 /\ Len(q) = 1
    OBVIOUS
  <2>2. p \in Seq({w1, w2, w3, w4}) /\ q \in Seq({w5}) /\ t \in Seq({w6})
    OBVIOUS
  <2>3. s = p \o q \o t
    BY <1>3
  <2> HIDE DEF p, q, t
  <2>4. IsSeq(p) /\ IsSeq(q) /\ IsSeq(t)
    BY <2>2 DEF IsSeq
  <2>5. \A j \in 1 .. Len(q) : (p \o q)[Len(p) + j] = q[j]
    BY <2>4, JoinedAt
  <2>6. IsSeq(p \o q) /\ Len(p \o q) = Len(p) + Len(q)
    BY <2>4, JoinedAt
  <2>7. \A j \in 1 .. Len(p \o q) : (p \o q \o t)[j] = (p \o q)[j]
    BY <2>4, <2>6, JoinedAt
  <2>a. 1 \in 1 .. Len(q) /\ Len(p) + 1 = 5
    BY <2>1
  <2>b. (p \o q)[Len(p) + 1] = q[1]
    BY <2>5, <2>a, Zenon
  <2>8. (p \o q)[5] = q[1]
    BY <2>a, <2>b
  <2>9. QED
    BY <2>1, <2>3, <2>6, <2>7, <2>8
<1>4. Len(s) = 6 /\ s[1] = w1 /\ s[2] = w2 /\ s[3] = w3 /\ s[4] = w4 /\ s[5] = w5 /\ s[6] = w6
  BY <1>a, <1>b
<1>5. s \in Seq({w1, w2, w3, w4, w5, w6})
  BY <1>3
<1>6. IsSeq(s)
  BY <1>5 DEF IsSeq
<1>7. A32!InstLen(inst) = 6
  BY DEF A32!InstLen
<1>8. w1.op # "second"
  BY WordOps DEF w1
<1>9. QED
  BY <1>2, <1>4, <1>6, <1>7, <1>8 DEF A32LDRWords, w1, w2, w3, w4, w5, w6

LEMMA A32LDRREGPC ==
  ASSUME NEW inst \in A32!Insts, inst.kind = "LDR_REG_PC", NEW to, NEW inHead \in BOOLEAN, NEW pcv, NEW s, s = A32!Rewrite(inst, to, inHead, pcv), s # << >>
  PROVE  /\ IsSeq(s) /\ Len(s) = 9 /\ A32!InstLen(inst) = 9 /\ s[1].op # "second"
         /\ s[1] = BIf(inst.c, 0) /\ s[2] = B(6) /\ s[3] = Push("xy") /\ s[4] = Ldr("x", 0)
         /\ s[5] = B(0) /\ s[6] = Data("whole", pcv) /\ s[7] = Load("y", "x", inst.len)
         /\ s[8] = Store("y") /\ s[9] = Pop("xypc")
<1>1. s = A32!RewriteLdrReg(inst, pcv)
  BY DEF A32!Rewrite
<1>2. s = <<BIf(inst.c, 0), B(6), Push("xy"), Ldr("x", 0), B(0)>> \o <<Data("whole", pcv)>> \o <<Load("y", "x", inst.len), Store("y"), Pop("xypc")>>
  BY <1>1, A32Ops DEF A32!RewriteLdrReg
<1> DEFINE w1 == BIf(inst.c, 0)
           w2 == B(6)
           w3 == Push("xy")
           w4 == Ldr("x", 0)
           w5 == B(0)
           w6 == Data("whole", pcv)
           w7 == Load("y", "x", inst.len)
           w8 == Store("y")
           w9 == Pop("xypc")
<1>3. s = <<w1, w2, w3, w4, w5>> \o <<w6>> \o <<w7, w8, w9>>
  BY <1>2
<1> HIDE DEF w1, w2, w3, w4, w5, w6, w7, w8, w9
<1>4. Len(s) = 9 /\ s[1] = w1 /\ s[2] = w2 /\ s[3] = w3 /\ s[4] = w4 /\ s[5] = w5 /\ s[6] = w6 /\ s[7] = w7 /\ s[8] = w8 /\ s[9] = w9
  BY <1>3
<1>5. s \in Seq({w1, w2, w3, w4, w5, w6, w7, w8, w9})
  BY <1>3
<1>6. IsSeq(s)
  BY <1>5 DEF IsSeq
<1>7. A32!InstLen(inst) = 9
  BY DEF A32!InstLen
<1>8. w1.op # "second"
  BY WordOps DEF w1
<1>9. QED
  BY <1>4, <1>6, <1>7, <1>8 DEF w1, w2, w3, w4, w5, w6, w7, w8, w9

LEMMA A32LDRREG ==
  ASSUME NEW inst \in A32!Insts, inst.kind = "LDR_REG", NEW to, NEW inHead \in BOOLEAN, NEW pcv, NEW s, s = A32!Rewrite(inst, to, inHead, pcv), s # << >>
  PROVE  /\ IsSeq(s) /\ Len(s) = 8 /\ A32!InstLen(inst) = 8 /\ s[1].op # "second"
         /\ s[1] = BIf(inst.c, 0) /\ s[2] = B(5) /\ s[3] = Push("x") /\ s[4] = Ldr("x", 0)
         /\ s[5] = B(0) /\ s[6] = Data("whole", pcv) /\ s[7] = Load("r", "x", inst.len)
         /\ s[8] = Pop("x")
<1>1. s = A32!RewriteLdrReg(inst, pcv)
  BY DEF A32!Rewrite
<1>2. s = <<BIf(inst.c, 0), B(5), Push("x"), Ldr("x", 0), B(0)>> \o <<Data("whole", pcv)>> \o <<Load("r", "x", inst.len), Pop("x")>>
  BY <1>1, A32Ops DEF A32!RewriteLdrReg
<1> DEFINE w1 == BIf(inst.c, 0)
           w2 == B(5)
           w3 == Push("x")
           w4 == Ldr("x", 0)
           w5 == B(0)
           w6 == Data("whole", pcv)
           w7 == Load("r", "x", inst.len)
           w8 == Pop("x")
<1>3. s = <<w1, w2, w3, w4, w5>> \o <<w6>> \o <<w7, w8>>
  BY <1>2
<1> HIDE DEF w1, w2, w3, w4, w5, w6, w7, w8
<1>4. Len(s) = 8 /\ s[1] = w1 /\ s[2] = w2 /\ s[3] = w3 /\ s[4] = w4 /\ s[5] = w5 /\ s[6] = w6 /\ s[7] = w7 /\ s[8] = w8
  BY <1>3
<1>5. s \in Seq({w1, w2, w3, w4, w5, w6, w7, w8})
  BY <1>3
<1>6. IsSeq(s)
  BY <1>5 DEF IsSeq
<1>7. A32!InstLen(inst) = 8
  BY DEF A32!InstLen
<1>8. w1.op # "second"
  BY WordOps DEF w1
<1>9. QED
  BY <1>4, <1>6, <1>7, <1>8 DEF w1, w2, w3, w4, w5, w6, w7, w8

LEMMA A32IGNORED ==
  ASSUME NEW inst \in A32!Insts, inst.kind = "IGNORED", NEW to, NEW inHead \in BOOLEAN, NEW pcv, NEW s, s = A32!Rewrite(inst, to, inHead, pcv), s # << >>
  PROVE  /\ IsSeq(s) /\ Len(s) = 1 /\ A32!InstLen(inst) = 1 /\ s[1].op # "second"
         /\ s[1] = Plain(inst)
<1>1. s = <<A32!Plain(inst)>>
  BY DEF A32!Rewrite
<1>2. s = <<Plain(inst)>>
  BY <1>1, A32Ops
<1> DEFINE w1 == Plain(inst)
<1>3. s = <<w1>>
  BY <1>2
<1> HIDE DEF w1
<1>4. Len(s) = 1 /\ s[1] = w1
  BY <1>3
<1>5. s \in Seq({w1})
  BY <1>3
<1>6. IsSeq(s)
  BY <1>5 DEF IsSeq
<1>7. A32!InstLen(inst) = 1
  BY DEF A32!InstLen
<1>8. w1.op # "second"
  BY WordOps DEF w1
<1>9. QED
  BY <1>4, <1>6, <1>7, <1>8 DEF w1

(* What is written for a Thumb instruction has the length that was counted *)
(* for it, at most 8 halfwords for each of its own.                        *)
ThumbWellFormed(s, inst) ==
  /\ IsSeq(s) /\ Len(s) = Thumb!InstLen(inst) /\ s[1].op # "second"
  /\ Len(s) \in Nat /\ Len(s) >= 2 /\ Len(s) <= 8 * inst.size

LEMMA ThumbB1 ==
  ASSUME NEW inst \in Thumb!Insts16 \cup Thumb!Insts32, inst.kind = "B", inst.size = 1, NEW to,
         NEW inHead \in BOOLEAN, NEW pcv, NEW last \in BOOLEAN,
         NEW s, s = Thumb!Rewrite(inst, to, inHead, pcv, last), s # << >>
  PROVE  ThumbWellFormed(s, inst)
<1>1. s = Thumb!RewriteB16(inst, to)
  BY DEF Thumb!Rewrite, Thumb!Rewrite16
<1>2. s = << >> \o (<<Ldr("pc", 0), Second>> \o <<Data("low", to), Data("high", to)>>)
  BY <1>1, ThumbOps DEF Thumb!RewriteB16, Thumb!JumpTo
<1> DEFINE w1 == Ldr("pc", 0)
           w2 == Second
           w3 == Data("low", to)
           w4 == Data("high", to)
<1>3. s = << >> \o (<<w1, w2>> \o <<w3, w4>>)
  BY <1>2
<1> HIDE DEF w1, w2, w3, w4
<1>4. Len(s) = 4 /\ s[1] = w1
  BY <1>3
<1>5. s \in Seq({w1, w2, w3, w4})
  BY <1>3
<1>6. IsSeq(s)
  BY <1>5 DEF IsSeq
<1>7. Thumb!InstLen(inst) = 4
  BY DEF Thumb!InstLen, Thumb!InstLenOne, Thumb!InstLen16
<1>8. w1.op # "second"
  BY WordOps DEF w1
<1>9. QED
  BY <1>4, <1>6, <1>7, <1>8 DEF ThumbWellFormed

LEMMA ThumbBX1 ==
  ASSUME NEW inst \in Thumb!Insts16 \cup Thumb!Insts32, inst.kind = "BX", inst.size = 1, NEW to,
         NEW inHead \in BOOLEAN, NEW pcv, NEW last \in BOOLEAN,
         NEW s, s = Thumb!Rewrite(inst, to, inHead, pcv, last), s # << >>
  PROVE  ThumbWellFormed(s, inst)
<1>1. s = Thumb!RewriteB16(inst, to)
  BY DEF Thumb!Rewrite, Thumb!Rewrite16
<1>2. s = << >> \o (<<Ldr("pc", 0), Second>> \o <<Data("low", to), Data("high", to)>>)
  BY <1>1, ThumbOps DEF Thumb!RewriteB16, Thumb!JumpTo
<1> DEFINE w1 == Ldr("pc", 0)
           w2 == Second
           w3 == Data("low", to)
           w4 == Data("high", to)
<1>3. s = << >> \o (<<w1, w2>> \o <<w3, w4>>)
  BY <1>2
<1> HIDE DEF w1, w2, w3, w4
<1>4. Len(s) = 4 /\ s[1] = w1
  BY <1>3
<1>5. s \in Seq({w1, w2, w3, w4})
  BY <1>3
<1>6. IsSeq(s)
  BY <1>5 DEF IsSeq
<1>7. Thumb!InstLen(inst) = 4
  BY DEF Thumb!InstLen, Thumb!InstLenOne, Thumb!InstLen16
<1>8. w1.op # "second"
  BY WordOps DEF w1
<1>9. QED
  BY <1>4, <1>6, <1>7, <1>8 DEF ThumbWellFormed

LEMMA ThumbBCOND1 ==
  ASSUME NEW inst \in Thumb!Insts16 \cup Thumb!Insts32, inst.kind = "B_COND", inst.size = 1, NEW to,
         NEW inHead \in BOOLEAN, NEW pcv, NEW last \in BOOLEAN,
         NEW s, s = Thumb!Rewrite(inst, to, inHead, pcv, last), s # << >>
  PROVE  ThumbWellFormed(s, inst)
<1>1. s = Thumb!RewriteB16(inst, to)
  BY DEF Thumb!Rewrite, Thumb!Rewrite16
<1>2. s = <<IfTaken(0), B(3)>> \o (<<Ldr("pc", 0), Second>> \o <<Data("low", to), Data("high", to)>>)
  BY <1>1, ThumbOps DEF Thumb!RewriteB16, Thumb!JumpTo, IfTaken
<1> DEFINE w1 == IfTaken(0)
           w2 == B(3)
           w3 == Ldr("pc", 0)
           w4 == Second
           w5 == Data("low", to)
           w6 == Data("high", to)
<1>3. s = <<w1, w2>> \o (<<w3, w4>> \o <<w5, w6>>)
  BY <1>2
<1> HIDE DEF w1, w2, w3, w4, w5, w6
<1>4. Len(s) = 6 /\ s[1] = w1
  BY <1>3
<1>5. s \in Seq({w1, w2, w3, w4, w5, w6})
  BY <1>3
<1>6. IsSeq(s)
  BY <1>5 DEF IsSeq
<1>7. Thumb!InstLen(inst) = 6
  BY DEF Thumb!InstLen, Thumb!InstLenOne, Thumb!InstLen16
<1>8. w1.op # "second"
  BY WordOps DEF w1
<1>9. QED
  BY <1>4, <1>6, <1>7, <1>8 DEF ThumbWellFormed

LEMMA ThumbCBZ1 ==
  ASSUME NEW inst \in Thumb!Insts16 \cup Thumb!Insts32, inst.kind = "CBZ", inst.size = 1, NEW to,
         NEW inHead \in BOOLEAN, NEW pcv, NEW last \in BOOLEAN,
         NEW s, s = Thumb!Rewrite(inst, to, inHead, pcv, last), s # << >>
  PROVE  ThumbWellFormed(s, inst)
<1>1. s = Thumb!RewriteCb(to)
  BY DEF Thumb!Rewrite, Thumb!Rewrite16
<1>2. s = <<IfTaken(0), B(3)>> \o (<<Ldr("pc", 0), Second>> \o <<Data("low", to), Data("high", to)>>)
  BY <1>1, ThumbOps DEF Thumb!RewriteCb, Thumb!JumpTo, IfTaken
<1> DEFINE w1 == IfTaken(0)
           w2 == B(3)
           w3 == Ldr("pc", 0)
           w4 == Second
           w5 == Data("low", to)
           w6 == Data("high", to)
<1>3. s = <<w1, w2>> \o (<<w3, w4>> \o <<w5, w6>>)
  BY <1>2
<1> HIDE DEF w1, w2, w3, w4, w5, w6
<1>4. Len(s) = 6 /\ s[1] = w1
  BY <1>3
<1>5. s \in Seq({w1, w2, w3, w4, w5, w6})
  BY <1>3
<1>6. IsSeq(s)
  BY <1>5 DEF IsSeq
<1>7. Thumb!InstLen(inst) = 6
  BY DEF Thumb!InstLen, Thumb!InstLenOne, Thumb!InstLen16
<1>8. w1.op # "second"
  BY WordOps DEF w1
<1>9. QED
  BY <1>4, <1>6, <1>7, <1>8 DEF ThumbWellFormed

LEMMA ThumbADD1 ==
  ASSUME NEW inst \in Thumb!Insts16 \cup Thumb!Insts32, inst.kind = "ADD", inst.size = 1, NEW to,
         NEW inHead \in BOOLEAN, NEW pcv, NEW last \in BOOLEAN,
         NEW s, s = Thumb!Rewrite(inst, to, inHead, pcv, last), s # << >>
  PROVE  ThumbWellFormed(s, inst)
<1>1. s = Thumb!RewriteAdd(pcv)
  BY DEF Thumb!Rewrite, Thumb!Rewrite16
<1>2. s = <<Push("x"), Ldr("x", 4), Set("sum", "r", "x"), Pop("x"), B(2), Nop>> \o <<Data("low", pcv), Data("high", pcv)>>
  BY <1>1, ThumbOps DEF Thumb!RewriteAdd
<1> DEFINE w1 == Push("x")
           w2 == Ldr("x", 4)
           w3 == Set("sum", "r", "x")
           w4 == Pop("x")
           w5 == B(2)
           w6 == Nop
           w7 == Data("low", pcv)
           w8 == Data("high", pcv)
<1>3. s = <<w1, w2, w3, w4, w5, w6>> \o <<w7, w8>>
  BY <1>2
<1> HIDE DEF w1, w2, w3, w4, w5, w6, w7, w8
<1>4. Len(s) = 8 /\ s[1] = w1
  BY <1>3
<1>5. s \in Seq({w1, w2, w3, w4, w5, w6, w7, w8})
  BY <1>3
<1>6. IsSeq(s)
  BY <1>5 DEF IsSeq
<1>7. Thumb!InstLen(inst) = 8
  BY DEF Thumb!InstLen, Thumb!InstLenOne, Thumb!InstLen16
<1>8. w1.op # "second"
  BY WordOps DEF w1
<1>9. QED
  BY <1>4, <1>6, <1>7, <1>8 DEF ThumbWellFormed

LEMMA ThumbMOV1 ==
  ASSUME NEW inst \in Thumb!Insts16 \cup Thumb!Insts32, inst.kind = "MOV", inst.size = 1, NEW to,
         NEW inHead \in BOOLEAN, NEW pcv, NEW last \in BOOLEAN,
         NEW s, s = Thumb!Rewrite(inst, to, inHead, pcv, last), s # << >>
  PROVE  ThumbWellFormed(s, inst)
<1>1. s = Thumb!RewriteMov(pcv)
  BY DEF Thumb!Rewrite, Thumb!Rewrite16
<1>2. s = <<Ldr("r", 2), Second>> \o <<B(2), Nop>> \o <<Data("low", pcv), Data("high", pcv)>>
  BY <1>1, ThumbOps DEF Thumb!RewriteMov
<1> DEFINE w1 == Ldr("r", 2)
           w2 == Second
           w3 == B(2)
           w4 == Nop
           w5 == Data("low", pcv)
           w6 == Data("high", pcv)
<1>3. s = <<w1, w2>> \o <<w3, w4>> \o <<w5, w6>>
  BY <1>2
<1> HIDE DEF w1, w2, w3, w4, w5, w6
<1>4. Len(s) = 6 /\ s[1] = w1
  BY <1>3
<1>5. s \in Seq({w1, w2, w3, w4, w5, w6})
  BY <1>3
<1>6. IsSeq(s)
  BY <1>5 DEF IsSeq
<1>7. Thumb!InstLen(inst) = 6
  BY DEF Thumb!InstLen, Thumb!InstLenOne, Thumb!InstLen16
<1>8. w1.op # "second"
  BY WordOps DEF w1
<1>9. QED
  BY <1>4, <1>6, <1>7, <1>8 DEF ThumbWellFormed

LEMMA ThumbADR1 ==
  ASSUME NEW inst \in Thumb!Insts16 \cup Thumb!Insts32, inst.kind = "ADR", inst.size = 1, NEW to,
         NEW inHead \in BOOLEAN, NEW pcv, NEW last \in BOOLEAN,
         NEW s, s = Thumb!Rewrite(inst, to, inHead, pcv, last), s # << >>
  PROVE  ThumbWellFormed(s, inst)
<1>1. s = Thumb!RewriteAdr16(to)
  BY DEF Thumb!Rewrite, Thumb!Rewrite16
<1>2. s = <<Ldr("r", 0), B(1)>> \o <<Data("low", to), Data("high", to)>>
  BY <1>1, ThumbOps DEF Thumb!RewriteAdr16
<1> DEFINE w1 == Ldr("r", 0)
           w2 == B(1)
           w3 == Data("low", to)
           w4 == Data("high", to)
<1>3. s = <<w1, w2>> \o <<w3, w4>>
  BY <1>2
<1> HIDE DEF w1, w2, w3, w4
<1>4. Len(s) = 4 /\ s[1] = w1
  BY <1>3
<1>5. s \in Seq({w1, w2, w3, w4})
  BY <1>3
<1>6. IsSeq(s)
  BY <1>5 DEF IsSeq
<1>7. Thumb!InstLen(inst) = 4
  BY DEF Thumb!InstLen, Thumb!InstLenOne, Thumb!InstLen16
<1>8. w1.op # "second"
  BY WordOps DEF w1
<1>9. QED
  BY <1>4, <1>6, <1>7, <1>8 DEF ThumbWellFormed

LEMMA ThumbLDR1 ==
  ASSUME NEW inst \in Thumb!Insts16 \cup Thumb!Insts32, inst.kind = "LDR", inst.size = 1, NEW to,
         NEW inHead \in BOOLEAN, NEW pcv, NEW last \in BOOLEAN,
         NEW s, s = Thumb!Rewrite(inst, to, inHead, pcv, last), s # << >>
  PROVE  ThumbWellFormed(s, inst)
<1>1. s = Thumb!RewriteLdr16(inst, to)
  BY DEF Thumb!Rewrite, Thumb!Rewrite16
<1>2. s = <<Ldr("r", 0), B(1)>> \o <<Data("low", to), Data("high", to)>> \o <<Load("r", "r", inst.len), Nop>>
  BY <1>1, ThumbOps DEF Thumb!RewriteLdr16, Thumb!RewriteAdr16
<1> DEFINE w1 == Ldr("r", 0)
           w2 == B(1)
           w3 == Data("low", to)
           w4 == Data("high", to)
           w5 == Load("r", "r", inst.len)
           w6 == Nop
<1>3. s = <<w1, w2>> \o <<w3, w4>> \o <<w5, w6>>
  BY <1>2
<1> HIDE DEF w1, w2, w3, w4, w5, w6
<1>4. Len(s) = 6 /\ s[1] = w1
  BY <1>3
<1>5. s \in Seq({w1, w2, w3, w4, w5, w6})
  BY <1>3
<1>6. IsSeq(s)
  BY <1>5 DEF IsSeq
<1>7. Thumb!InstLen(inst) = 6
  BY DEF Thumb!InstLen, Thumb!InstLenOne, Thumb!InstLen16
<1>8. w1.op # "second"
  BY WordOps DEF w1
<1>9. QED
  BY <1>4, <1>6, <1>7, <1>8 DEF ThumbWellFormed

LEMMA ThumbIGNORED1 ==
  ASSUME NEW inst \in Thumb!Insts16 \cup Thumb!Insts32, inst.kind = "IGNORED", inst.size = 1, NEW to,
         NEW inHead \in BOOLEAN, NEW pcv, NEW last \in BOOLEAN,
         NEW s, s = Thumb!Rewrite(inst, to, inHead, pcv, last), s # << >>
  PROVE  ThumbWellFormed(s, inst)
<1>1. s = <<Thumb!Plain(inst), Thumb!Nop>>
  BY DEF Thumb!Rewrite, Thumb!Rewrite16
<1>2. s = <<Plain(inst), Nop>>
  BY <1>1, ThumbOps
<1> DEFINE w1 == Plain(inst)
           w2 == Nop
<1>3. s = <<w1, w2>>
  BY <1>2
<1> HIDE DEF w1, w2
<1>4. Len(s) = 2 /\ s[1] = w1
  BY <1>3
<1>5. s \in Seq({w1, w2})
  BY <1>3
<1>6. IsSeq(s)
  BY <1>5 DEF IsSeq
<1>7. Thumb!InstLen(inst) = 2
  BY DEF Thumb!InstLen, Thumb!InstLenOne, Thumb!InstLen16
<1>8. w1.op # "second"
  BY WordOps DEF w1
<1>9. QED
  BY <1>4, <1>6, <1>7, <1>8 DEF ThumbWellFormed

LEMMA ThumbB2 ==
  ASSUME NEW inst \in Thumb!Insts16 \cup Thumb!Insts32, inst.kind = "B", inst.size = 2, NEW to,
         NEW inHead \in BOOLEAN, NEW pcv, NEW last \in BOOLEAN,
         NEW s, s = Thumb!Rewrite(inst, to, inHead, pcv, last), s # << >>
  PROVE  ThumbWellFormed(s, inst)
<1>1. s = Thumb!RewriteB32(inst, to)
  BY DEF Thumb!Rewrite, Thumb!Rewrite32
<1>2. s = << >> \o (<<Ldr("pc", 0), Second>> \o <<Data("low", to), Data("high", to)>>)
  BY <1>1, ThumbOps DEF Thumb!RewriteB32, Thumb!JumpTo
<1> DEFINE w1 == Ldr("pc", 0)
           w2 == Second
           w3 == Data("low", to)
           w4 == Data("high", to)
<1>3. s = << >> \o (<<w1, w2>> \o <<w3, w4>>)
  BY <1>2
<1> HIDE DEF w1, w2, w3, w4
<1>4. Len(s) = 4 /\ s[1] = w1
  BY <1>3
<1>5. s \in Seq({w1, w2, w3, w4})
  BY <1>3
<1>6. IsSeq(s)
  BY <1>5 DEF IsSeq
<1>7. Thumb!InstLen(inst) = 4
  BY DEF Thumb!InstLen, Thumb!InstLenOne, Thumb!InstLen32
<1>8. w1.op # "second"
  BY WordOps DEF w1
<1>9. QED
  BY <1>4, <1>6, <1>7, <1>8 DEF ThumbWellFormed

LEMMA ThumbBCOND2 ==
  ASSUME NEW inst \in Thumb!Insts16 \cup Thumb!Insts32, inst.kind = "B_COND", inst.size = 2, NEW to,
         NEW inHead \in BOOLEAN, NEW pcv, NEW last \in BOOLEAN,
         NEW s, s = Thumb!Rewrite(inst, to, inHead, pcv, last), s # << >>
  PROVE  ThumbWellFormed(s, inst)
<1>1. s = Thumb!RewriteB32(inst, to)
  BY DEF Thumb!Rewrite, Thumb!Rewrite32
<1>2. s = <<IfTaken(0), B(3)>> \o (<<Ldr("pc", 0), Second>> \o <<Data("low", to), Data("high", to)>>)
  BY <1>1, ThumbOps DEF Thumb!RewriteB32, Thumb!JumpTo, IfTaken
<1> DEFINE w1 == IfTaken(0)
           w2 == B(3)
           w3 == Ldr("pc", 0)
           w4 == Second
           w5 == Data("low", to)
           w6 == Data("high", to)
<1>3. s = <<w1, w2>> \o (<<w3, w4>> \o <<w5, w6>>)
  BY <1>2
<1> HIDE DEF w1, w2, w3, w4, w5, w6
<1>4. Len(s) = 6 /\ s[1] = w1
  BY <1>3
<1>5. s \in Seq({w1, w2, w3, w4, w5, w6})
  BY <1>3
<1>6. IsSeq(s)
  BY <1>5 DEF IsSeq
<1>7. Thumb!InstLen(inst) = 6
  BY DEF Thumb!InstLen, Thumb!InstLenOne, Thumb!InstLen32
<1>8. w1.op # "second"
  BY WordOps DEF w1
<1>9. QED
  BY <1>4, <1>6, <1>7, <1>8 DEF ThumbWellFormed

LEMMA ThumbBL2 ==
  ASSUME NEW inst \in Thumb!Insts16 \cup Thumb!Insts32, inst.kind = "BL", inst.size = 2, NEW to,
         NEW inHead \in BOOLEAN, NEW pcv, NEW last \in BOOLEAN,
         NEW s, s = Thumb!Rewrite(inst, to, inHead, pcv, last), s # << >>
  PROVE  ThumbWellFormed(s, inst)
<1>1. s = Thumb!RewriteB32(inst, to)
  BY DEF Thumb!Rewrite, Thumb!Rewrite32
<1>2. s = <<LinkAlways(4), Second>> \o (<<Ldr("pc", 0), Second>> \o <<Data("low", to), Data("high", to)>>)
  BY <1>1, ThumbOps DEF Thumb!RewriteB32, Thumb!JumpTo, LinkAlways
<1> DEFINE w1 == LinkAlways(4)
           w2 == Second
           w3 == Ldr("pc", 0)
           w4 == Second
           w5 == Data("low", to)
           w6 == Data("high", to)
<1>3. s = <<w1, w2>> \o (<<w3, w4>> \o <<w5, w6>>)
  BY <1>2
<1> HIDE DEF w1, w2, w3, w4, w5, w6
<1>4. Len(s) = 6 /\ s[1] = w1
  BY <1>3
<1>5. s \in Seq({w1, w2, w3, w4, w5, w6})
  BY <1>3
<1>6. IsSeq(s)
  BY <1>5 DEF IsSeq
<1>7. Thumb!InstLen(inst) = 6
  BY DEF Thumb!InstLen, Thumb!InstLenOne, Thumb!InstLen32
<1>8. w1.op # "second"
  BY WordOps DEF w1, LinkAlways
<1>9. QED
  BY <1>4, <1>6, <1>7, <1>8 DEF ThumbWellFormed

LEMMA ThumbBLX2 ==
  ASSUME NEW inst \in Thumb!Insts16 \cup Thumb!Insts32, inst.kind = "BLX", inst.size = 2, NEW to,
         NEW inHead \in BOOLEAN, NEW pcv, NEW last \in BOOLEAN,
         NEW s, s = Thumb!Rewrite(inst, to, inHead, pcv, last), s # << >>
  PROVE  ThumbWellFormed(s, inst)
<1>1. s = Thumb!RewriteB32(inst, to)
  BY DEF Thumb!Rewrite, Thumb!Rewrite32
<1>2. s = <<LinkAlways(4), Second>> \o (<<Ldr("pc", 0), Second>> \o <<Data("low", to), Data("high", to)>>)
  BY <1>1, ThumbOps DEF Thumb!RewriteB32, Thumb!JumpTo, LinkAlways
<1> DEFINE w1 == LinkAlways(4)
           w2 == Second
           w3 == Ldr("pc", 0)
           w4 == Second
           w5 == Data("low", to)
           w6 == Data("high", to)
<1>3. s = <<w1, w2>> \o (<<w3, w4>> \o <<w5, w6>>)
  BY <1>2
<1> HIDE DEF w1, w2, w3, w4, w5, w6
<1>4. Len(s) = 6 /\ s[1] = w1
  BY <1>3
<1>5. s \in Seq({w1, w2, w3, w4, w5, w6})
  BY <1>3
<1>6. IsSeq(s)
  BY <1>5 DEF IsSeq
<1>7. Thumb!InstLen(inst) = 6
  BY DEF Thumb!InstLen, Thumb!InstLenOne, Thumb!InstLen32
<1>8. w1.op # "second"
  BY WordOps DEF w1, LinkAlways
<1>9. QED
  BY <1>4, <1>6, <1>7, <1>8 DEF ThumbWellFormed

LEMMA ThumbADR2 ==
  ASSUME NEW inst \in Thumb!Insts16 \cup Thumb!Insts32, inst.kind = "ADR", inst.size = 2, NEW to,
         NEW inHead \in BOOLEAN, NEW pcv, NEW last \in BOOLEAN,
         NEW s, s = Thumb!Rewrite(inst, to, inHead, pcv, last), s # << >>
  PROVE  ThumbWellFormed(s, inst)
<1>1. s = Thumb!RewriteAdr32(to)
  BY DEF Thumb!Rewrite, Thumb!Rewrite32
<1>2. s = <<Ldr("r", 2), Second>> \o <<B(2), Nop>> \o <<Data("low", to), Data("high", to)>>
  BY <1>1, ThumbOps DEF Thumb!RewriteAdr32
<1> DEFINE w1 == Ldr("r", 2)
           w2 == Second
           w3 == B(2)
           w4 == Nop
           w5 == Data("low", to)
           w6 == Data("high", to)
<1>3. s = <<w1, w2>> \o <<w3, w4>> \o <<w5, w6>>
  BY <1>2
<1> HIDE DEF w1, w2, w3, w4, w5, w6
<1>4. Len(s) = 6 /\ s[1] = w1
  BY <1>3
<1>5. s \in Seq({w1, w2, w3, w4, w5, w6})
  BY <1>3
<1>6. IsSeq(s)
  BY <1>5 DEF IsSeq
<1>7. Thumb!InstLen(inst) = 6
  BY DEF Thumb!InstLen, Thumb!InstLenOne, Thumb!InstLen32
<1>8. w1.op # "second"
  BY WordOps DEF w1
<1>9. QED
  BY <1>4, <1>6, <1>7, <1>8 DEF ThumbWellFormed

LEMMA ThumbLDR2 ==
  ASSUME NEW inst \in Thumb!Insts16 \cup Thumb!Insts32, inst.kind = "LDR", inst.size = 2, NEW to,
         NEW inHead \in BOOLEAN, NEW pcv, NEW last \in BOOLEAN,
         NEW s, s = Thumb!Rewrite(inst, to, inHead, pcv, last), s # << >>
  PROVE  ThumbWellFormed(s, inst)
<1>1. s = Thumb!RewriteLdr32(inst, to)
  BY DEF Thumb!Rewrite, Thumb!Rewrite32
<1>2. s = <<Ldr("r", 2), Second>> \o <<B(2), Nop>> \o <<Data("low", to), Data("high", to)>> \o <<Load("r", "r", inst.len), Second>>
  BY <1>1, ThumbOps DEF Thumb!RewriteLdr32, Thumb!RewriteAdr32
<1> DEFINE w1 == Ldr("r", 2)
           w2 == Second
           w3 == B(2)
           w4 == Nop
           w5 == Data("low", to)
           w6 == Data("high", to)
           w7 == Load("r", "r", inst.len)
           w8 == Second
<1>3. s = <<w1, w2>> \o <<w3, w4>> \o <<w5, w6>> \o <<w7, w8>>
  BY <1>2
<1> HIDE DEF w1, w2, w3, w4, w5, w6, w7, w8
<1>4. Len(s) = 8 /\ s[1] = w1
  BY <1>3
<1>5. s \in Seq({w1, w2, w3, w4, w5, w6, w7, w8})
  BY <1>3
<1>6. IsSeq(s)
  BY <1>5 DEF IsSeq
<1>7. Thumb!InstLen(inst) = 8
  BY DEF Thumb!InstLen, Thumb!InstLenOne, Thumb!InstLen32
<1>8. w1.op # "second"
  BY WordOps DEF w1
<1>9. QED
  BY <1>4, <1>6, <1>7, <1>8 DEF ThumbWellFormed

LEMMA ThumbLDRPC2 ==
  ASSUME NEW inst \in Thumb!Insts16 \cup Thumb!Insts32, inst.kind = "LDR_PC", inst.size = 2, NEW to,
         NEW inHead \in BOOLEAN, NEW pcv, NEW last \in BOOLEAN,
         NEW s, s = Thumb!Rewrite(inst, to, inHead, pcv, last), s # << >>
  PROVE  ThumbWellFormed(s, inst)
<1>1. s = Thumb!RewriteLdr32(inst, to)
  BY DEF Thumb!Rewrite, Thumb!Rewrite32
<1>2. s = <<Push("x"), Nop>> \o <<Ldr("x", 2), Second>> \o <<B(2), Nop>> \o <<Data("low", to), Data("high", to)>> \o <<Load("x", "x", inst.len), Second>> \o <<Store("x"), Pop("xpc")>>
  BY <1>1, ThumbOps DEF Thumb!RewriteLdr32
<1> DEFINE w1 == Push("x")
           w2 == Nop
           w3 == Ldr("x", 2)
           w4 == Second
           w5 == B(2)
           w6 == Nop
           w7 == Data("low", to)
           w8 == Data("high", to)
           w9 == Load("x", "x", inst.len)
           w10 == Second
           w11 == Store("x")
           w12 == Pop("xpc")
<1>3. s = <<w1, w2>> \o <<w3, w4>> \o <<w5, w6>> \o <<w7, w8>> \o <<w9, w10>> \o <<w11, w12>>
  BY <1>2
<1> HIDE DEF w1, w2, w3, w4, w5, w6, w7, w8, w9, w10, w11, w12
<1>4. Len(s) = 12 /\ s[1] = w1
  BY <1>3
<1>5. s \in Seq({w1, w2, w3, w4, w5, w6, w7, w8, w9, w10, w11, w12})
  BY <1>3
<1>6. IsSeq(s)
  BY <1>5 DEF IsSeq
<1>7. Thumb!InstLen(inst) = 12
  BY DEF Thumb!InstLen, Thumb!InstLenOne, Thumb!InstLen32
<1>8. w1.op # "second"
  BY WordOps DEF w1
<1>9. QED
  BY <1>4, <1>6, <1>7, <1>8 DEF ThumbWellFormed

LEMMA ThumbPLD2 ==
  ASSUME NEW inst \in Thumb!Insts16 \cup Thumb!Insts32, inst.kind = "PLD", inst.size = 2, NEW to,
         NEW inHead \in BOOLEAN, NEW pcv, NEW last \in BOOLEAN,
         NEW s, s = Thumb!Rewrite(inst, to, inHead, pcv, last), s # << >>
  PROVE  ThumbWellFormed(s, inst)
<1>1. s = Thumb!RewritePl(to)
  BY DEF Thumb!Rewrite, Thumb!Rewrite32
<1>2. s = <<Push("x"), Nop>> \o <<Ldr("x", 4), Second>> \o <<Nop, Second>> \o <<Pop("x"), B(1)>> \o <<Data("low", to), Data("high", to)>>
  BY <1>1, ThumbOps DEF Thumb!RewritePl
<1> DEFINE w1 == Push("x")
           w2 == Nop
           w3 == Ldr("x", 4)
           w4 == Second
           w5 == Nop
           w6 == Second
           w7 == Pop("x")
           w8 == B(1)
           w9 == Data("low", to)
           w10 == Data("high", to)
<1>3. s = <<w1, w2>> \o <<w3, w4>> \o <<w5, w6>> \o <<w7, w8>> \o <<w9, w10>>
  BY <1>2
<1> HIDE DEF w1, w2, w3, w4, w5, w6, w7, w8, w9, w10
<1>4. Len(s) = 10 /\ s[1] = w1
  BY <1>3
<1>5. s \in Seq({w1, w2, w3, w4, w5, w6, w7, w8, w9, w10})
  BY <1>3
<1>6. IsSeq(s)
  BY <1>5 DEF IsSeq
<1>7. Thumb!InstLen(inst) = 10
  BY DEF Thumb!InstLen, Thumb!InstLenOne, Thumb!InstLen32
<1>8. w1.op # "second"
  BY WordOps DEF w1
<1>9. QED
  BY <1>4, <1>6, <1>7, <1>8 DEF ThumbWellFormed

LEMMA ThumbTB2 ==
  ASSUME NEW inst \in Thumb!Insts16 \cup Thumb!Insts32, inst.kind = "TB", inst.size = 2, NEW to,
         NEW inHead \in BOOLEAN, NEW pcv, NEW last \in BOOLEAN,
         NEW s, s = Thumb!Rewrite(inst, to, inHead, pcv, last), s # << >>
  PROVE  ThumbWellFormed(s, inst)
<1>1. s = Thumb!RewriteTb(pcv)
  BY DEF Thumb!Rewrite, Thumb!Rewrite32
<1>2. s = <<Push("xy"), Nop>> \o <<Ldr("x", 10), Second>> \o <<Nop, Second>> \o <<Nop, Nop>> \o <<Set("index", "x", "x"), Second>> \o <<Set("thumb", "x", "x"), Store("x"), Pop("xypc"), Nop>> \o <<Data("low", pcv), Data("high", pcv)>>
  BY <1>1, ThumbOps DEF Thumb!RewriteTb
<1> DEFINE w1 == Push("xy")
           w2 == Nop
           w3 == Ldr("x", 10)
           w4 == Second
           w5 == Nop
           w6 == Second
           w7 == Nop
           w8 == Nop
           w9 == Set("index", "x", "x")
           w10 == Second
           w11 == Set("thumb", "x", "x")
           w12 == Store("x")
           w13 == Pop("xypc")
           w14 == Nop
           w15 == Data("low", pcv)
           w16 == Data("high", pcv)
<1>3. s = <<w1, w2>> \o <<w3, w4>> \o <<w5, w6>> \o <<w7, w8>> \o <<w9, w10>> \o <<w11, w12, w13, w14>> \o <<w15, w16>>
  BY <1>2
<1> HIDE DEF w1, w2, w3, w4, w5, w6, w7, w8, w9, w10, w11, w12, w13, w14, w15, w16
<1>4. Len(s) = 16 /\ s[1] = w1
  BY <1>3
<1>5. s \in Seq({w1, w2, w3, w4, w5, w6, w7, w8, w9, w10, w11, w12, w13, w14, w15, w16})
  BY <1>3
<1>6. IsSeq(s)
  BY <1>5 DEF IsSeq
<1>7. Thumb!InstLen(inst) = 16
  BY DEF Thumb!InstLen, Thumb!InstLenOne, Thumb!InstLen32
<1>8. w1.op # "second"
  BY WordOps DEF w1
<1>9. QED
  BY <1>4, <1>6, <1>7, <1>8 DEF ThumbWellFormed

LEMMA ThumbVLDR2 ==
  ASSUME NEW inst \in Thumb!Insts16 \cup Thumb!Insts32, inst.kind = "VLDR", inst.size = 2, NEW to,
         NEW inHead \in BOOLEAN, NEW pcv, NEW last \in BOOLEAN,
         NEW s, s = Thumb!Rewrite(inst, to, inHead, pcv, last), s # << >>
  PROVE  ThumbWellFormed(s, inst)
<1>1. s = Thumb!RewriteVldr(inst, to)
  BY DEF Thumb!Rewrite, Thumb!Rewrite32
<1>2. s = <<Push("x"), Nop>> \o <<Ldr("x", 2), Second>> \o <<B(2), Nop>> \o <<Data("low", to), Data("high", to)>> \o <<Load("r", "x", inst.len), Second>> \o <<Pop("x"), Nop>>
  BY <1>1, ThumbOps DEF Thumb!RewriteVldr
<1> DEFINE w1 == Push("x")
           w2 == Nop
           w3 == Ldr("x", 2)
           w4 == Second
           w5 == B(2)
           w6 == Nop
           w7 == Data("low", to)
           w8 == Data("high", to)
           w9 == Load("r", "x", inst.len)
           w10 == Second
           w11 == Pop("x")
           w12 == Nop
<1>3. s = <<w1, w2>> \o <<w3, w4>> \o <<w5, w6>> \o <<w7, w8>> \o <<w9, w10>> \o <<w11, w12>>
  BY <1>2
<1> HIDE DEF w1, w2, w3, w4, w5, w6, w7, w8, w9, w10, w11, w12
<1>4. Len(s) = 12 /\ s[1] = w1
  BY <1>3
<1>5. s \in Seq({w1, w2, w3, w4, w5, w6, w7, w8, w9, w10, w11, w12})
  BY <1>3
<1>6. IsSeq(s)
  BY <1>5 DEF IsSeq
<1>7. Thumb!InstLen(inst) = 12
  BY DEF Thumb!InstLen, Thumb!InstLenOne, Thumb!InstLen32
<1>8. w1.op # "second"
  BY WordOps DEF w1
<1>9. QED
  BY <1>4, <1>6, <1>7, <1>8 DEF ThumbWellFormed

LEMMA ThumbIGNORED2 ==
  ASSUME NEW inst \in Thumb!Insts16 \cup Thumb!Insts32, inst.kind = "IGNORED", inst.size = 2, NEW to,
         NEW inHead \in BOOLEAN, NEW pcv, NEW last \in BOOLEAN,
         NEW s, s = Thumb!Rewrite(inst, to, inHead, pcv, last), s # << >>
  PROVE  ThumbWellFormed(s, inst)
<1>1. s = Thumb!Wide(Thumb!Plain(inst))
  BY DEF Thumb!Rewrite, Thumb!Rewrite32
<1>2. s = <<Plain(inst), Second>>
  BY <1>1, ThumbOps
<1> DEFINE w1 == Plain(inst)
           w2 == Second
<1>3. s = <<w1, w2>>
  BY <1>2
<1> HIDE DEF w1, w2
<1>4. Len(s) = 2 /\ s[1] = w1
  BY <1>3
<1>5. s \in Seq({w1, w2})
  BY <1>3
<1>6. IsSeq(s)
  BY <1>5 DEF IsSeq
<1>7. Thumb!InstLen(inst) = 2
  BY DEF Thumb!InstLen, Thumb!InstLenOne, Thumb!InstLen32
<1>8. w1.op # "second"
  BY WordOps DEF w1
<1>9. QED
  BY <1>4, <1>6, <1>7, <1>8 DEF ThumbWellFormed

LEMMA ThumbFormed ==
  ASSUME NEW inst \in Thumb!Insts16 \cup Thumb!Insts32, NEW to, NEW inHead \in BOOLEAN, NEW pcv,
         NEW last \in BOOLEAN, NEW s, s = Thumb!Rewrite(inst, to, inHead, pcv, last), s # << >>
  PROVE  ThumbWellFormed(s, inst)
<1>1. \/ /\ inst.size = 1
         /\ inst.kind \in {"IGNORED", "B", "B_COND", "BX", "ADD", "MOV", "ADR", "LDR", "CBZ"}
      \/ /\ inst.size = 2
         /\ inst.kind \in {"IGNORED", "B", "B_COND", "BL", "BLX", "ADR", "LDR", "LDR_PC", "PLD", "TB", "VLDR"}
  BY DEF Thumb!Insts16, Thumb!Insts32, Thumb!InstsOf
<1>2. CASE inst.size = 1
  <2>1. CASE inst.kind = "B"
    BY <1>2, <2>1, ThumbB1
  <2>2. CASE inst.kind = "BX"
    BY <1>2, <2>2, ThumbBX1
  <2>3. CASE inst.kind = "B_COND"
    BY <1>2, <2>3, ThumbBCOND1
  <2>4. CASE inst.kind = "CBZ"
    BY <1>2, <2>4, ThumbCBZ1
  <2>5. CASE inst.kind = "ADD"
    BY <1>2, <2>5, ThumbADD1
  <2>6. CASE inst.kind = "MOV"
    BY <1>2, <2>6, ThumbMOV1
  <2>7. CASE inst.kind = "ADR"
    BY <1>2, <2>7, ThumbADR1
  <2>8. CASE inst.kind = "LDR"
    BY <1>2, <2>8, ThumbLDR1
  <2>9. CASE inst.kind = "IGNORED"
    BY <1>2, <2>9, ThumbIGNORED1
  <2> QED BY <1>1, <1>2, <2>1, <2>2, <2>3, <2>4, <2>5, <2>6, <2>7, <2>8, <2>9
<1>3. CASE inst.size = 2
  <2>1. CASE inst.kind = "B"
    BY <1>3, <2>1, ThumbB2
  <2>2. CASE inst.kind = "B_COND"
    BY <1>3, <2>2, ThumbBCOND2
  <2>3. CASE inst.kind = "BL"
    BY <1>3, <2>3, ThumbBL2
  <2>4. CASE inst.kind = "BLX"
    BY <1>3, <2>4, ThumbBLX2
  <2>5. CASE inst.kind = "ADR"
    BY <1>3, <2>5, ThumbADR2
  <2>6. CASE inst.kind = "LDR"
    BY <1>3, <2>6, ThumbLDR2
  <2>7. CASE inst.kind = "LDR_PC"
    BY <1>3, <2>7, ThumbLDRPC2
  <2>8. CASE inst.kind = "PLD"
    BY <1>3, <2>8, ThumbPLD2
  <2>9. CASE inst.kind = "TB"
    BY <1>3, <2>9, ThumbTB2
  <2>10. CASE inst.kind = "VLDR"
    BY <1>3, <2>10, ThumbVLDR2
  <2>11. CASE inst.kind = "IGNORED"
    BY <1>3, <2>11, ThumbIGNORED2
  <2> QED BY <1>1, <1>3, <2>1, <2>2, <2>3, <2>4, <2>5, <2>6, <2>7, <2>8, <2>9, <2>10, <2>11
<1> QED BY <1>1, <1>2, <1>3

(* What the parts of an IT block that belong together are joined to.       *)
IsJoin(f, g, m) == f = [k \in 0 .. m |-> IF k = 0 THEN << >> ELSE f[k - 1] \o g[k]]

LEMMA JoinExists ==
  ASSUME NEW m \in Nat, NEW g
  PROVE  \E f : IsJoin(f, g, m)
<1> DEFINE T == {i \in Nat : i <= m /\ ~ \E f : IsJoin(f, g, i)}
<1> SUFFICES ASSUME T # {} PROVE FALSE
  OBVIOUS
<1>1. PICK i \in T : \A k \in T : i <= k
  BY NatMinimum
<1>2. CASE i = 0
  <2>1. IsJoin([k \in 0 .. 0 |-> << >>], g, 0)
    BY DEF IsJoin
  <2> QED BY <1>1, <1>2, <2>1
<1>3. CASE i > 0
  <2>1. i - 1 \in Nat /\ i - 1 \notin T /\ i - 1 <= m
    BY <1>1, <1>3
  <2>2. PICK h : IsJoin(h, g, i - 1)
    BY <2>1
  <2> DEFINE f == [k \in 0 .. i |-> IF k = i THEN h[i - 1] \o g[i] ELSE h[k]]
  <2>3. \A k \in 0 .. i - 1 : h[k] = IF k = 0 THEN << >> ELSE h[k - 1] \o g[k]
    BY <2>2 DEF IsJoin
  <2>4. \A k \in 0 .. i : f[k] = IF k = 0 THEN << >> ELSE f[k - 1] \o g[k]
    BY <2>1, <2>3, <1>3
  <2>5. IsJoin(f, g, i)
    BY <2>4 DEF IsJoin
  <2> QED BY <1>1, <2>5
<1> QED BY <1>2, <1>3

Pieces(parts, then, on) == [k \in 1 .. Len(parts) |-> IF then[k] = on THEN parts[k] ELSE << >>]

LEMMA JoinedIs ==
  ASSUME NEW parts, NEW then, NEW on \in BOOLEAN, Len(parts) \in Nat
  PROVE  \E f : IsJoin(f, Pieces(parts, then, on), Len(parts)) /\ Thumb!Joined(parts, then, on) = f[Len(parts)]
<1> DEFINE m == Len(parts)
           g == Pieces(parts, then, on)
           j == Thumb!Joined(parts, then, on)
<1>0. \A k \in 1 .. m : g[k] = IF then[k] = on THEN parts[k] ELSE << >>
  BY DEF Pieces
<1> HIDE DEF g
<1> DEFINE P(f) == f = [k \in 0 .. m |-> IF k = 0 THEN << >> ELSE f[k - 1] \o (IF then[k] = on THEN parts[k] ELSE << >>)]
           s == CHOOSE f : P(f)
<1>1. PICK join : IsJoin(join, g, m)
  BY JoinExists
<1>2. \A f : IsJoin(f, g, m) <=> P(f)
  <2> SUFFICES ASSUME NEW f PROVE IsJoin(f, g, m) <=> P(f)
    OBVIOUS
  <2>1. \A k \in 0 .. m : (IF k = 0 THEN << >> ELSE f[k - 1] \o g[k])
                          = (IF k = 0 THEN << >> ELSE f[k - 1] \o (IF then[k] = on THEN parts[k] ELSE << >>))
    BY <1>0
  <2>2. [k \in 0 .. m |-> IF k = 0 THEN << >> ELSE f[k - 1] \o g[k]]
        = [k \in 0 .. m |-> IF k = 0 THEN << >> ELSE f[k - 1] \o (IF then[k] = on THEN parts[k] ELSE << >>)]
    BY <2>1
  <2> QED BY <2>2, Zenon DEF IsJoin
<1>3. P(join)
  BY <1>1, <1>2
<1>4. Thumb!Joined(parts, then, on) = s[m]
  BY DEF Thumb!Joined
<1> HIDE DEF P
<1>5. P(s)
  BY <1>3, Zenon
<1> QED BY <1>2, <1>4, <1>5, Zenon DEF g

(* The ELSE part, the THEN part, the length that is counted and the size,  *)
(* of the first k instructions of an IT block.                             *)
JoinsFit(a, b, h, z) ==
  /\ IsSeq(a) /\ IsSeq(b) /\ Len(a) \in Nat /\ Len(b) \in Nat
  /\ h = 4 + Len(a) + Len(b) /\ z \in Int /\ h <= 4 + 8 * z

PieceFits(p, l, y, e, t) ==
  /\ IsSeq(p) /\ l = Len(p) /\ l <= 8 * y /\ y \in Int
  /\ (e = p /\ t = << >>) \/ (e = << >> /\ t = p)

LEMMA JoinStep ==
  ASSUME NEW a, NEW b, NEW p, NEW l, NEW h, NEW z, NEW y \in Int, JoinsFit(a, b, h, z),
         IsSeq(p), l = Len(p), l <= 8 * y, NEW a1, NEW b1,
         (a1 = a \o p /\ b1 = b \o << >>) \/ (a1 = a \o << >> /\ b1 = b \o p)
  PROVE  JoinsFit(a1, b1, h + l, z + y)
<1>1. IsSeq(<< >>) /\ Len(<< >>) = 0
  <2>1. << >> \in Seq({})
    OBVIOUS
  <2> QED BY <2>1 DEF IsSeq
<1>2. l \in Nat
  BY DEF IsSeq
<1>3. IsSeq(a) /\ IsSeq(b)
  BY DEF JoinsFit
<1>4. /\ IsSeq(a \o p) /\ Len(a \o p) = Len(a) + l /\ IsSeq(b \o p) /\ Len(b \o p) = Len(b) + l
      /\ IsSeq(a \o << >>) /\ Len(a \o << >>) = Len(a) + 0 /\ IsSeq(b \o << >>) /\ Len(b \o << >>) = Len(b) + 0
  BY <1>1, <1>3, JoinedAt
<1>5. /\ IsSeq(a1) /\ IsSeq(b1)
      /\ (Len(a1) = Len(a) + l /\ Len(b1) = Len(b) + 0) \/ (Len(a1) = Len(a) + 0 /\ Len(b1) = Len(b) + l)
  BY <1>4
<1> DEFINE u == Len(a)
           v == Len(b)
           u1 == Len(a1)
           v1 == Len(b1)
<1>6. u \in Nat /\ v \in Nat /\ h = 4 + u + v /\ z \in Int /\ h <= 4 + 8 * z
  BY DEF JoinsFit
<1>7. (u1 = u + l /\ v1 = v + 0) \/ (u1 = u + 0 /\ v1 = v + l)
  BY <1>5
<1> HIDE DEF u, v, u1, v1
<1>8. u1 \in Nat /\ v1 \in Nat /\ h + l = 4 + u1 + v1 /\ z + y \in Int /\ h + l <= 4 + 8 * (z + y)
  BY <1>2, <1>6, <1>7
<1> QED BY <1>5, <1>8 DEF JoinsFit, u1, v1

LEMMA JoinLens ==
  \A m, p, l, y, e, t, fe, ft, h, z :
    /\ m \in Nat
    /\ IsJoin(fe, e, m) /\ IsJoin(ft, t, m) /\ IsSum(h, l, 4, m) /\ IsSum(z, y, 0, m)
    /\ \A k \in 1 .. m : PieceFits(p[k], l[k], y[k], e[k], t[k])
    => JoinsFit(fe[m], ft[m], h[m], z[m])
<1> SUFFICES
      ASSUME NEW m, NEW p, NEW l, NEW y, NEW e, NEW t, NEW fe, NEW ft, NEW h, NEW z, m \in Nat,
             IsJoin(fe, e, m), IsJoin(ft, t, m), IsSum(h, l, 4, m), IsSum(z, y, 0, m),
             \A k \in 1 .. m : PieceFits(p[k], l[k], y[k], e[k], t[k])
      PROVE  JoinsFit(fe[m], ft[m], h[m], z[m])
  OBVIOUS
<1> DEFINE T == {k \in 0 .. m : ~ JoinsFit(fe[k], ft[k], h[k], z[k])}
<1> SUFFICES ASSUME T # {} PROVE FALSE
  <2>1. m \in 0 .. m
    OBVIOUS
  <2> QED BY <2>1
<1>1. PICK i \in T : \A k \in T : i <= k
  <2>1. T \subseteq Nat
    OBVIOUS
  <2> HIDE DEF T
  <2> QED BY <2>1, NatMinimum
<1>2. /\ \A k \in 0 .. m : fe[k] = IF k = 0 THEN << >> ELSE fe[k - 1] \o e[k]
      /\ \A k \in 0 .. m : ft[k] = IF k = 0 THEN << >> ELSE ft[k - 1] \o t[k]
      /\ \A k \in 0 .. m : h[k] = IF k = 0 THEN 4 ELSE h[k - 1] + l[k]
      /\ \A k \in 0 .. m : z[k] = IF k = 0 THEN 0 ELSE z[k - 1] + y[k]
  <2>1. \A k \in 0 .. m : fe[k] = IF k = 0 THEN << >> ELSE fe[k - 1] \o e[k]
    BY DEF IsJoin
  <2>2. \A k \in 0 .. m : ft[k] = IF k = 0 THEN << >> ELSE ft[k - 1] \o t[k]
    BY DEF IsJoin
  <2>3. \A k \in 0 .. m : h[k] = IF k = 0 THEN 4 ELSE h[k - 1] + l[k]
    BY DEF IsSum
  <2>4. \A k \in 0 .. m : z[k] = IF k = 0 THEN 0 ELSE z[k - 1] + y[k]
    BY DEF IsSum
  <2> QED BY <2>1, <2>2, <2>3, <2>4
<1>3. i # 0
  <2>1. JoinsFit(<< >>, << >>, 4, 0)
    <3>1. << >> \in Seq({}) /\ Len(<< >>) = 0
      OBVIOUS
    <3> QED BY <3>1 DEF JoinsFit, IsSeq
  <2>2. 0 \in 0 .. m
    OBVIOUS
  <2>3. fe[0] = << >> /\ ft[0] = << >> /\ h[0] = 4 /\ z[0] = 0
    BY <1>2, <2>2
  <2> QED BY <1>1, <2>1, <2>3
<1>4. i - 1 \in 0 .. m /\ i - 1 \notin T /\ i \in 1 .. m /\ i \in 0 .. m
  BY <1>1, <1>3
<1>5. JoinsFit(fe[i - 1], ft[i - 1], h[i - 1], z[i - 1])
  BY <1>4
<1>6. fe[i] = fe[i - 1] \o e[i] /\ ft[i] = ft[i - 1] \o t[i] /\ h[i] = h[i - 1] + l[i] /\ z[i] = z[i - 1] + y[i]
  BY <1>2, <1>3, <1>4
<1>7. /\ IsSeq(p[i]) /\ l[i] = Len(p[i]) /\ l[i] <= 8 * y[i] /\ y[i] \in Int
      /\ (e[i] = p[i] /\ t[i] = << >>) \/ (e[i] = << >> /\ t[i] = p[i])
  BY <1>4 DEF PieceFits
<1> DEFINE a == fe[i - 1]
           b == ft[i - 1]
           a1 == fe[i]
           b1 == ft[i]
           h0 == h[i - 1]
           z0 == z[i - 1]
           q == p[i]
           s == l[i]
           y0 == y[i]
<1>8. (a1 = a \o q /\ b1 = b \o << >>) \/ (a1 = a \o << >> /\ b1 = b \o q)
  BY <1>6, <1>7
<1>9. JoinsFit(a, b, h0, z0) /\ IsSeq(q) /\ s = Len(q) /\ s <= 8 * y0 /\ y0 \in Int
  BY <1>5, <1>7
<1>10. h[i] = h0 + s /\ z[i] = z0 + y0
  BY <1>6
<1> HIDE DEF a, b, a1, b1, h0, z0, q, s, y0
<1>11. JoinsFit(a1, b1, h0 + s, z0 + y0)
  BY <1>8, <1>9, JoinStep
<1>12. JoinsFit(fe[i], ft[i], h[i], z[i])
  BY <1>10, <1>11 DEF a1, b1
<1> QED BY <1>1, <1>12

LEMMA BlockLen ==
  ASSUME NEW inst, inst.kind = "IT", NEW m \in Nat, m = Len(inst.insts),
         NEW g, g = [k \in 1 .. m |-> Thumb!InstLenOne(inst.insts[k])],
         \A k \in 1 .. m : Thumb!InstLenOne(inst.insts[k]) \in Int
  PROVE  \E h : IsSum(h, g, 4, m) /\ Thumb!InstLen(inst) = h[m]
<1> DEFINE L(k) == Thumb!InstLenOne(inst.insts[k])
           P(f) == f = [k \in 0 .. Len(inst.insts) |-> IF k = 0 THEN 4 ELSE f[k - 1] + L(k)]
           s == CHOOSE f : P(f)
<1>1. PICK sum : IsSum(sum, g, 4, m)
  <2>1. \A k \in 1 .. m : g[k] \in Int
    OBVIOUS
  <2>2. 4 \in Int
    OBVIOUS
  <2> QED BY <2>1, <2>2, SumExists
<1>0. \A k \in 1 .. m : g[k] = L(k)
  OBVIOUS
<1>4. Thumb!InstLen(inst) = s[m]
  BY DEF Thumb!InstLen
<1> HIDE DEF L
<1>2. \A f : IsSum(f, g, 4, m) <=> P(f)
  <2> SUFFICES ASSUME NEW f PROVE IsSum(f, g, 4, m) <=> P(f)
    OBVIOUS
  <2>0. \A k \in 0 .. m : k = 0 \/ k \in 1 .. m
    OBVIOUS
  <2>1. \A k \in 0 .. m : (IF k = 0 THEN 4 ELSE f[k - 1] + g[k]) = (IF k = 0 THEN 4 ELSE f[k - 1] + L(k))
    BY <1>0, <2>0, Zenon
  <2>2. [k \in 0 .. m |-> IF k = 0 THEN 4 ELSE f[k - 1] + g[k]] = [k \in 0 .. m |-> IF k = 0 THEN 4 ELSE f[k - 1] + L(k)]
    BY <2>1
  <2>3. P(f) <=> f = [k \in 0 .. m |-> IF k = 0 THEN 4 ELSE f[k - 1] + L(k)]
    OBVIOUS
  <2> HIDE DEF P
  <2> QED BY <2>2, <2>3, Zenon DEF IsSum
<1>3. P(sum)
  BY <1>1, <1>2
<1> HIDE DEF P
<1>5. P(s)
  BY <1>3, Zenon
<1> QED BY <1>2, <1>4, <1>5, Zenon

LEMMA ThumbBlocks ==
  ASSUME NEW inst \in Thumb!Insts, inst.kind = "IT"
  PROVE  /\ inst.insts \in Seq(Thumb!Insts16 \cup Thumb!Insts32) /\ inst.then \in Seq(BOOLEAN)
         /\ Len(inst.insts) \in 1 .. 4 /\ Len(inst.then) = Len(inst.insts)
         /\ inst.size = 1 + SizeBefore(inst.insts, Len(inst.insts) + 1)
         /\ \A k \in 1 .. Len(inst.insts) : /\ inst.insts[k] \in Thumb!Insts16 \cup Thumb!Insts32
                                            /\ inst.insts[k].kind # "IT" /\ inst.insts[k].size \in {1, 2}
<1>1. \A i \in Thumb!Insts16 \cup Thumb!Insts32 : i.kind # "IT" /\ i.size \in {1, 2}
  BY DEF Thumb!Insts16, Thumb!Insts32, Thumb!InstsOf
<1>2. inst \in [kind : {"IT"}, size : 2 .. 9, insts : Seq(Thumb!Insts16 \cup Thumb!Insts32), then : Seq(BOOLEAN)]
      /\ Thumb!IsBlock(inst)
  BY <1>1 DEF Thumb!Insts
<1>3. inst.insts \in Seq(Thumb!Insts16 \cup Thumb!Insts32) /\ inst.then \in Seq(BOOLEAN)
  BY <1>2
<1>4. Len(inst.insts) \in 1 .. 4 /\ Len(inst.then) = Len(inst.insts)
      /\ inst.size = 1 + Thumb!SizeBefore(inst.insts, Len(inst.insts) + 1)
  BY <1>2 DEF Thumb!IsBlock
<1>5. Thumb!SizeBefore(inst.insts, Len(inst.insts) + 1) = SizeBefore(inst.insts, Len(inst.insts) + 1)
  BY DEF Thumb!SizeBefore, SizeBefore
<1>6. \A k \in 1 .. Len(inst.insts) : inst.insts[k] \in Thumb!Insts16 \cup Thumb!Insts32
  <2>1. \A s : s \in Seq(Thumb!Insts16 \cup Thumb!Insts32) =>
          \A k \in 1 .. Len(s) : s[k] \in Thumb!Insts16 \cup Thumb!Insts32
    BY ElementOfSeq
  <2> QED BY <1>3, <2>1
<1> QED BY <1>1, <1>3, <1>4, <1>5, <1>6

LEMMA JoinedFirst ==
  \A s, t : IsSeq(s) /\ IsSeq(t) /\ Len(s) >= 1 =>
    IsSeq(s \o t) /\ Len(s \o t) = Len(s) + Len(t) /\ (s \o t)[1] = s[1]
<1> SUFFICES ASSUME NEW s, NEW t, IsSeq(s), IsSeq(t), Len(s) >= 1
             PROVE  IsSeq(s \o t) /\ Len(s \o t) = Len(s) + Len(t) /\ (s \o t)[1] = s[1]
  OBVIOUS
<1>1. 1 \in 1 .. Len(s)
  BY DEF IsSeq
<1> QED BY <1>1, JoinedAt

LEMMA ItFormed ==
  ASSUME NEW inst \in Thumb!Insts, inst.kind = "IT", NEW parts, Len(parts) = Len(inst.insts),
         NEW s, s = Thumb!RewriteIt(parts, inst.then),
         \A k \in 1 .. Len(inst.insts) : ThumbWellFormed(parts[k], inst.insts[k])
  PROVE  ThumbWellFormed(s, inst)
<1> DEFINE m == Len(inst.insts)
           l == [k \in 1 .. m |-> Thumb!InstLenOne(inst.insts[k])]
           y == Sizes(inst.insts, m)
           e == Pieces(parts, inst.then, FALSE)
           t == Pieces(parts, inst.then, TRUE)
           else == Thumb!Joined(parts, inst.then, FALSE)
           thn  == Thumb!Joined(parts, inst.then, TRUE)
<1>1. /\ m \in 1 .. 4 /\ m \in Nat /\ inst.then \in Seq(BOOLEAN) /\ Len(inst.then) = m
      /\ inst.size = 1 + SizeBefore(inst.insts, m + 1)
      /\ \A k \in 1 .. m : inst.insts[k].kind # "IT" /\ inst.insts[k].size \in {1, 2}
  BY ThumbBlocks
<1>c. m = Len(parts) /\ TRUE \in BOOLEAN /\ FALSE \in BOOLEAN
  OBVIOUS
<1>2. \A k \in 1 .. m : /\ IsSeq(parts[k]) /\ Len(parts[k]) = Thumb!InstLenOne(inst.insts[k])
                        /\ Len(parts[k]) \in Nat /\ Len(parts[k]) <= 8 * inst.insts[k].size
  <2> TAKE k \in 1 .. m
  <2>1. ThumbWellFormed(parts[k], inst.insts[k]) /\ inst.insts[k].kind # "IT"
    BY <1>1
  <2> QED BY <2>1 DEF ThumbWellFormed, Thumb!InstLen
<1>3. \A k \in 1 .. m : inst.then[k] \in BOOLEAN
  BY <1>1, ElementOfSeq
<1>4. PICK h : IsSum(h, l, 4, m) /\ Thumb!InstLen(inst) = h[m]
  <2>1. \A k \in 1 .. m : Thumb!InstLenOne(inst.insts[k]) \in Int
    BY <1>2
  <2> QED BY <1>1, <2>1, BlockLen
<1>5. PICK z : IsSum(z, y, 0, m) /\ inst.size = 1 + z[m]
  <2>1. m + 1 \in Nat /\ m + 1 > 0 /\ (m + 1) - 1 = m /\ \A k \in 1 .. m : inst.insts[k].size \in Int
    BY <1>1
  <2>2. PICK z : IsSum(z, Sizes(inst.insts, (m + 1) - 1), 0, (m + 1) - 1) /\ SizeBefore(inst.insts, m + 1) = z[(m + 1) - 1]
    BY <2>1, SizeBeforeIsSum
  <2> HIDE DEF m
  <2>3. IsSum(z, Sizes(inst.insts, m), 0, m) /\ SizeBefore(inst.insts, m + 1) = z[m]
    BY <2>1, <2>2
  <2> QED BY <1>1, <2>3
<1>6. \E fe : IsJoin(fe, e, m) /\ else = fe[m]
  <2> DEFINE then == inst.then
  <2>1. Len(parts) \in Nat
    BY <1>1, <1>c
  <2> HIDE DEF then
  <2>2. \E f : IsJoin(f, Pieces(parts, then, FALSE), Len(parts)) /\ Thumb!Joined(parts, then, FALSE) = f[Len(parts)]
    BY <2>1, JoinedIs
  <2>3. PICK f : IsJoin(f, Pieces(parts, then, FALSE), Len(parts)) /\ Thumb!Joined(parts, then, FALSE) = f[Len(parts)]
    BY <2>2
  <2> QED BY <1>c, <2>3, Zenon DEF then
<1>7. \E ft : IsJoin(ft, t, m) /\ thn = ft[m]
  <2> DEFINE then == inst.then
  <2>1. Len(parts) \in Nat
    BY <1>1, <1>c
  <2> HIDE DEF then
  <2>2. \E f : IsJoin(f, Pieces(parts, then, TRUE), Len(parts)) /\ Thumb!Joined(parts, then, TRUE) = f[Len(parts)]
    BY <2>1, JoinedIs
  <2>3. PICK f : IsJoin(f, Pieces(parts, then, TRUE), Len(parts)) /\ Thumb!Joined(parts, then, TRUE) = f[Len(parts)]
    BY <2>2
  <2> QED BY <1>c, <2>3, Zenon DEF then
<1>8. \A k \in 1 .. m : PieceFits(parts[k], l[k], y[k], e[k], t[k])
  <2> TAKE k \in 1 .. m
  <2>1. l[k] = Thumb!InstLenOne(inst.insts[k]) /\ y[k] = inst.insts[k].size
    BY DEF Sizes
  <2>2. (e[k] = parts[k] /\ t[k] = << >>) \/ (e[k] = << >> /\ t[k] = parts[k])
    BY <1>3, <1>c DEF Pieces
  <2>3. /\ IsSeq(parts[k]) /\ Len(parts[k]) = Thumb!InstLenOne(inst.insts[k])
        /\ Len(parts[k]) \in Nat /\ Len(parts[k]) <= 8 * inst.insts[k].size /\ inst.insts[k].size \in {1, 2}
    BY <1>1, <1>2
  <2> HIDE DEF l, y, e, t
  <2> QED BY <2>1, <2>2, <2>3 DEF PieceFits
<1> HIDE DEF m, l, y, e, t, else, thn
<1>a. PICK fe : IsJoin(fe, e, m) /\ else = fe[m]
  BY <1>6
<1>b. PICK ft : IsJoin(ft, t, m) /\ thn = ft[m]
  BY <1>7
<1>9. JoinsFit(fe[m], ft[m], h[m], z[m])
  BY <1>1, <1>4, <1>5, <1>a, <1>b, <1>8, JoinLens, Zenon
<1>10. /\ IsSeq(else) /\ IsSeq(thn) /\ Len(else) \in Nat /\ Len(thn) \in Nat
       /\ Thumb!InstLen(inst) = 4 + Len(else) + Len(thn) /\ z[m] \in Int /\ h[m] <= 4 + 8 * z[m]
  BY <1>4, <1>a, <1>b, <1>9 DEF JoinsFit
<1> DEFINE w1 == BIf(TRUE, 2 + Len(else))
           w2 == B(Len(thn))
           first == <<w1, Nop>>
           over == <<w2, Nop>>
<1>11. s = first \o else \o over \o thn
  BY ThumbOps DEF Thumb!RewriteIt, else, thn
<1>12. w1.op # "second"
  BY WordOps DEF BIf, Word
<1> HIDE DEF w1, w2
<1>13. IsSeq(first) /\ Len(first) = 2 /\ first[1] = w1 /\ IsSeq(over) /\ Len(over) = 2
  <2>1. first \in Seq({w1, Nop}) /\ over \in Seq({w2, Nop})
    OBVIOUS
  <2> QED BY <2>1 DEF IsSeq
<1> HIDE DEF first, over
<1>14. /\ IsSeq(first \o else) /\ Len(first \o else) = 2 + Len(else) /\ (first \o else)[1] = w1
       /\ IsSeq(first \o else \o over) /\ Len(first \o else \o over) = 4 + Len(else) /\ (first \o else \o over)[1] = w1
       /\ IsSeq(s) /\ Len(s) = 4 + Len(else) + Len(thn) /\ s[1] = w1
  <2>1. /\ IsSeq(first \o else) /\ Len(first \o else) = 2 + Len(else) /\ (first \o else)[1] = w1
    <3>1. Len(first) >= 1
      BY <1>13
    <3>2. IsSeq(first \o else) /\ Len(first \o else) = Len(first) + Len(else) /\ (first \o else)[1] = first[1]
      BY <1>10, <1>13, <3>1, JoinedFirst, Zenon
    <3> QED BY <1>13, <3>2
  <2>2. /\ IsSeq(first \o else \o over) /\ Len(first \o else \o over) = 4 + Len(else) /\ (first \o else \o over)[1] = w1
    <3> DEFINE q == first \o else
    <3>1. IsSeq(q) /\ Len(q) = 2 + Len(else) /\ q[1] = w1
      BY <2>1
    <3> HIDE DEF q
    <3>2. Len(q) >= 1
      BY <1>10, <3>1
    <3>4. IsSeq(q \o over) /\ Len(q \o over) = Len(q) + Len(over) /\ (q \o over)[1] = q[1]
      BY <1>13, <3>1, <3>2, JoinedFirst, Zenon
    <3>3. IsSeq(q \o over) /\ Len(q \o over) = 4 + Len(else) /\ (q \o over)[1] = w1
      BY <1>10, <1>13, <3>1, <3>4
    <3> QED BY <3>3 DEF q
  <2>3. IsSeq(s) /\ Len(s) = 4 + Len(else) + Len(thn) /\ s[1] = w1
    <3> DEFINE q == first \o else \o over
    <3>1. IsSeq(q) /\ Len(q) = 4 + Len(else) /\ q[1] = w1 /\ s = q \o thn
      BY <1>11, <2>2
    <3> HIDE DEF q
    <3>3. Len(q) >= 1
      BY <1>10, <3>1
    <3>2. IsSeq(q \o thn) /\ Len(q \o thn) = Len(q) + Len(thn) /\ (q \o thn)[1] = q[1]
      BY <1>10, <3>1, <3>3, JoinedFirst, Zenon
    <3> QED BY <3>1, <3>2
  <2> QED BY <2>1, <2>2, <2>3
<1>15. Len(s) = h[m] /\ inst.size = 1 + z[m]
  BY <1>4, <1>5, <1>10, <1>14
<1>16. Len(s) \in Nat /\ Len(s) >= 2 /\ Len(s) <= 8 * inst.size
  <2> DEFINE u == Len(else)
             v == Len(thn)
             n1 == Len(s)
             z1 == z[m]
             x1 == inst.size
  <2>1. u \in Nat /\ v \in Nat /\ n1 = 4 + u + v /\ z1 \in Int /\ n1 <= 4 + 8 * z1 /\ x1 = 1 + z1
    BY <1>10, <1>14, <1>15
  <2> HIDE DEF u, v, n1, z1, x1
  <2>2. n1 \in Nat /\ n1 >= 2 /\ n1 <= 8 * x1
    BY <2>1
  <2> QED BY <2>2 DEF n1, x1
<1> QED BY <1>4, <1>12, <1>14, <1>15, <1>16 DEF ThumbWellFormed

(* Conditional words, when the condition holds and when it does not.       *)
LEMMA StepBIfOn ==
  ASSUME Execute, NEW a, ip = a,
         NEW c \in BOOLEAN, NEW imm \in 0 .. 63, Fetch(a) = BIf(c, imm), ~ c \/ flag
  PROVE  ip' = PcAt(fn.arch, a) + imm /\ thumb' = Home /\ stack' = stack /\ regs' = regs
BY ExecB, SignSmall

LEMMA StepBIfOff ==
  ASSUME Execute, NEW a, NEW b, b = a + 1, ip = a, Fetch(b).op # "second",
         NEW c \in BOOLEAN, NEW imm, Fetch(a) = BIf(c, imm), c /\ ~ flag
  PROVE  ip' = b /\ thumb' = Home /\ stack' = stack /\ regs' = regs
BY ExecB DEF Advance

LEMMA StepLdrPcOn ==
  ASSUME Execute, NEW a, ip = a,
         NEW c \in BOOLEAN, NEW imm, Fetch(a) = LdrIf(c, "pc", imm), ~ c \/ flag,
         NEW v, Stored(BaseAt(fn.arch, a) + imm) = v, v.is = "address"
  PROVE  ip' = v.of /\ thumb' = v.t /\ stack' = stack /\ regs' = regs
BY ExecLdrPc DEF Dest

LEMMA StepLdrPcOff ==
  ASSUME Execute, NEW a, NEW b, b = a + 1, ip = a, Fetch(b).op # "second",
         NEW c \in BOOLEAN, NEW imm, Fetch(a) = LdrIf(c, "pc", imm), c /\ ~ flag
  PROVE  ip' = b /\ thumb' = Home /\ stack' = stack /\ regs' = regs
BY ExecLdrPc DEF Advance

LEMMA StepLdrIfOn ==
  ASSUME Execute, NEW a, NEW b, b = a + 1, ip = a, Fetch(b).op # "second",
         NEW c \in BOOLEAN, NEW imm, Fetch(a) = LdrIf(c, "r", imm), ~ c \/ flag,
         NEW r, NEW x, NEW y, NEW lr, regs = Regs(r, x, y, lr),
         NEW v, Stored(BaseAt(fn.arch, a) + imm) = v
  PROVE  ip' = b /\ thumb' = Home /\ stack' = stack /\ regs' = Regs(v, x, y, lr)
BY StepLdrIf

LEMMA StepLdrIfOff ==
  ASSUME Execute, NEW a, NEW b, b = a + 1, ip = a, Fetch(b).op # "second",
         NEW c \in BOOLEAN, NEW imm, Fetch(a) = LdrIf(c, "r", imm), c /\ ~ flag
  PROVE  ip' = b /\ thumb' = Home /\ stack' = stack /\ regs' = regs
<1>1. Stays(regs)
  BY ExecLdr
<1>2. Advance = b
  BY DEF Advance
<1> QED BY <1>1, <1>2 DEF Stays

LEMMA StepPlainOn ==
  ASSUME Execute, NEW a, NEW b, b = a + 1, ip = a, Fetch(b).op # "second",
         NEW inst, inst.c \in BOOLEAN, Fetch(a) = Plain(inst), ~ inst.c \/ flag,
         NEW r, NEW x, NEW y, NEW lr, regs = Regs(r, x, y, lr)
  PROVE  ip' = b /\ thumb' = Home /\ stack' = stack /\ regs' = Regs(Computed(inst.imm), x, y, lr)
BY StepPlain

LEMMA StepPlainOff ==
  ASSUME Execute, NEW a, NEW b, b = a + 1, ip = a, Fetch(b).op # "second",
         NEW imm, NEW c \in BOOLEAN, Fetch(a) = Word("plain", "r", "-", imm, c), c /\ ~ flag
  PROVE  ip' = b /\ thumb' = Home /\ stack' = stack /\ regs' = regs
<1> DEFINE w == Fetch(ip)
<1>1. w.op = "plain" /\ w.to = "r" /\ w.c = c
  BY DEF Word
<1> HIDE DEF w
<1>2. Goal(w) = After
  BY <1>1 DEF Goal, DataWords
<1>3. Jump(After)
  BY <1>1, <1>2 DEF Execute, w
<1>4. stack' = stack /\ regs' = regs
  BY <1>1 DEF Execute, w
<1>5. Advance = b
  BY DEF Advance
<1>6. QED
  BY <1>3, <1>4, <1>5, AfterIs DEF Jump, Dest

LEMMA StepLinkOn ==
  ASSUME Execute, NEW a, NEW b, b = a + 1, ip = a, Fetch(b).op # "second",
         NEW c \in BOOLEAN, NEW imm, Fetch(a) = Link(c, imm), ~ c \/ flag,
         NEW r, NEW x, NEW y, NEW lr, regs = Regs(r, x, y, lr)
  PROVE  /\ ip' = b /\ thumb' = Home /\ stack' = stack
         /\ regs' = Regs(r, x, y, Address(BaseAt(fn.arch, a) + imm, Home))
BY StepLink

LEMMA StepLinkOff ==
  ASSUME Execute, NEW a, NEW b, b = a + 1, ip = a, Fetch(b).op # "second",
         NEW c \in BOOLEAN, NEW imm, Fetch(a) = Link(c, imm), c /\ ~ flag
  PROVE  ip' = b /\ thumb' = Home /\ stack' = stack /\ regs' = regs
<1>1. Stays(regs)
  BY ExecLink
<1>2. Advance = b
  BY DEF Advance
<1> QED BY <1>1, <1>2 DEF Stays

(* Where a PC that was saved leads.                                        *)
Shift(v, b) == [v EXCEPT !.of = b]
LEMMA Shifted ==
  \A a, b, t : Shift(Address(a, t), b) = Address(b, t)
BY DEF Address, Value, Shift

IsPc(v) == v = Address(v.of, FALSE)

LEMMA PcFields ==
  \A v, g : IsPc(v) =>
    /\ v.is = "address" /\ v.t = FALSE
    /\ Dest(Indexed(v, g)) = v.of + (IF g THEN 4 ELSE 0)
    /\ Indexed(v, g).t = FALSE
<1> TAKE v, g
<1> HAVE IsPc(v)
<1> DEFINE d == IF g THEN 4 ELSE 0
           a == v.of
<1>1. v = Address(a, FALSE)
  BY DEF IsPc
<1>2. Indexed(v, g) = Shift(v, a + d)
  BY DEF Indexed, Shift
<1> HIDE DEF d, a
<1>3. Shift(Address(a, FALSE), a + d) = Address(a + d, FALSE)
  BY Shifted, Zenon
<1>4. Indexed(v, g) = Address(a + d, FALSE)
  BY <1>1, <1>2, <1>3, Zenon
<1>5. Dest(Indexed(v, g)) = a + d /\ Indexed(v, g).t = FALSE
  BY <1>4 DEF Dest, Address, Value
<1>6. v.is = "address" /\ v.t = FALSE
  BY <1>1 DEF Address, Value
<1> QED BY <1>5, <1>6, Zenon DEF d, a

LEMMA DestContent ==
  ASSUME NEW a, NEW len
  PROVE  Dest(Content(a, len)) = Pointee /\ Content(a, len).t = FALSE
BY DEF Dest, Content, Value

LEMMA AddressFields ==
  \A a, t : Address(a, t).is = "address" /\ Address(a, t).of = a /\ Address(a, t).t = t
BY DEF Address, Value

(* What is read there was not overwritten.                                 *)
LoadsWell(v, len) == Loaded(v, len) = Content(v.of, len)

LEMMA StepLoadSame ==
  ASSUME Execute, NEW a, NEW b, b = a + 1, ip = a, Fetch(b).op # "second",
         NEW len, Fetch(a) = Load("r", "r", len),
         NEW r, NEW x, NEW y, NEW lr, regs = Regs(r, x, y, lr), LoadsWell(r, len)
  PROVE  ip' = b /\ thumb' = Home /\ stack' = stack /\ regs' = Regs(Content(r.of, len), x, y, lr)
<1>1. Stays(Put(regs, "r", Loaded(regs["r"], len)))
  BY ExecLoad
<1>4. regs["r"] = r
  BY DEF Regs
<1>2. Stays(Put(Regs(r, x, y, lr), "r", Content(r.of, len)))
  BY <1>1, <1>4, Zenon DEF LoadsWell
<1>3. Advance = b
  BY DEF Advance
<1> QED BY <1>2, <1>3, RegsFields DEF Stays

LEMMA A32Unfixed ==
  ASSUME NEW inst \in A32!Insts, inst.kind \in {"ADR", "LDR", "LDR_PC"}, NEW to, NEW pcv, NEW inHead, inHead
  PROVE  A32!Rewrite(inst, to, inHead, pcv) = << >>
BY DEF A32!Rewrite, A32!RewriteAdr, A32!RewriteLdrLit

----------------------------------------------------------------------------
(* The points at which a thread is in the rewritten form of an instruction *)
(* of A32, which begins at o, and what it holds there.                     *)
A32Mid(inst, to, pcv, o, g, r, x, y, lr, p, rg, st) ==
  \/ p = o /\ rg = Regs(r, x, y, lr)
  \/ inst.kind \in {"B", "BX", "BL", "BLX", "ADD_PC", "ADD", "MOV", "MOV_PC", "ADR", "LDR_PC", "LDR", "LDR_REG_PC", "LDR_REG"} /\ inst.c /\ ~ g /\ p = o + 1 /\ rg = Regs(r, x, y, lr)
  \/ inst.kind \in {"BL", "BLX"} /\ (~ inst.c \/ g) /\ p = o + 1 /\ rg = Regs(r, x, y, Address(o + 4, Home))
  \/ inst.kind \in {"BL", "BLX"} /\ inst.c /\ ~ g /\ p = o + 2 /\ rg = Regs(r, x, y, lr)
  \/ inst.kind \in {"ADD_PC", "ADD", "MOV", "LDR_PC", "LDR", "LDR_REG_PC", "LDR_REG"} /\ (~ inst.c \/ g) /\ p = o + 2 /\ rg = Regs(r, x, y, lr)
  \/ inst.kind \in {"ADD_PC", "LDR_REG_PC"} /\ (~ inst.c \/ g) /\ p = o + 3 /\ rg = Regs(r, x, y, lr) /\ st = Saved(x, y, Lost)
  \/ inst.kind \in {"ADD_PC", "LDR_REG_PC"} /\ (~ inst.c \/ g) /\ p = o + 4 /\ rg = Regs(r, pcv, y, lr) /\ st = Saved(x, y, Lost)
  \/ inst.kind = "ADD_PC" /\ (~ inst.c \/ g) /\ p = o + 5 /\ rg = Regs(r, pcv, Indexed(pcv, g), lr) /\ st = Saved(x, y, Lost)
  \/ inst.kind = "ADD_PC" /\ (~ inst.c \/ g) /\ p = o + 6 /\ rg = Regs(r, pcv, Indexed(pcv, g), lr) /\ st = Saved(x, y, Indexed(pcv, g))
  \/ inst.kind \in {"ADD", "MOV", "LDR_PC", "LDR_REG"} /\ (~ inst.c \/ g) /\ p = o + 3 /\ rg = Regs(r, x, y, lr) /\ st = Saved(x, Lost, Lost)
  \/ inst.kind \in {"ADD", "MOV", "LDR_REG"} /\ (~ inst.c \/ g) /\ p = o + 4 /\ rg = Regs(r, pcv, y, lr) /\ st = Saved(x, Lost, Lost)
  \/ inst.kind = "ADD" /\ (~ inst.c \/ g) /\ p = o + 5 /\ rg = Regs(Sum(pcv.of), pcv, y, lr) /\ st = Saved(x, Lost, Lost)
  \/ inst.kind = "ADD" /\ (~ inst.c \/ g) /\ p = o + 6 /\ rg = Regs(Sum(pcv.of), x, y, lr)
  \/ inst.kind = "MOV" /\ (~ inst.c \/ g) /\ p = o + 5 /\ rg = Regs(pcv, pcv, y, lr) /\ st = Saved(x, Lost, Lost)
  \/ inst.kind = "MOV" /\ (~ inst.c \/ g) /\ p = o + 6 /\ rg = Regs(pcv, x, y, lr)
  \/ inst.kind = "ADR" /\ (~ inst.c \/ g) /\ p = o + 1 /\ rg = Regs(to, x, y, lr)
  \/ inst.kind = "LDR_PC" /\ (~ inst.c \/ g) /\ p = o + 4 /\ rg = Regs(r, to, y, lr) /\ st = Saved(x, Lost, Lost)
  \/ inst.kind = "LDR_PC" /\ (~ inst.c \/ g) /\ p = o + 6 /\ rg = Regs(r, to, y, lr) /\ st = Saved(x, Lost, Lost)
  \/ inst.kind = "LDR_PC" /\ (~ inst.c \/ g) /\ p = o + 7 /\ rg = Regs(r, Content(to.of, inst.len), y, lr) /\ st = Saved(x, Lost, Lost)
  \/ inst.kind = "LDR_PC" /\ (~ inst.c \/ g) /\ p = o + 8 /\ rg = Regs(r, Content(to.of, inst.len), y, lr) /\ st = Saved(x, Lost, Content(to.of, inst.len))
  \/ inst.kind = "LDR" /\ (~ inst.c \/ g) /\ p = o + 3 /\ rg = Regs(to, x, y, lr)
  \/ inst.kind = "LDR" /\ (~ inst.c \/ g) /\ p = o + 5 /\ rg = Regs(to, x, y, lr)
  \/ inst.kind = "LDR_REG_PC" /\ (~ inst.c \/ g) /\ p = o + 6 /\ rg = Regs(r, pcv, y, lr) /\ st = Saved(x, y, Lost)
  \/ inst.kind = "LDR_REG_PC" /\ (~ inst.c \/ g) /\ p = o + 7 /\ rg = Regs(r, pcv, Content(pcv.of, inst.len), lr) /\ st = Saved(x, y, Lost)
  \/ inst.kind = "LDR_REG_PC" /\ (~ inst.c \/ g) /\ p = o + 8 /\ rg = Regs(r, pcv, Content(pcv.of, inst.len), lr) /\ st = Saved(x, y, Content(pcv.of, inst.len))
  \/ inst.kind = "LDR_REG" /\ (~ inst.c \/ g) /\ p = o + 6 /\ rg = Regs(r, pcv, y, lr) /\ st = Saved(x, Lost, Lost)
  \/ inst.kind = "LDR_REG" /\ (~ inst.c \/ g) /\ p = o + 7 /\ rg = Regs(Content(pcv.of, inst.len), pcv, y, lr) /\ st = Saved(x, Lost, Lost)

A32Now(inst, to, pcv, o, r, x, y, lr) ==
  A32Mid(inst, to, pcv, o, flag, r, x, y, lr, ip, regs, stack)
A32Next(inst, to, pcv, o, r, x, y, lr) ==
  A32Mid(inst, to, pcv, o, flag, r, x, y, lr, ip', regs', stack')

LEMMA A32BStep ==
  ASSUME Execute, fn.arch = "arm", NEW inst \in A32!Insts, inst.kind = "B", NEW inHead \in BOOLEAN,
         NEW to, to.is = "address", NEW pcv, IsPc(pcv), NEW s, NEW o, CodeAt(o, s),
         s = A32!Rewrite(inst, to, inHead, pcv), s # << >>,
         NEW r, NEW x, NEW y, NEW lr, A32Now(inst, to, pcv, o, r, x, y, lr)
  PROVE  \/ A32Next(inst, to, pcv, o, r, x, y, lr) /\ thumb' = Home /\ ip' > o /\ ip' < o + Len(s)
         \/ Done(inst, to, pcv, flag, o + Len(s), r, x, y, lr, ip', thumb', regs')
<1>1. /\ Len(s) = 3
      /\ s[1] = LdrIf(inst.c, "pc", 0) /\ s[2] = B(0) /\ s[3] = Data("whole", to)
  BY A32B
<1>2. o \in Nat /\ Len(s) = 3 /\ Fetch(o + 3).op # "second"
  BY <1>1 DEF CodeAt
<1>3. /\ (Len(s) > 0 => Fetch(o) = s[1]) /\ (Len(s) > 1 => Fetch(o + 1) = s[2])
      /\ (Len(s) > 2 => Fetch(o + 2) = s[3])
  BY CodeWords, Zenon
<1>4. /\ Fetch(o) = s[1] /\ Fetch(o + 1) = s[2] /\ Fetch(o + 2) = s[3]
  BY <1>2, <1>3
<1>5. /\ Fetch(o) = LdrIf(inst.c, "pc", 0) /\ Fetch(o + 1) = B(0)
      /\ Fetch(o + 2) = Data("whole", to)
  BY <1>1, <1>4
<1>6. /\ Fetch(o).op # "second" /\ Fetch(o + 1).op # "second" /\ Fetch(o + 2).op # "second"
      /\ Fetch(o + 3).op # "second"
  BY <1>2, <1>5, WordOps
<1>7. inst.c \in BOOLEAN /\ Home = FALSE
  BY DEF A32!Insts, A32!InstsOf, Home
<1>11. CASE ip = o /\ regs = Regs(r, x, y, lr)
  <2>1. Stored(BaseAt(fn.arch, o) + 0) = to
    BY <1>2, <1>5, StoredWhole DEF BaseAt, PcAt
  <2>2. CASE (~ inst.c \/ flag)
    <3>1. ip' = to.of /\ thumb' = to.t /\ stack' = stack /\ regs' = regs
      BY <1>2, <1>5, <1>6, <1>11, <1>7, <2>1, <2>2, StepLdrPcOn
    <3>2. QED
      BY <1>2, <1>7, <1>11, <2>1, <2>2, <3>1 DEF Done, Skips, Branches
  <2>3. CASE (inst.c /\ ~ flag)
    <3>1. ip' = o + 1 /\ thumb' = Home /\ stack' = stack /\ regs' = regs
      BY <1>2, <1>5, <1>6, <1>11, <1>7, <2>3, StepLdrPcOff
    <3>2. A32Next(inst, to, pcv, o, r, x, y, lr)
      BY <1>2, <1>7, <1>11, <2>1, <2>3, <3>1 DEF A32Next, A32Mid
    <3>3. ip' > o /\ ip' < o + Len(s) /\ thumb' = Home
      BY <1>2, <1>7, <1>11, <2>1, <2>3, <3>1
    <3>4. QED
      BY <3>2, <3>3
  <2>4. QED
    BY <2>2, <2>3, <1>7
<1>12. CASE ip = o + 1 /\ regs = Regs(r, x, y, lr) /\ inst.c /\ ~ flag
  <2>1. ip' = o + 3 /\ thumb' = Home /\ stack' = stack /\ regs' = regs
    BY <1>2, <1>5, <1>6, <1>12, StepB DEF PcAt
  <2>2. QED
    BY <1>2, <1>7, <1>12, <2>1 DEF Done, Skips, Branches
<1>13. QED
  BY <1>11, <1>12 DEF A32Now, A32Mid

LEMMA A32BXStep ==
  ASSUME Execute, fn.arch = "arm", NEW inst \in A32!Insts, inst.kind = "BX", NEW inHead \in BOOLEAN,
         NEW to, to.is = "address", NEW pcv, IsPc(pcv), NEW s, NEW o, CodeAt(o, s),
         s = A32!Rewrite(inst, to, inHead, pcv), s # << >>,
         NEW r, NEW x, NEW y, NEW lr, A32Now(inst, to, pcv, o, r, x, y, lr)
  PROVE  \/ A32Next(inst, to, pcv, o, r, x, y, lr) /\ thumb' = Home /\ ip' > o /\ ip' < o + Len(s)
         \/ Done(inst, to, pcv, flag, o + Len(s), r, x, y, lr, ip', thumb', regs')
<1>1. /\ Len(s) = 3
      /\ s[1] = LdrIf(inst.c, "pc", 0) /\ s[2] = B(0) /\ s[3] = Data("whole", to)
  BY A32BX
<1>2. o \in Nat /\ Len(s) = 3 /\ Fetch(o + 3).op # "second"
  BY <1>1 DEF CodeAt
<1>3. /\ (Len(s) > 0 => Fetch(o) = s[1]) /\ (Len(s) > 1 => Fetch(o + 1) = s[2])
      /\ (Len(s) > 2 => Fetch(o + 2) = s[3])
  BY CodeWords, Zenon
<1>4. /\ Fetch(o) = s[1] /\ Fetch(o + 1) = s[2] /\ Fetch(o + 2) = s[3]
  BY <1>2, <1>3
<1>5. /\ Fetch(o) = LdrIf(inst.c, "pc", 0) /\ Fetch(o + 1) = B(0)
      /\ Fetch(o + 2) = Data("whole", to)
  BY <1>1, <1>4
<1>6. /\ Fetch(o).op # "second" /\ Fetch(o + 1).op # "second" /\ Fetch(o + 2).op # "second"
      /\ Fetch(o + 3).op # "second"
  BY <1>2, <1>5, WordOps
<1>7. inst.c \in BOOLEAN /\ Home = FALSE
  BY DEF A32!Insts, A32!InstsOf, Home
<1>11. CASE ip = o /\ regs = Regs(r, x, y, lr)
  <2>1. Stored(BaseAt(fn.arch, o) + 0) = to
    BY <1>2, <1>5, StoredWhole DEF BaseAt, PcAt
  <2>2. CASE (~ inst.c \/ flag)
    <3>1. ip' = to.of /\ thumb' = to.t /\ stack' = stack /\ regs' = regs
      BY <1>2, <1>5, <1>6, <1>11, <1>7, <2>1, <2>2, StepLdrPcOn
    <3>2. QED
      BY <1>2, <1>7, <1>11, <2>1, <2>2, <3>1 DEF Done, Skips, Branches
  <2>3. CASE (inst.c /\ ~ flag)
    <3>1. ip' = o + 1 /\ thumb' = Home /\ stack' = stack /\ regs' = regs
      BY <1>2, <1>5, <1>6, <1>11, <1>7, <2>3, StepLdrPcOff
    <3>2. A32Next(inst, to, pcv, o, r, x, y, lr)
      BY <1>2, <1>7, <1>11, <2>1, <2>3, <3>1 DEF A32Next, A32Mid
    <3>3. ip' > o /\ ip' < o + Len(s) /\ thumb' = Home
      BY <1>2, <1>7, <1>11, <2>1, <2>3, <3>1
    <3>4. QED
      BY <3>2, <3>3
  <2>4. QED
    BY <2>2, <2>3, <1>7
<1>12. CASE ip = o + 1 /\ regs = Regs(r, x, y, lr) /\ inst.c /\ ~ flag
  <2>1. ip' = o + 3 /\ thumb' = Home /\ stack' = stack /\ regs' = regs
    BY <1>2, <1>5, <1>6, <1>12, StepB DEF PcAt
  <2>2. QED
    BY <1>2, <1>7, <1>12, <2>1 DEF Done, Skips, Branches
<1>13. QED
  BY <1>11, <1>12 DEF A32Now, A32Mid

LEMMA A32BLStep ==
  ASSUME Execute, fn.arch = "arm", NEW inst \in A32!Insts, inst.kind = "BL", NEW inHead \in BOOLEAN,
         NEW to, to.is = "address", NEW pcv, IsPc(pcv), NEW s, NEW o, CodeAt(o, s),
         s = A32!Rewrite(inst, to, inHead, pcv), s # << >>,
         NEW r, NEW x, NEW y, NEW lr, A32Now(inst, to, pcv, o, r, x, y, lr)
  PROVE  \/ A32Next(inst, to, pcv, o, r, x, y, lr) /\ thumb' = Home /\ ip' > o /\ ip' < o + Len(s)
         \/ Done(inst, to, pcv, flag, o + Len(s), r, x, y, lr, ip', thumb', regs')
<1>1. /\ Len(s) = 4
      /\ s[1] = Link(inst.c, 2) /\ s[2] = LdrIf(inst.c, "pc", 0) /\ s[3] = B(0)
      /\ s[4] = Data("whole", to)
  BY A32BL
<1>2. o \in Nat /\ Len(s) = 4 /\ Fetch(o + 4).op # "second"
  BY <1>1 DEF CodeAt
<1>3. /\ (Len(s) > 0 => Fetch(o) = s[1]) /\ (Len(s) > 1 => Fetch(o + 1) = s[2])
      /\ (Len(s) > 2 => Fetch(o + 2) = s[3]) /\ (Len(s) > 3 => Fetch(o + 3) = s[4])
  BY CodeWords, Zenon
<1>4. /\ Fetch(o) = s[1] /\ Fetch(o + 1) = s[2] /\ Fetch(o + 2) = s[3] /\ Fetch(o + 3) = s[4]
  BY <1>2, <1>3
<1>5. /\ Fetch(o) = Link(inst.c, 2) /\ Fetch(o + 1) = LdrIf(inst.c, "pc", 0)
      /\ Fetch(o + 2) = B(0) /\ Fetch(o + 3) = Data("whole", to)
  BY <1>1, <1>4
<1>6. /\ Fetch(o).op # "second" /\ Fetch(o + 1).op # "second" /\ Fetch(o + 2).op # "second"
      /\ Fetch(o + 3).op # "second" /\ Fetch(o + 4).op # "second"
  BY <1>2, <1>5, WordOps
<1>7. inst.c \in BOOLEAN /\ Home = FALSE
  BY DEF A32!Insts, A32!InstsOf, Home
<1>11. CASE ip = o /\ regs = Regs(r, x, y, lr)
  <2>1. BaseAt(fn.arch, o) + 2 = o + 4
    BY <1>2 DEF BaseAt, PcAt
  <2>2. CASE (~ inst.c \/ flag)
    <3>1. ip' = o + 1 /\ thumb' = Home /\ stack' = stack /\ regs' = Regs(r, x, y, Address(o + 4, Home))
      BY <1>2, <1>5, <1>6, <1>11, <1>7, <2>1, <2>2, StepLinkOn
    <3>2. A32Next(inst, to, pcv, o, r, x, y, lr)
      BY <1>2, <1>7, <1>11, <2>1, <2>2, <3>1 DEF A32Next, A32Mid
    <3>3. ip' > o /\ ip' < o + Len(s) /\ thumb' = Home
      BY <1>2, <1>7, <1>11, <2>1, <2>2, <3>1
    <3>4. QED
      BY <3>2, <3>3
  <2>3. CASE (inst.c /\ ~ flag)
    <3>1. ip' = o + 1 /\ thumb' = Home /\ stack' = stack /\ regs' = regs
      BY <1>2, <1>5, <1>6, <1>11, <1>7, <2>3, StepLinkOff
    <3>2. A32Next(inst, to, pcv, o, r, x, y, lr)
      BY <1>2, <1>7, <1>11, <2>1, <2>3, <3>1 DEF A32Next, A32Mid
    <3>3. ip' > o /\ ip' < o + Len(s) /\ thumb' = Home
      BY <1>2, <1>7, <1>11, <2>1, <2>3, <3>1
    <3>4. QED
      BY <3>2, <3>3
  <2>4. QED
    BY <2>2, <2>3, <1>7
<1>12. CASE ip = o + 1 /\ regs = Regs(r, x, y, lr) /\ inst.c /\ ~ flag
  <2>1. Stored(BaseAt(fn.arch, o + 1) + 0) = to
    BY <1>2, <1>5, StoredWhole DEF BaseAt, PcAt
  <2>2. inst.c /\ ~ flag
    BY <1>12
  <2>3. o + 2 = o + 1 + 1
    BY <1>2
  <2>4. ip = o + 1
    BY <1>12
  <2>5. Fetch(o + 1) = LdrIf(inst.c, "pc", 0)
    BY <1>5
  <2>6. Fetch(o + 2).op # "second"
    BY <1>6
  <2>7. ip' = o + 2 /\ thumb' = Home /\ stack' = stack /\ regs' = regs
    BY <1>7, <2>2, <2>3, <2>4, <2>5, <2>6, StepLdrPcOff, Zenon
  <2>8. A32Next(inst, to, pcv, o, r, x, y, lr)
    BY <1>2, <1>7, <1>12, <2>1, <2>2, <2>3, <2>4, <2>5, <2>6, <2>7 DEF A32Next, A32Mid
  <2>9. ip' > o /\ ip' < o + Len(s) /\ thumb' = Home
    BY <1>2, <1>7, <1>12, <2>1, <2>2, <2>3, <2>4, <2>5, <2>6, <2>7
  <2>10. QED
    BY <2>8, <2>9
<1>13. CASE ip = o + 1 /\ regs = Regs(r, x, y, Address(o + 4, Home)) /\ (~ inst.c \/ flag)
  <2>1. Stored(BaseAt(fn.arch, o + 1) + 0) = to
    BY <1>2, <1>5, StoredWhole DEF BaseAt, PcAt
  <2>2. ip' = to.of /\ thumb' = to.t /\ stack' = stack /\ regs' = regs
    BY <1>2, <1>5, <1>6, <1>13, <1>7, <2>1, StepLdrPcOn
  <2>3. QED
    BY <1>2, <1>7, <1>13, <2>1, <2>2 DEF Done, Skips, Branches
<1>14. CASE ip = o + 2 /\ regs = Regs(r, x, y, lr) /\ inst.c /\ ~ flag
  <2>1. ip' = o + 4 /\ thumb' = Home /\ stack' = stack /\ regs' = regs
    BY <1>2, <1>5, <1>6, <1>14, StepB DEF PcAt
  <2>2. QED
    BY <1>2, <1>7, <1>14, <2>1 DEF Done, Skips, Branches
<1>15. QED
  BY <1>11, <1>12, <1>13, <1>14 DEF A32Now, A32Mid

LEMMA A32BLXStep ==
  ASSUME Execute, fn.arch = "arm", NEW inst \in A32!Insts, inst.kind = "BLX", NEW inHead \in BOOLEAN,
         NEW to, to.is = "address", NEW pcv, IsPc(pcv), NEW s, NEW o, CodeAt(o, s),
         s = A32!Rewrite(inst, to, inHead, pcv), s # << >>,
         NEW r, NEW x, NEW y, NEW lr, A32Now(inst, to, pcv, o, r, x, y, lr)
  PROVE  \/ A32Next(inst, to, pcv, o, r, x, y, lr) /\ thumb' = Home /\ ip' > o /\ ip' < o + Len(s)
         \/ Done(inst, to, pcv, flag, o + Len(s), r, x, y, lr, ip', thumb', regs')
<1>1. /\ Len(s) = 4
      /\ s[1] = Link(inst.c, 2) /\ s[2] = LdrIf(inst.c, "pc", 0) /\ s[3] = B(0)
      /\ s[4] = Data("whole", to)
  BY A32BLX
<1>2. o \in Nat /\ Len(s) = 4 /\ Fetch(o + 4).op # "second"
  BY <1>1 DEF CodeAt
<1>3. /\ (Len(s) > 0 => Fetch(o) = s[1]) /\ (Len(s) > 1 => Fetch(o + 1) = s[2])
      /\ (Len(s) > 2 => Fetch(o + 2) = s[3]) /\ (Len(s) > 3 => Fetch(o + 3) = s[4])
  BY CodeWords, Zenon
<1>4. /\ Fetch(o) = s[1] /\ Fetch(o + 1) = s[2] /\ Fetch(o + 2) = s[3] /\ Fetch(o + 3) = s[4]
  BY <1>2, <1>3
<1>5. /\ Fetch(o) = Link(inst.c, 2) /\ Fetch(o + 1) = LdrIf(inst.c, "pc", 0)
      /\ Fetch(o + 2) = B(0) /\ Fetch(o + 3) = Data("whole", to)
  BY <1>1, <1>4
<1>6. /\ Fetch(o).op # "second" /\ Fetch(o + 1).op # "second" /\ Fetch(o + 2).op # "second"
      /\ Fetch(o + 3).op # "second" /\ Fetch(o + 4).op # "second"
  BY <1>2, <1>5, WordOps
<1>7. inst.c \in BOOLEAN /\ Home = FALSE
  BY DEF A32!Insts, A32!InstsOf, Home
<1>11. CASE ip = o /\ regs = Regs(r, x, y, lr)
  <2>1. BaseAt(fn.arch, o) + 2 = o + 4
    BY <1>2 DEF BaseAt, PcAt
  <2>2. CASE (~ inst.c \/ flag)
    <3>1. ip' = o + 1 /\ thumb' = Home /\ stack' = stack /\ regs' = Regs(r, x, y, Address(o + 4, Home))
      BY <1>2, <1>5, <1>6, <1>11, <1>7, <2>1, <2>2, StepLinkOn
    <3>2. A32Next(inst, to, pcv, o, r, x, y, lr)
      BY <1>2, <1>7, <1>11, <2>1, <2>2, <3>1 DEF A32Next, A32Mid
    <3>3. ip' > o /\ ip' < o + Len(s) /\ thumb' = Home
      BY <1>2, <1>7, <1>11, <2>1, <2>2, <3>1
    <3>4. QED
      BY <3>2, <3>3
  <2>3. CASE (inst.c /\ ~ flag)
    <3>1. ip' = o + 1 /\ thumb' = Home /\ stack' = stack /\ regs' = regs
      BY <1>2, <1>5, <1>6, <1>11, <1>7, <2>3, StepLinkOff
    <3>2. A32Next(inst, to, pcv, o, r, x, y, lr)
      BY <1>2, <1>7, <1>11, <2>1, <2>3, <3>1 DEF A32Next, A32Mid
    <3>3. ip' > o /\ ip' < o + Len(s) /\ thumb' = Home
      BY <1>2, <1>7, <1>11, <2>1, <2>3, <3>1
    <3>4. QED
      BY <3>2, <3>3
  <2>4. QED
    BY <2>2, <2>3, <1>7
<1>12. CASE ip = o + 1 /\ regs = Regs(r, x, y, lr) /\ inst.c /\ ~ flag
  <2>1. Stored(BaseAt(fn.arch, o + 1) + 0) = to
    BY <1>2, <1>5, StoredWhole DEF BaseAt, PcAt
  <2>2. inst.c /\ ~ flag
    BY <1>12
  <2>3. o + 2 = o + 1 + 1
    BY <1>2
  <2>4. ip = o + 1
    BY <1>12
  <2>5. Fetch(o + 1) = LdrIf(inst.c, "pc", 0)
    BY <1>5
  <2>6. Fetch(o + 2).op # "second"
    BY <1>6
  <2>7. ip' = o + 2 /\ thumb' = Home /\ stack' = stack /\ regs' = regs
    BY <1>7, <2>2, <2>3, <2>4, <2>5, <2>6, StepLdrPcOff, Zenon
  <2>8. A32Next(inst, to, pcv, o, r, x, y, lr)
    BY <1>2, <1>7, <1>12, <2>1, <2>2, <2>3, <2>4, <2>5, <2>6, <2>7 DEF A32Next, A32Mid
  <2>9. ip' > o /\ ip' < o + Len(s) /\ thumb' = Home
    BY <1>2, <1>7, <1>12, <2>1, <2>2, <2>3, <2>4, <2>5, <2>6, <2>7
  <2>10. QED
    BY <2>8, <2>9
<1>13. CASE ip = o + 1 /\ regs = Regs(r, x, y, Address(o + 4, Home)) /\ (~ inst.c \/ flag)
  <2>1. Stored(BaseAt(fn.arch, o + 1) + 0) = to
    BY <1>2, <1>5, StoredWhole DEF BaseAt, PcAt
  <2>2. ip' = to.of /\ thumb' = to.t /\ stack' = stack /\ regs' = regs
    BY <1>2, <1>5, <1>6, <1>13, <1>7, <2>1, StepLdrPcOn
  <2>3. QED
    BY <1>2, <1>7, <1>13, <2>1, <2>2 DEF Done, Skips, Branches
<1>14. CASE ip = o + 2 /\ regs = Regs(r, x, y, lr) /\ inst.c /\ ~ flag
  <2>1. ip' = o + 4 /\ thumb' = Home /\ stack' = stack /\ regs' = regs
    BY <1>2, <1>5, <1>6, <1>14, StepB DEF PcAt
  <2>2. QED
    BY <1>2, <1>7, <1>14, <2>1 DEF Done, Skips, Branches
<1>15. QED
  BY <1>11, <1>12, <1>13, <1>14 DEF A32Now, A32Mid

LEMMA A32ADDPCStep ==
  ASSUME Execute, fn.arch = "arm", NEW inst \in A32!Insts, inst.kind = "ADD_PC", NEW inHead \in BOOLEAN,
         NEW to, to.is = "address", NEW pcv, IsPc(pcv), NEW s, NEW o, CodeAt(o, s),
         s = A32!Rewrite(inst, to, inHead, pcv), s # << >>,
         NEW r, NEW x, NEW y, NEW lr, A32Now(inst, to, pcv, o, r, x, y, lr)
  PROVE  \/ A32Next(inst, to, pcv, o, r, x, y, lr) /\ thumb' = Home /\ ip' > o /\ ip' < o + Len(s)
         \/ Done(inst, to, pcv, flag, o + Len(s), r, x, y, lr, ip', thumb', regs')
<1>1. /\ Len(s) = 8
      /\ s[1] = BIf(inst.c, 0) /\ s[2] = B(5) /\ s[3] = Push("xy") /\ s[4] = Ldr("x", 2)
      /\ s[5] = Set("index", "y", "x") /\ s[6] = Store("y") /\ s[7] = Pop("xypc")
      /\ s[8] = Data("whole", pcv)
  BY A32ADDPC
<1>2. o \in Nat /\ Len(s) = 8 /\ Fetch(o + 8).op # "second"
  BY <1>1 DEF CodeAt
<1>3. /\ (Len(s) > 0 => Fetch(o) = s[1]) /\ (Len(s) > 1 => Fetch(o + 1) = s[2])
      /\ (Len(s) > 2 => Fetch(o + 2) = s[3]) /\ (Len(s) > 3 => Fetch(o + 3) = s[4])
      /\ (Len(s) > 4 => Fetch(o + 4) = s[5])
  BY CodeWords, Zenon
<1>8. /\ (Len(s) > 5 => Fetch(o + 5) = s[6]) /\ (Len(s) > 6 => Fetch(o + 6) = s[7])
      /\ (Len(s) > 7 => Fetch(o + 7) = s[8])
  BY CodeWords, Zenon
<1>4. /\ Fetch(o) = s[1] /\ Fetch(o + 1) = s[2] /\ Fetch(o + 2) = s[3] /\ Fetch(o + 3) = s[4]
      /\ Fetch(o + 4) = s[5] /\ Fetch(o + 5) = s[6] /\ Fetch(o + 6) = s[7]
      /\ Fetch(o + 7) = s[8]
  BY <1>2, <1>3, <1>8
<1>5. /\ Fetch(o) = BIf(inst.c, 0) /\ Fetch(o + 1) = B(5) /\ Fetch(o + 2) = Push("xy")
      /\ Fetch(o + 3) = Ldr("x", 2) /\ Fetch(o + 4) = Set("index", "y", "x")
      /\ Fetch(o + 5) = Store("y") /\ Fetch(o + 6) = Pop("xypc")
      /\ Fetch(o + 7) = Data("whole", pcv)
  BY <1>1, <1>4
<1>6. /\ Fetch(o).op # "second" /\ Fetch(o + 1).op # "second" /\ Fetch(o + 2).op # "second"
      /\ Fetch(o + 3).op # "second" /\ Fetch(o + 4).op # "second"
      /\ Fetch(o + 5).op # "second" /\ Fetch(o + 6).op # "second"
      /\ Fetch(o + 7).op # "second" /\ Fetch(o + 8).op # "second"
  BY <1>2, <1>5, WordOps
<1>7. inst.c \in BOOLEAN /\ Home = FALSE
  BY DEF A32!Insts, A32!InstsOf, Home
<1>11. CASE ip = o /\ regs = Regs(r, x, y, lr)
  <2>1. CASE (~ inst.c \/ flag)
    <3>1. ip' = o + 2 /\ thumb' = Home /\ stack' = stack /\ regs' = regs
      BY <1>2, <1>5, <1>6, <1>11, <1>7, <2>1, StepBIfOn DEF PcAt
    <3>2. A32Next(inst, to, pcv, o, r, x, y, lr)
      BY <1>2, <1>7, <1>11, <2>1, <3>1 DEF A32Next, A32Mid
    <3>3. ip' > o /\ ip' < o + Len(s) /\ thumb' = Home
      BY <1>2, <1>7, <1>11, <2>1, <3>1
    <3>4. QED
      BY <3>2, <3>3
  <2>2. CASE (inst.c /\ ~ flag)
    <3>1. ip' = o + 1 /\ thumb' = Home /\ stack' = stack /\ regs' = regs
      BY <1>2, <1>5, <1>6, <1>11, <1>7, <2>2, StepBIfOff
    <3>2. A32Next(inst, to, pcv, o, r, x, y, lr)
      BY <1>2, <1>7, <1>11, <2>2, <3>1 DEF A32Next, A32Mid
    <3>3. ip' > o /\ ip' < o + Len(s) /\ thumb' = Home
      BY <1>2, <1>7, <1>11, <2>2, <3>1
    <3>4. QED
      BY <3>2, <3>3
  <2>3. QED
    BY <2>1, <2>2, <1>7
<1>12. CASE ip = o + 1 /\ regs = Regs(r, x, y, lr) /\ inst.c /\ ~ flag
  <2>1. ip' = o + 8 /\ thumb' = Home /\ stack' = stack /\ regs' = regs
    BY <1>2, <1>5, <1>6, <1>12, StepB DEF PcAt
  <2>2. QED
    BY <1>2, <1>7, <1>12, <2>1 DEF Done, Skips, Branches
<1>13. CASE ip = o + 2 /\ regs = Regs(r, x, y, lr) /\ (~ inst.c \/ flag)
  <2>1. ip' = o + 3 /\ thumb' = Home /\ regs' = regs /\ stack' = Saved(x, y, Lost)
    BY <1>2, <1>5, <1>6, <1>13, StepPush
  <2>2. A32Next(inst, to, pcv, o, r, x, y, lr)
    BY <1>2, <1>7, <1>13, <2>1 DEF A32Next, A32Mid
  <2>3. ip' > o /\ ip' < o + Len(s) /\ thumb' = Home
    BY <1>2, <1>7, <1>13, <2>1
  <2>4. QED
    BY <2>2, <2>3
<1>14. CASE ip = o + 3 /\ regs = Regs(r, x, y, lr) /\ stack = Saved(x, y, Lost) /\ (~ inst.c \/ flag)
  <2>1. Stored(BaseAt(fn.arch, o + 3) + 2) = pcv
    BY <1>2, <1>5, StoredWhole DEF BaseAt, PcAt
  <2>2. ip' = o + 4 /\ thumb' = Home /\ stack' = stack /\ regs' = Regs(r, pcv, y, lr)
    BY <1>2, <1>5, <1>6, <1>14, <2>1, StepLdr
  <2>3. A32Next(inst, to, pcv, o, r, x, y, lr)
    BY <1>2, <1>7, <1>14, <2>1, <2>2 DEF A32Next, A32Mid
  <2>4. ip' > o /\ ip' < o + Len(s) /\ thumb' = Home
    BY <1>2, <1>7, <1>14, <2>1, <2>2
  <2>5. QED
    BY <2>3, <2>4
<1>15. CASE ip = o + 4 /\ regs = Regs(r, pcv, y, lr) /\ stack = Saved(x, y, Lost) /\ (~ inst.c \/ flag)
  <2>1. Compute("index", pcv) = Indexed(pcv, flag)
    BY DEF Compute, Indexed, Marked
  <2>2. ip' = o + 5 /\ thumb' = Home /\ stack' = stack /\ regs' = Regs(r, pcv, Indexed(pcv, flag), lr)
    BY <1>2, <1>5, <1>6, <1>15, <2>1, StepSet
  <2>3. A32Next(inst, to, pcv, o, r, x, y, lr)
    BY <1>2, <1>7, <1>15, <2>1, <2>2 DEF A32Next, A32Mid
  <2>4. ip' > o /\ ip' < o + Len(s) /\ thumb' = Home
    BY <1>2, <1>7, <1>15, <2>1, <2>2
  <2>5. QED
    BY <2>3, <2>4
<1>16. CASE ip = o + 5 /\ regs = Regs(r, pcv, Indexed(pcv, flag), lr) /\ stack = Saved(x, y, Lost) /\ (~ inst.c \/ flag)
  <2>1. ip' = o + 6 /\ thumb' = Home /\ regs' = regs /\ stack' = Saved(x, y, Indexed(pcv, flag))
    BY <1>2, <1>5, <1>6, <1>16, StepStore
  <2>2. A32Next(inst, to, pcv, o, r, x, y, lr)
    BY <1>2, <1>7, <1>16, <2>1 DEF A32Next, A32Mid
  <2>3. ip' > o /\ ip' < o + Len(s) /\ thumb' = Home
    BY <1>2, <1>7, <1>16, <2>1
  <2>4. QED
    BY <2>2, <2>3
<1>17. CASE ip = o + 6 /\ regs = Regs(r, pcv, Indexed(pcv, flag), lr) /\ stack = Saved(x, y, Indexed(pcv, flag)) /\ (~ inst.c \/ flag)
  <2>1. ip' = Dest(Indexed(pcv, flag)) /\ thumb' = Indexed(pcv, flag).t /\ regs' = Regs(r, x, y, lr)
    BY <1>2, <1>5, <1>6, <1>17, StepPopPc
  <2>2. Dest(Indexed(pcv, flag)) = pcv.of + (IF flag THEN 4 ELSE 0) /\ Indexed(pcv, flag).t = FALSE
    BY PcFields
  <2>3. ip' = pcv.of + (IF flag THEN 4 ELSE 0) /\ thumb' = Home
    BY <1>7, <2>1, <2>2
  <2>4. ~ Skips(inst, flag)
    BY <1>7, <1>17 DEF Skips
  <2>5. ip' = Address(pcv.of + IF flag THEN 4 ELSE 0, Home).of /\ thumb' = Address(pcv.of + IF flag THEN 4 ELSE 0, Home).t
    BY <2>1, <2>2, <2>3, AddressFields
  <2>6. QED
    BY <1>2, <1>7, <2>1, <2>2, <2>3, <2>4, <2>5 DEF Done
<1>18. QED
  BY <1>11, <1>12, <1>13, <1>14, <1>15, <1>16, <1>17 DEF A32Now, A32Mid

LEMMA A32ADDStep ==
  ASSUME Execute, fn.arch = "arm", NEW inst \in A32!Insts, inst.kind = "ADD", NEW inHead \in BOOLEAN,
         NEW to, to.is = "address", NEW pcv, IsPc(pcv), NEW s, NEW o, CodeAt(o, s),
         s = A32!Rewrite(inst, to, inHead, pcv), s # << >>,
         NEW r, NEW x, NEW y, NEW lr, A32Now(inst, to, pcv, o, r, x, y, lr)
  PROVE  \/ A32Next(inst, to, pcv, o, r, x, y, lr) /\ thumb' = Home /\ ip' > o /\ ip' < o + Len(s)
         \/ Done(inst, to, pcv, flag, o + Len(s), r, x, y, lr, ip', thumb', regs')
<1>1. /\ Len(s) = 8
      /\ s[1] = BIf(inst.c, 0) /\ s[2] = B(5) /\ s[3] = Push("x") /\ s[4] = Ldr("x", 2)
      /\ s[5] = Set("sum", "r", "x") /\ s[6] = Pop("x") /\ s[7] = B(0)
      /\ s[8] = Data("whole", pcv)
  BY A32ADD
<1>2. o \in Nat /\ Len(s) = 8 /\ Fetch(o + 8).op # "second"
  BY <1>1 DEF CodeAt
<1>3. /\ (Len(s) > 0 => Fetch(o) = s[1]) /\ (Len(s) > 1 => Fetch(o + 1) = s[2])
      /\ (Len(s) > 2 => Fetch(o + 2) = s[3]) /\ (Len(s) > 3 => Fetch(o + 3) = s[4])
      /\ (Len(s) > 4 => Fetch(o + 4) = s[5])
  BY CodeWords, Zenon
<1>8. /\ (Len(s) > 5 => Fetch(o + 5) = s[6]) /\ (Len(s) > 6 => Fetch(o + 6) = s[7])
      /\ (Len(s) > 7 => Fetch(o + 7) = s[8])
  BY CodeWords, Zenon
<1>4. /\ Fetch(o) = s[1] /\ Fetch(o + 1) = s[2] /\ Fetch(o + 2) = s[3] /\ Fetch(o + 3) = s[4]
      /\ Fetch(o + 4) = s[5] /\ Fetch(o + 5) = s[6] /\ Fetch(o + 6) = s[7]
      /\ Fetch(o + 7) = s[8]
  BY <1>2, <1>3, <1>8
<1>5. /\ Fetch(o) = BIf(inst.c, 0) /\ Fetch(o + 1) = B(5) /\ Fetch(o + 2) = Push("x")
      /\ Fetch(o + 3) = Ldr("x", 2) /\ Fetch(o + 4) = Set("sum", "r", "x")
      /\ Fetch(o + 5) = Pop("x") /\ Fetch(o + 6) = B(0) /\ Fetch(o + 7) = Data("whole", pcv)
  BY <1>1, <1>4
<1>6. /\ Fetch(o).op # "second" /\ Fetch(o + 1).op # "second" /\ Fetch(o + 2).op # "second"
      /\ Fetch(o + 3).op # "second" /\ Fetch(o + 4).op # "second"
      /\ Fetch(o + 5).op # "second" /\ Fetch(o + 6).op # "second"
      /\ Fetch(o + 7).op # "second" /\ Fetch(o + 8).op # "second"
  BY <1>2, <1>5, WordOps
<1>7. inst.c \in BOOLEAN /\ Home = FALSE
  BY DEF A32!Insts, A32!InstsOf, Home
<1>11. CASE ip = o /\ regs = Regs(r, x, y, lr)
  <2>1. CASE (~ inst.c \/ flag)
    <3>1. ip' = o + 2 /\ thumb' = Home /\ stack' = stack /\ regs' = regs
      BY <1>2, <1>5, <1>6, <1>11, <1>7, <2>1, StepBIfOn DEF PcAt
    <3>2. A32Next(inst, to, pcv, o, r, x, y, lr)
      BY <1>2, <1>7, <1>11, <2>1, <3>1 DEF A32Next, A32Mid
    <3>3. ip' > o /\ ip' < o + Len(s) /\ thumb' = Home
      BY <1>2, <1>7, <1>11, <2>1, <3>1
    <3>4. QED
      BY <3>2, <3>3
  <2>2. CASE (inst.c /\ ~ flag)
    <3>1. ip' = o + 1 /\ thumb' = Home /\ stack' = stack /\ regs' = regs
      BY <1>2, <1>5, <1>6, <1>11, <1>7, <2>2, StepBIfOff
    <3>2. A32Next(inst, to, pcv, o, r, x, y, lr)
      BY <1>2, <1>7, <1>11, <2>2, <3>1 DEF A32Next, A32Mid
    <3>3. ip' > o /\ ip' < o + Len(s) /\ thumb' = Home
      BY <1>2, <1>7, <1>11, <2>2, <3>1
    <3>4. QED
      BY <3>2, <3>3
  <2>3. QED
    BY <2>1, <2>2, <1>7
<1>12. CASE ip = o + 1 /\ regs = Regs(r, x, y, lr) /\ inst.c /\ ~ flag
  <2>1. ip' = o + 8 /\ thumb' = Home /\ stack' = stack /\ regs' = regs
    BY <1>2, <1>5, <1>6, <1>12, StepB DEF PcAt
  <2>2. QED
    BY <1>2, <1>7, <1>12, <2>1 DEF Done, Skips, Branches
<1>13. CASE ip = o + 2 /\ regs = Regs(r, x, y, lr) /\ (~ inst.c \/ flag)
  <2>1. ip' = o + 3 /\ thumb' = Home /\ regs' = regs /\ stack' = Saved(x, Lost, Lost)
    BY <1>2, <1>5, <1>6, <1>13, StepPush
  <2>2. A32Next(inst, to, pcv, o, r, x, y, lr)
    BY <1>2, <1>7, <1>13, <2>1 DEF A32Next, A32Mid
  <2>3. ip' > o /\ ip' < o + Len(s) /\ thumb' = Home
    BY <1>2, <1>7, <1>13, <2>1
  <2>4. QED
    BY <2>2, <2>3
<1>14. CASE ip = o + 3 /\ regs = Regs(r, x, y, lr) /\ stack = Saved(x, Lost, Lost) /\ (~ inst.c \/ flag)
  <2>1. Stored(BaseAt(fn.arch, o + 3) + 2) = pcv
    BY <1>2, <1>5, StoredWhole DEF BaseAt, PcAt
  <2>2. ip' = o + 4 /\ thumb' = Home /\ stack' = stack /\ regs' = Regs(r, pcv, y, lr)
    BY <1>2, <1>5, <1>6, <1>14, <2>1, StepLdr
  <2>3. A32Next(inst, to, pcv, o, r, x, y, lr)
    BY <1>2, <1>7, <1>14, <2>1, <2>2 DEF A32Next, A32Mid
  <2>4. ip' > o /\ ip' < o + Len(s) /\ thumb' = Home
    BY <1>2, <1>7, <1>14, <2>1, <2>2
  <2>5. QED
    BY <2>3, <2>4
<1>15. CASE ip = o + 4 /\ regs = Regs(r, pcv, y, lr) /\ stack = Saved(x, Lost, Lost) /\ (~ inst.c \/ flag)
  <2>1. Compute("sum", pcv) = Sum(pcv.of)
    BY DEF Compute, Indexed, Marked
  <2>2. ip' = o + 5 /\ thumb' = Home /\ stack' = stack /\ regs' = Regs(Sum(pcv.of), pcv, y, lr)
    BY <1>2, <1>5, <1>6, <1>15, <2>1, StepSet
  <2>3. A32Next(inst, to, pcv, o, r, x, y, lr)
    BY <1>2, <1>7, <1>15, <2>1, <2>2 DEF A32Next, A32Mid
  <2>4. ip' > o /\ ip' < o + Len(s) /\ thumb' = Home
    BY <1>2, <1>7, <1>15, <2>1, <2>2
  <2>5. QED
    BY <2>3, <2>4
<1>16. CASE ip = o + 5 /\ regs = Regs(Sum(pcv.of), pcv, y, lr) /\ stack = Saved(x, Lost, Lost) /\ (~ inst.c \/ flag)
  <2>1. ip' = o + 6 /\ thumb' = Home /\ stack' = stack /\ regs' = Regs(Sum(pcv.of), x, y, lr)
    BY <1>2, <1>5, <1>6, <1>16, StepPopX
  <2>2. A32Next(inst, to, pcv, o, r, x, y, lr)
    BY <1>2, <1>7, <1>16, <2>1 DEF A32Next, A32Mid
  <2>3. ip' > o /\ ip' < o + Len(s) /\ thumb' = Home
    BY <1>2, <1>7, <1>16, <2>1
  <2>4. QED
    BY <2>2, <2>3
<1>17. CASE ip = o + 6 /\ regs = Regs(Sum(pcv.of), x, y, lr) /\ (~ inst.c \/ flag)
  <2>1. ip' = o + 8 /\ thumb' = Home /\ stack' = stack /\ regs' = regs
    BY <1>2, <1>5, <1>6, <1>17, StepB DEF PcAt
  <2>2. QED
    BY <1>2, <1>7, <1>17, <2>1 DEF Done, Skips, Branches
<1>18. QED
  BY <1>11, <1>12, <1>13, <1>14, <1>15, <1>16, <1>17 DEF A32Now, A32Mid

LEMMA A32MOVStep ==
  ASSUME Execute, fn.arch = "arm", NEW inst \in A32!Insts, inst.kind = "MOV", NEW inHead \in BOOLEAN,
         NEW to, to.is = "address", NEW pcv, IsPc(pcv), NEW s, NEW o, CodeAt(o, s),
         s = A32!Rewrite(inst, to, inHead, pcv), s # << >>,
         NEW r, NEW x, NEW y, NEW lr, A32Now(inst, to, pcv, o, r, x, y, lr)
  PROVE  \/ A32Next(inst, to, pcv, o, r, x, y, lr) /\ thumb' = Home /\ ip' > o /\ ip' < o + Len(s)
         \/ Done(inst, to, pcv, flag, o + Len(s), r, x, y, lr, ip', thumb', regs')
<1>1. /\ Len(s) = 8
      /\ s[1] = BIf(inst.c, 0) /\ s[2] = B(5) /\ s[3] = Push("x") /\ s[4] = Ldr("x", 2)
      /\ s[5] = Set("move", "r", "x") /\ s[6] = Pop("x") /\ s[7] = B(0)
      /\ s[8] = Data("whole", pcv)
  BY A32MOV
<1>2. o \in Nat /\ Len(s) = 8 /\ Fetch(o + 8).op # "second"
  BY <1>1 DEF CodeAt
<1>3. /\ (Len(s) > 0 => Fetch(o) = s[1]) /\ (Len(s) > 1 => Fetch(o + 1) = s[2])
      /\ (Len(s) > 2 => Fetch(o + 2) = s[3]) /\ (Len(s) > 3 => Fetch(o + 3) = s[4])
      /\ (Len(s) > 4 => Fetch(o + 4) = s[5])
  BY CodeWords, Zenon
<1>8. /\ (Len(s) > 5 => Fetch(o + 5) = s[6]) /\ (Len(s) > 6 => Fetch(o + 6) = s[7])
      /\ (Len(s) > 7 => Fetch(o + 7) = s[8])
  BY CodeWords, Zenon
<1>4. /\ Fetch(o) = s[1] /\ Fetch(o + 1) = s[2] /\ Fetch(o + 2) = s[3] /\ Fetch(o + 3) = s[4]
      /\ Fetch(o + 4) = s[5] /\ Fetch(o + 5) = s[6] /\ Fetch(o + 6) = s[7]
      /\ Fetch(o + 7) = s[8]
  BY <1>2, <1>3, <1>8
<1>5. /\ Fetch(o) = BIf(inst.c, 0) /\ Fetch(o + 1) = B(5) /\ Fetch(o + 2) = Push("x")
      /\ Fetch(o + 3) = Ldr("x", 2) /\ Fetch(o + 4) = Set("move", "r", "x")
      /\ Fetch(o + 5) = Pop("x") /\ Fetch(o + 6) = B(0) /\ Fetch(o + 7) = Data("whole", pcv)
  BY <1>1, <1>4
<1>6. /\ Fetch(o).op # "second" /\ Fetch(o + 1).op # "second" /\ Fetch(o + 2).op # "second"
      /\ Fetch(o + 3).op # "second" /\ Fetch(o + 4).op # "second"
      /\ Fetch(o + 5).op # "second" /\ Fetch(o + 6).op # "second"
      /\ Fetch(o + 7).op # "second" /\ Fetch(o + 8).op # "second"
  BY <1>2, <1>5, WordOps
<1>7. inst.c \in BOOLEAN /\ Home = FALSE
  BY DEF A32!Insts, A32!InstsOf, Home
<1>11. CASE ip = o /\ regs = Regs(r, x, y, lr)
  <2>1. CASE (~ inst.c \/ flag)
    <3>1. ip' = o + 2 /\ thumb' = Home /\ stack' = stack /\ regs' = regs
      BY <1>2, <1>5, <1>6, <1>11, <1>7, <2>1, StepBIfOn DEF PcAt
    <3>2. A32Next(inst, to, pcv, o, r, x, y, lr)
      BY <1>2, <1>7, <1>11, <2>1, <3>1 DEF A32Next, A32Mid
    <3>3. ip' > o /\ ip' < o + Len(s) /\ thumb' = Home
      BY <1>2, <1>7, <1>11, <2>1, <3>1
    <3>4. QED
      BY <3>2, <3>3
  <2>2. CASE (inst.c /\ ~ flag)
    <3>1. ip' = o + 1 /\ thumb' = Home /\ stack' = stack /\ regs' = regs
      BY <1>2, <1>5, <1>6, <1>11, <1>7, <2>2, StepBIfOff
    <3>2. A32Next(inst, to, pcv, o, r, x, y, lr)
      BY <1>2, <1>7, <1>11, <2>2, <3>1 DEF A32Next, A32Mid
    <3>3. ip' > o /\ ip' < o + Len(s) /\ thumb' = Home
      BY <1>2, <1>7, <1>11, <2>2, <3>1
    <3>4. QED
      BY <3>2, <3>3
  <2>3. QED
    BY <2>1, <2>2, <1>7
<1>12. CASE ip = o + 1 /\ regs = Regs(r, x, y, lr) /\ inst.c /\ ~ flag
  <2>1. ip' = o + 8 /\ thumb' = Home /\ stack' = stack /\ regs' = regs
    BY <1>2, <1>5, <1>6, <1>12, StepB DEF PcAt
  <2>2. QED
    BY <1>2, <1>7, <1>12, <2>1 DEF Done, Skips, Branches
<1>13. CASE ip = o + 2 /\ regs = Regs(r, x, y, lr) /\ (~ inst.c \/ flag)
  <2>1. ip' = o + 3 /\ thumb' = Home /\ regs' = regs /\ stack' = Saved(x, Lost, Lost)
    BY <1>2, <1>5, <1>6, <1>13, StepPush
  <2>2. A32Next(inst, to, pcv, o, r, x, y, lr)
    BY <1>2, <1>7, <1>13, <2>1 DEF A32Next, A32Mid
  <2>3. ip' > o /\ ip' < o + Len(s) /\ thumb' = Home
    BY <1>2, <1>7, <1>13, <2>1
  <2>4. QED
    BY <2>2, <2>3
<1>14. CASE ip = o + 3 /\ regs = Regs(r, x, y, lr) /\ stack = Saved(x, Lost, Lost) /\ (~ inst.c \/ flag)
  <2>1. Stored(BaseAt(fn.arch, o + 3) + 2) = pcv
    BY <1>2, <1>5, StoredWhole DEF BaseAt, PcAt
  <2>2. ip' = o + 4 /\ thumb' = Home /\ stack' = stack /\ regs' = Regs(r, pcv, y, lr)
    BY <1>2, <1>5, <1>6, <1>14, <2>1, StepLdr
  <2>3. A32Next(inst, to, pcv, o, r, x, y, lr)
    BY <1>2, <1>7, <1>14, <2>1, <2>2 DEF A32Next, A32Mid
  <2>4. ip' > o /\ ip' < o + Len(s) /\ thumb' = Home
    BY <1>2, <1>7, <1>14, <2>1, <2>2
  <2>5. QED
    BY <2>3, <2>4
<1>15. CASE ip = o + 4 /\ regs = Regs(r, pcv, y, lr) /\ stack = Saved(x, Lost, Lost) /\ (~ inst.c \/ flag)
  <2>1. Compute("move", pcv) = pcv
    BY DEF Compute, Indexed, Marked
  <2>2. ip' = o + 5 /\ thumb' = Home /\ stack' = stack /\ regs' = Regs(pcv, pcv, y, lr)
    BY <1>2, <1>5, <1>6, <1>15, <2>1, StepSet
  <2>3. A32Next(inst, to, pcv, o, r, x, y, lr)
    BY <1>2, <1>7, <1>15, <2>1, <2>2 DEF A32Next, A32Mid
  <2>4. ip' > o /\ ip' < o + Len(s) /\ thumb' = Home
    BY <1>2, <1>7, <1>15, <2>1, <2>2
  <2>5. QED
    BY <2>3, <2>4
<1>16. CASE ip = o + 5 /\ regs = Regs(pcv, pcv, y, lr) /\ stack = Saved(x, Lost, Lost) /\ (~ inst.c \/ flag)
  <2>1. ip' = o + 6 /\ thumb' = Home /\ stack' = stack /\ regs' = Regs(pcv, x, y, lr)
    BY <1>2, <1>5, <1>6, <1>16, StepPopX
  <2>2. A32Next(inst, to, pcv, o, r, x, y, lr)
    BY <1>2, <1>7, <1>16, <2>1 DEF A32Next, A32Mid
  <2>3. ip' > o /\ ip' < o + Len(s) /\ thumb' = Home
    BY <1>2, <1>7, <1>16, <2>1
  <2>4. QED
    BY <2>2, <2>3
<1>17. CASE ip = o + 6 /\ regs = Regs(pcv, x, y, lr) /\ (~ inst.c \/ flag)
  <2>1. ip' = o + 8 /\ thumb' = Home /\ stack' = stack /\ regs' = regs
    BY <1>2, <1>5, <1>6, <1>17, StepB DEF PcAt
  <2>2. QED
    BY <1>2, <1>7, <1>17, <2>1 DEF Done, Skips, Branches
<1>18. QED
  BY <1>11, <1>12, <1>13, <1>14, <1>15, <1>16, <1>17 DEF A32Now, A32Mid

LEMMA A32MOVPCStep ==
  ASSUME Execute, fn.arch = "arm", NEW inst \in A32!Insts, inst.kind = "MOV_PC", NEW inHead \in BOOLEAN,
         NEW to, to.is = "address", NEW pcv, IsPc(pcv), NEW s, NEW o, CodeAt(o, s),
         s = A32!Rewrite(inst, to, inHead, pcv), s # << >>,
         NEW r, NEW x, NEW y, NEW lr, A32Now(inst, to, pcv, o, r, x, y, lr)
  PROVE  \/ A32Next(inst, to, pcv, o, r, x, y, lr) /\ thumb' = Home /\ ip' > o /\ ip' < o + Len(s)
         \/ Done(inst, to, pcv, flag, o + Len(s), r, x, y, lr, ip', thumb', regs')
<1>1. /\ Len(s) = 3
      /\ s[1] = LdrIf(inst.c, "pc", 0) /\ s[2] = B(0) /\ s[3] = Data("whole", pcv)
  BY A32MOVPC
<1>2. o \in Nat /\ Len(s) = 3 /\ Fetch(o + 3).op # "second"
  BY <1>1 DEF CodeAt
<1>3. /\ (Len(s) > 0 => Fetch(o) = s[1]) /\ (Len(s) > 1 => Fetch(o + 1) = s[2])
      /\ (Len(s) > 2 => Fetch(o + 2) = s[3])
  BY CodeWords, Zenon
<1>4. /\ Fetch(o) = s[1] /\ Fetch(o + 1) = s[2] /\ Fetch(o + 2) = s[3]
  BY <1>2, <1>3
<1>5. /\ Fetch(o) = LdrIf(inst.c, "pc", 0) /\ Fetch(o + 1) = B(0)
      /\ Fetch(o + 2) = Data("whole", pcv)
  BY <1>1, <1>4
<1>6. /\ Fetch(o).op # "second" /\ Fetch(o + 1).op # "second" /\ Fetch(o + 2).op # "second"
      /\ Fetch(o + 3).op # "second"
  BY <1>2, <1>5, WordOps
<1>7. inst.c \in BOOLEAN /\ Home = FALSE
  BY DEF A32!Insts, A32!InstsOf, Home
<1>11. CASE ip = o /\ regs = Regs(r, x, y, lr)
  <2>1. Stored(BaseAt(fn.arch, o) + 0) = pcv
    BY <1>2, <1>5, StoredWhole DEF BaseAt, PcAt
  <2>2. pcv.is = "address"
    BY PcFields
  <2>3. CASE (~ inst.c \/ flag)
    <3>1. ip' = pcv.of /\ thumb' = pcv.t /\ stack' = stack /\ regs' = regs
      BY <1>2, <1>5, <1>6, <1>11, <1>7, <2>1, <2>2, <2>3, StepLdrPcOn
    <3>2. QED
      BY <1>2, <1>7, <1>11, <2>1, <2>2, <2>3, <3>1 DEF Done, Skips, Branches
  <2>4. CASE (inst.c /\ ~ flag)
    <3>1. ip' = o + 1 /\ thumb' = Home /\ stack' = stack /\ regs' = regs
      BY <1>2, <1>5, <1>6, <1>11, <1>7, <2>4, StepLdrPcOff
    <3>2. A32Next(inst, to, pcv, o, r, x, y, lr)
      BY <1>2, <1>7, <1>11, <2>1, <2>2, <2>4, <3>1 DEF A32Next, A32Mid
    <3>3. ip' > o /\ ip' < o + Len(s) /\ thumb' = Home
      BY <1>2, <1>7, <1>11, <2>1, <2>2, <2>4, <3>1
    <3>4. QED
      BY <3>2, <3>3
  <2>5. QED
    BY <2>3, <2>4, <1>7
<1>12. CASE ip = o + 1 /\ regs = Regs(r, x, y, lr) /\ inst.c /\ ~ flag
  <2>1. ip' = o + 3 /\ thumb' = Home /\ stack' = stack /\ regs' = regs
    BY <1>2, <1>5, <1>6, <1>12, StepB DEF PcAt
  <2>2. QED
    BY <1>2, <1>7, <1>12, <2>1 DEF Done, Skips, Branches
<1>13. QED
  BY <1>11, <1>12 DEF A32Now, A32Mid

LEMMA A32ADRStep ==
  ASSUME Execute, fn.arch = "arm", NEW inst \in A32!Insts, inst.kind = "ADR", NEW inHead \in BOOLEAN,
         NEW to, to.is = "address", NEW pcv, IsPc(pcv), NEW s, NEW o, CodeAt(o, s),
         s = A32!Rewrite(inst, to, inHead, pcv), s # << >>,
         NEW r, NEW x, NEW y, NEW lr, A32Now(inst, to, pcv, o, r, x, y, lr)
  PROVE  \/ A32Next(inst, to, pcv, o, r, x, y, lr) /\ thumb' = Home /\ ip' > o /\ ip' < o + Len(s)
         \/ Done(inst, to, pcv, flag, o + Len(s), r, x, y, lr, ip', thumb', regs')
<1>1. /\ Len(s) = 3
      /\ s[1] = LdrIf(inst.c, "r", 0) /\ s[2] = B(0) /\ s[3] = Data("whole", to)
  BY A32ADR
<1>2. o \in Nat /\ Len(s) = 3 /\ Fetch(o + 3).op # "second"
  BY <1>1 DEF CodeAt
<1>3. /\ (Len(s) > 0 => Fetch(o) = s[1]) /\ (Len(s) > 1 => Fetch(o + 1) = s[2])
      /\ (Len(s) > 2 => Fetch(o + 2) = s[3])
  BY CodeWords, Zenon
<1>4. /\ Fetch(o) = s[1] /\ Fetch(o + 1) = s[2] /\ Fetch(o + 2) = s[3]
  BY <1>2, <1>3
<1>5. /\ Fetch(o) = LdrIf(inst.c, "r", 0) /\ Fetch(o + 1) = B(0)
      /\ Fetch(o + 2) = Data("whole", to)
  BY <1>1, <1>4
<1>6. /\ Fetch(o).op # "second" /\ Fetch(o + 1).op # "second" /\ Fetch(o + 2).op # "second"
      /\ Fetch(o + 3).op # "second"
  BY <1>2, <1>5, WordOps
<1>7. inst.c \in BOOLEAN /\ Home = FALSE
  BY DEF A32!Insts, A32!InstsOf, Home
<1>11. CASE ip = o /\ regs = Regs(r, x, y, lr)
  <2>1. Stored(BaseAt(fn.arch, o) + 0) = to
    BY <1>2, <1>5, StoredWhole DEF BaseAt, PcAt
  <2>2. CASE (~ inst.c \/ flag)
    <3>1. ip' = o + 1 /\ thumb' = Home /\ stack' = stack /\ regs' = Regs(to, x, y, lr)
      BY <1>2, <1>5, <1>6, <1>11, <1>7, <2>1, <2>2, StepLdrIfOn
    <3>2. A32Next(inst, to, pcv, o, r, x, y, lr)
      BY <1>2, <1>7, <1>11, <2>1, <2>2, <3>1 DEF A32Next, A32Mid
    <3>3. ip' > o /\ ip' < o + Len(s) /\ thumb' = Home
      BY <1>2, <1>7, <1>11, <2>1, <2>2, <3>1
    <3>4. QED
      BY <3>2, <3>3
  <2>3. CASE (inst.c /\ ~ flag)
    <3>1. ip' = o + 1 /\ thumb' = Home /\ stack' = stack /\ regs' = regs
      BY <1>2, <1>5, <1>6, <1>11, <1>7, <2>3, StepLdrIfOff
    <3>2. A32Next(inst, to, pcv, o, r, x, y, lr)
      BY <1>2, <1>7, <1>11, <2>1, <2>3, <3>1 DEF A32Next, A32Mid
    <3>3. ip' > o /\ ip' < o + Len(s) /\ thumb' = Home
      BY <1>2, <1>7, <1>11, <2>1, <2>3, <3>1
    <3>4. QED
      BY <3>2, <3>3
  <2>4. QED
    BY <2>2, <2>3, <1>7
<1>12. CASE ip = o + 1 /\ regs = Regs(r, x, y, lr) /\ inst.c /\ ~ flag
  <2>1. ip' = o + 3 /\ thumb' = Home /\ stack' = stack /\ regs' = regs
    BY <1>2, <1>5, <1>6, <1>12, StepB DEF PcAt
  <2>2. QED
    BY <1>2, <1>7, <1>12, <2>1 DEF Done, Skips, Branches
<1>13. CASE ip = o + 1 /\ regs = Regs(to, x, y, lr) /\ (~ inst.c \/ flag)
  <2>1. ip' = o + 3 /\ thumb' = Home /\ stack' = stack /\ regs' = regs
    BY <1>2, <1>5, <1>6, <1>13, StepB DEF PcAt
  <2>2. QED
    BY <1>2, <1>7, <1>13, <2>1 DEF Done, Skips, Branches
<1>14. QED
  BY <1>11, <1>12, <1>13 DEF A32Now, A32Mid

LEMMA A32LDRPCStep ==
  ASSUME Execute, fn.arch = "arm", NEW inst \in A32!Insts, inst.kind = "LDR_PC", NEW inHead \in BOOLEAN,
         NEW to, to.is = "address", NEW pcv, IsPc(pcv), NEW s, NEW o, CodeAt(o, s),
         s = A32!Rewrite(inst, to, inHead, pcv), s # << >>,
         NEW r, NEW x, NEW y, NEW lr, A32Now(inst, to, pcv, o, r, x, y, lr),
         LoadsWell(to, inst.len)
  PROVE  \/ A32Next(inst, to, pcv, o, r, x, y, lr) /\ thumb' = Home /\ ip' > o /\ ip' < o + Len(s)
         \/ Done(inst, to, pcv, flag, o + Len(s), r, x, y, lr, ip', thumb', regs')
<1>0. A32LDRPCWords(inst, to, s)
  BY A32LDRPC, Zenon
<1>1. /\ Len(s) = 9
      /\ s[1] = BIf(inst.c, 0) /\ s[2] = B(6) /\ s[3] = Push("x") /\ s[4] = Ldr("x", 0)
      /\ s[5] = B(0) /\ s[6] = Data("whole", to) /\ s[7] = Load("x", "x", inst.len)
      /\ s[8] = Store("x") /\ s[9] = Pop("xpc")
  BY <1>0 DEF A32LDRPCWords
<1>2. o \in Nat /\ Len(s) = 9 /\ Fetch(o + 9).op # "second"
  BY <1>1 DEF CodeAt
<1>3. /\ (Len(s) > 0 => Fetch(o) = s[1]) /\ (Len(s) > 1 => Fetch(o + 1) = s[2])
      /\ (Len(s) > 2 => Fetch(o + 2) = s[3]) /\ (Len(s) > 3 => Fetch(o + 3) = s[4])
      /\ (Len(s) > 4 => Fetch(o + 4) = s[5])
  BY CodeWords, Zenon
<1>8. /\ (Len(s) > 5 => Fetch(o + 5) = s[6]) /\ (Len(s) > 6 => Fetch(o + 6) = s[7])
      /\ (Len(s) > 7 => Fetch(o + 7) = s[8]) /\ (Len(s) > 8 => Fetch(o + 8) = s[9])
  BY CodeWords, Zenon
<1>4. /\ Fetch(o) = s[1] /\ Fetch(o + 1) = s[2] /\ Fetch(o + 2) = s[3] /\ Fetch(o + 3) = s[4]
      /\ Fetch(o + 4) = s[5] /\ Fetch(o + 5) = s[6] /\ Fetch(o + 6) = s[7]
      /\ Fetch(o + 7) = s[8] /\ Fetch(o + 8) = s[9]
  BY <1>2, <1>3, <1>8
<1>5. /\ Fetch(o) = BIf(inst.c, 0) /\ Fetch(o + 1) = B(6) /\ Fetch(o + 2) = Push("x")
      /\ Fetch(o + 3) = Ldr("x", 0) /\ Fetch(o + 4) = B(0)
      /\ Fetch(o + 5) = Data("whole", to) /\ Fetch(o + 6) = Load("x", "x", inst.len)
      /\ Fetch(o + 7) = Store("x") /\ Fetch(o + 8) = Pop("xpc")
  BY <1>1, <1>4
<1>6. /\ Fetch(o).op # "second" /\ Fetch(o + 1).op # "second" /\ Fetch(o + 2).op # "second"
      /\ Fetch(o + 3).op # "second" /\ Fetch(o + 4).op # "second"
      /\ Fetch(o + 5).op # "second" /\ Fetch(o + 6).op # "second"
      /\ Fetch(o + 7).op # "second" /\ Fetch(o + 8).op # "second"
      /\ Fetch(o + 9).op # "second"
  BY <1>2, <1>5, WordOps
<1>7. inst.c \in BOOLEAN /\ Home = FALSE
  BY DEF A32!Insts, A32!InstsOf, Home
<1>11. CASE ip = o /\ regs = Regs(r, x, y, lr)
  <2>1. CASE (~ inst.c \/ flag)
    <3>1. ip' = o + 2 /\ thumb' = Home /\ stack' = stack /\ regs' = regs
      BY <1>2, <1>5, <1>6, <1>11, <1>7, <2>1, StepBIfOn DEF PcAt
    <3>2. A32Next(inst, to, pcv, o, r, x, y, lr)
      BY <1>2, <1>7, <1>11, <2>1, <3>1 DEF A32Next, A32Mid
    <3>3. ip' > o /\ ip' < o + Len(s) /\ thumb' = Home
      BY <1>2, <1>7, <1>11, <2>1, <3>1
    <3>4. QED
      BY <3>2, <3>3
  <2>2. CASE (inst.c /\ ~ flag)
    <3>1. ip' = o + 1 /\ thumb' = Home /\ stack' = stack /\ regs' = regs
      BY <1>2, <1>5, <1>6, <1>11, <1>7, <2>2, StepBIfOff
    <3>2. A32Next(inst, to, pcv, o, r, x, y, lr)
      BY <1>2, <1>7, <1>11, <2>2, <3>1 DEF A32Next, A32Mid
    <3>3. ip' > o /\ ip' < o + Len(s) /\ thumb' = Home
      BY <1>2, <1>7, <1>11, <2>2, <3>1
    <3>4. QED
      BY <3>2, <3>3
  <2>3. QED
    BY <2>1, <2>2, <1>7
<1>12. CASE ip = o + 1 /\ regs = Regs(r, x, y, lr) /\ inst.c /\ ~ flag
  <2>1. ip' = o + 9 /\ thumb' = Home /\ stack' = stack /\ regs' = regs
    BY <1>2, <1>5, <1>6, <1>12, StepB DEF PcAt
  <2>2. QED
    BY <1>2, <1>7, <1>12, <2>1 DEF Done, Skips, Branches
<1>13. CASE ip = o + 2 /\ regs = Regs(r, x, y, lr) /\ (~ inst.c \/ flag)
  <2>1. ip' = o + 3 /\ thumb' = Home /\ regs' = regs /\ stack' = Saved(x, Lost, Lost)
    BY <1>2, <1>5, <1>6, <1>13, StepPush
  <2>2. A32Next(inst, to, pcv, o, r, x, y, lr)
    BY <1>2, <1>7, <1>13, <2>1 DEF A32Next, A32Mid
  <2>3. ip' > o /\ ip' < o + Len(s) /\ thumb' = Home
    BY <1>2, <1>7, <1>13, <2>1
  <2>4. QED
    BY <2>2, <2>3
<1>14. CASE ip = o + 3 /\ regs = Regs(r, x, y, lr) /\ stack = Saved(x, Lost, Lost) /\ (~ inst.c \/ flag)
  <2>1. Stored(BaseAt(fn.arch, o + 3) + 0) = to
    BY <1>2, <1>5, StoredWhole DEF BaseAt, PcAt
  <2>2. ip' = o + 4 /\ thumb' = Home /\ stack' = stack /\ regs' = Regs(r, to, y, lr)
    BY <1>2, <1>5, <1>6, <1>14, <2>1, StepLdr
  <2>3. A32Next(inst, to, pcv, o, r, x, y, lr)
    BY <1>2, <1>7, <1>14, <2>1, <2>2 DEF A32Next, A32Mid
  <2>4. ip' > o /\ ip' < o + Len(s) /\ thumb' = Home
    BY <1>2, <1>7, <1>14, <2>1, <2>2
  <2>5. QED
    BY <2>3, <2>4
<1>15. CASE ip = o + 4 /\ regs = Regs(r, to, y, lr) /\ stack = Saved(x, Lost, Lost) /\ (~ inst.c \/ flag)
  <2>1. ip' = o + 6 /\ thumb' = Home /\ stack' = stack /\ regs' = regs
    BY <1>2, <1>5, <1>6, <1>15, StepB DEF PcAt
  <2>2. A32Next(inst, to, pcv, o, r, x, y, lr)
    BY <1>2, <1>7, <1>15, <2>1 DEF A32Next, A32Mid
  <2>3. ip' > o /\ ip' < o + Len(s) /\ thumb' = Home
    BY <1>2, <1>7, <1>15, <2>1
  <2>4. QED
    BY <2>2, <2>3
<1>16. CASE ip = o + 6 /\ regs = Regs(r, to, y, lr) /\ stack = Saved(x, Lost, Lost) /\ (~ inst.c \/ flag)
  <2>1. Loaded(IF "x" = "r" THEN r ELSE to, inst.len) = Content(to.of, inst.len)
    BY DEF LoadsWell
  <2>2. ip' = o + 7 /\ thumb' = Home /\ stack' = stack /\ regs' = Regs(r, Content(to.of, inst.len), y, lr)
    BY <1>2, <1>5, <1>6, <1>16, <2>1, StepLoad
  <2>3. A32Next(inst, to, pcv, o, r, x, y, lr)
    BY <1>2, <1>7, <1>16, <2>1, <2>2 DEF A32Next, A32Mid
  <2>4. ip' > o /\ ip' < o + Len(s) /\ thumb' = Home
    BY <1>2, <1>7, <1>16, <2>1, <2>2
  <2>5. QED
    BY <2>3, <2>4
<1>17. CASE ip = o + 7 /\ regs = Regs(r, Content(to.of, inst.len), y, lr) /\ stack = Saved(x, Lost, Lost) /\ (~ inst.c \/ flag)
  <2>1. ip' = o + 8 /\ thumb' = Home /\ regs' = regs /\ stack' = Saved(x, Lost, Content(to.of, inst.len))
    BY <1>2, <1>5, <1>6, <1>17, StepStore
  <2>2. A32Next(inst, to, pcv, o, r, x, y, lr)
    BY <1>2, <1>7, <1>17, <2>1 DEF A32Next, A32Mid
  <2>3. ip' > o /\ ip' < o + Len(s) /\ thumb' = Home
    BY <1>2, <1>7, <1>17, <2>1
  <2>4. QED
    BY <2>2, <2>3
<1>18. CASE ip = o + 8 /\ regs = Regs(r, Content(to.of, inst.len), y, lr) /\ stack = Saved(x, Lost, Content(to.of, inst.len)) /\ (~ inst.c \/ flag)
  <2>1. ip' = Dest(Content(to.of, inst.len)) /\ thumb' = Content(to.of, inst.len).t /\ regs' = Regs(r, x, y, lr)
    BY <1>2, <1>5, <1>6, <1>18, StepPopPc
  <2>2. ip' = Pointee /\ thumb' = FALSE
    BY <2>1, DestContent
  <2>3. ~ Skips(inst, flag)
    BY <1>7, <1>18 DEF Skips
  <2>4. ip' = Address(Pointee, FALSE).of /\ thumb' = Address(Pointee, FALSE).t
    BY <2>1, <2>2, AddressFields
  <2>5. QED
    BY <1>2, <1>7, <2>1, <2>2, <2>3, <2>4 DEF Done
<1>19. QED
  BY <1>11, <1>12, <1>13, <1>14, <1>15, <1>16, <1>17, <1>18 DEF A32Now, A32Mid

LEMMA A32LDRStep ==
  ASSUME Execute, fn.arch = "arm", NEW inst \in A32!Insts, inst.kind = "LDR", NEW inHead \in BOOLEAN,
         NEW to, to.is = "address", NEW pcv, IsPc(pcv), NEW s, NEW o, CodeAt(o, s),
         s = A32!Rewrite(inst, to, inHead, pcv), s # << >>,
         NEW r, NEW x, NEW y, NEW lr, A32Now(inst, to, pcv, o, r, x, y, lr),
         LoadsWell(to, inst.len)
  PROVE  \/ A32Next(inst, to, pcv, o, r, x, y, lr) /\ thumb' = Home /\ ip' > o /\ ip' < o + Len(s)
         \/ Done(inst, to, pcv, flag, o + Len(s), r, x, y, lr, ip', thumb', regs')
<1>0. A32LDRWords(inst, to, s)
  BY A32LDR, Zenon
<1>1. /\ Len(s) = 6
      /\ s[1] = BIf(inst.c, 0) /\ s[2] = B(3) /\ s[3] = Ldr("r", 0) /\ s[4] = B(0)
      /\ s[5] = Data("whole", to) /\ s[6] = Load("r", "r", inst.len)
  BY <1>0 DEF A32LDRWords
<1>2. o \in Nat /\ Len(s) = 6 /\ Fetch(o + 6).op # "second"
  BY <1>1 DEF CodeAt
<1>3. /\ (Len(s) > 0 => Fetch(o) = s[1]) /\ (Len(s) > 1 => Fetch(o + 1) = s[2])
      /\ (Len(s) > 2 => Fetch(o + 2) = s[3]) /\ (Len(s) > 3 => Fetch(o + 3) = s[4])
      /\ (Len(s) > 4 => Fetch(o + 4) = s[5]) /\ (Len(s) > 5 => Fetch(o + 5) = s[6])
  BY CodeWords, Zenon
<1>4. /\ Fetch(o) = s[1] /\ Fetch(o + 1) = s[2] /\ Fetch(o + 2) = s[3] /\ Fetch(o + 3) = s[4]
      /\ Fetch(o + 4) = s[5] /\ Fetch(o + 5) = s[6]
  BY <1>2, <1>3
<1>5. /\ Fetch(o) = BIf(inst.c, 0) /\ Fetch(o + 1) = B(3) /\ Fetch(o + 2) = Ldr("r", 0)
      /\ Fetch(o + 3) = B(0) /\ Fetch(o + 4) = Data("whole", to)
      /\ Fetch(o + 5) = Load("r", "r", inst.len)
  BY <1>1, <1>4
<1>6. /\ Fetch(o).op # "second" /\ Fetch(o + 1).op # "second" /\ Fetch(o + 2).op # "second"
      /\ Fetch(o + 3).op # "second" /\ Fetch(o + 4).op # "second"
      /\ Fetch(o + 5).op # "second" /\ Fetch(o + 6).op # "second"
  BY <1>2, <1>5, WordOps
<1>7. inst.c \in BOOLEAN /\ Home = FALSE
  BY DEF A32!Insts, A32!InstsOf, Home
<1>11. CASE ip = o /\ regs = Regs(r, x, y, lr)
  <2>1. CASE (~ inst.c \/ flag)
    <3>1. ip' = o + 2 /\ thumb' = Home /\ stack' = stack /\ regs' = regs
      BY <1>2, <1>5, <1>6, <1>11, <1>7, <2>1, StepBIfOn DEF PcAt
    <3>2. A32Next(inst, to, pcv, o, r, x, y, lr)
      BY <1>2, <1>7, <1>11, <2>1, <3>1 DEF A32Next, A32Mid
    <3>3. ip' > o /\ ip' < o + Len(s) /\ thumb' = Home
      BY <1>2, <1>7, <1>11, <2>1, <3>1
    <3>4. QED
      BY <3>2, <3>3
  <2>2. CASE (inst.c /\ ~ flag)
    <3>1. ip' = o + 1 /\ thumb' = Home /\ stack' = stack /\ regs' = regs
      BY <1>2, <1>5, <1>6, <1>11, <1>7, <2>2, StepBIfOff
    <3>2. A32Next(inst, to, pcv, o, r, x, y, lr)
      BY <1>2, <1>7, <1>11, <2>2, <3>1 DEF A32Next, A32Mid
    <3>3. ip' > o /\ ip' < o + Len(s) /\ thumb' = Home
      BY <1>2, <1>7, <1>11, <2>2, <3>1
    <3>4. QED
      BY <3>2, <3>3
  <2>3. QED
    BY <2>1, <2>2, <1>7
<1>12. CASE ip = o + 1 /\ regs = Regs(r, x, y, lr) /\ inst.c /\ ~ flag
  <2>1. ip' = o + 6 /\ thumb' = Home /\ stack' = stack /\ regs' = regs
    BY <1>2, <1>5, <1>6, <1>12, StepB DEF PcAt
  <2>2. QED
    BY <1>2, <1>7, <1>12, <2>1 DEF Done, Skips, Branches
<1>13. CASE ip = o + 2 /\ regs = Regs(r, x, y, lr) /\ (~ inst.c \/ flag)
  <2>1. Stored(BaseAt(fn.arch, o + 2) + 0) = to
    BY <1>2, <1>5, StoredWhole DEF BaseAt, PcAt
  <2>2. ip' = o + 3 /\ thumb' = Home /\ stack' = stack /\ regs' = Regs(to, x, y, lr)
    BY <1>2, <1>5, <1>6, <1>13, <2>1, StepLdr
  <2>3. A32Next(inst, to, pcv, o, r, x, y, lr)
    BY <1>2, <1>7, <1>13, <2>1, <2>2 DEF A32Next, A32Mid
  <2>4. ip' > o /\ ip' < o + Len(s) /\ thumb' = Home
    BY <1>2, <1>7, <1>13, <2>1, <2>2
  <2>5. QED
    BY <2>3, <2>4
<1>14. CASE ip = o + 3 /\ regs = Regs(to, x, y, lr) /\ (~ inst.c \/ flag)
  <2>1. ip' = o + 5 /\ thumb' = Home /\ stack' = stack /\ regs' = regs
    BY <1>2, <1>5, <1>6, <1>14, StepB DEF PcAt
  <2>2. A32Next(inst, to, pcv, o, r, x, y, lr)
    BY <1>2, <1>7, <1>14, <2>1 DEF A32Next, A32Mid
  <2>3. ip' > o /\ ip' < o + Len(s) /\ thumb' = Home
    BY <1>2, <1>7, <1>14, <2>1
  <2>4. QED
    BY <2>2, <2>3
<1>15. CASE ip = o + 5 /\ regs = Regs(to, x, y, lr) /\ (~ inst.c \/ flag)
  <2>1. ip' = o + 6 /\ thumb' = Home /\ stack' = stack /\ regs' = Regs(Content(to.of, inst.len), x, y, lr)
    BY <1>2, <1>5, <1>6, <1>15, StepLoadSame
  <2>2. QED
    BY <1>2, <1>7, <1>15, <2>1 DEF Done, Skips, Branches
<1>16. QED
  BY <1>11, <1>12, <1>13, <1>14, <1>15 DEF A32Now, A32Mid

LEMMA A32LDRREGPCStep ==
  ASSUME Execute, fn.arch = "arm", NEW inst \in A32!Insts, inst.kind = "LDR_REG_PC", NEW inHead \in BOOLEAN,
         NEW to, to.is = "address", NEW pcv, IsPc(pcv), NEW s, NEW o, CodeAt(o, s),
         s = A32!Rewrite(inst, to, inHead, pcv), s # << >>,
         NEW r, NEW x, NEW y, NEW lr, A32Now(inst, to, pcv, o, r, x, y, lr),
         LoadsWell(pcv, inst.len)
  PROVE  \/ A32Next(inst, to, pcv, o, r, x, y, lr) /\ thumb' = Home /\ ip' > o /\ ip' < o + Len(s)
         \/ Done(inst, to, pcv, flag, o + Len(s), r, x, y, lr, ip', thumb', regs')
<1>1. /\ Len(s) = 9
      /\ s[1] = BIf(inst.c, 0) /\ s[2] = B(6) /\ s[3] = Push("xy") /\ s[4] = Ldr("x", 0)
      /\ s[5] = B(0) /\ s[6] = Data("whole", pcv) /\ s[7] = Load("y", "x", inst.len)
      /\ s[8] = Store("y") /\ s[9] = Pop("xypc")
  BY A32LDRREGPC
<1>2. o \in Nat /\ Len(s) = 9 /\ Fetch(o + 9).op # "second"
  BY <1>1 DEF CodeAt
<1>3. /\ (Len(s) > 0 => Fetch(o) = s[1]) /\ (Len(s) > 1 => Fetch(o + 1) = s[2])
      /\ (Len(s) > 2 => Fetch(o + 2) = s[3]) /\ (Len(s) > 3 => Fetch(o + 3) = s[4])
      /\ (Len(s) > 4 => Fetch(o + 4) = s[5])
  BY CodeWords, Zenon
<1>8. /\ (Len(s) > 5 => Fetch(o + 5) = s[6]) /\ (Len(s) > 6 => Fetch(o + 6) = s[7])
      /\ (Len(s) > 7 => Fetch(o + 7) = s[8]) /\ (Len(s) > 8 => Fetch(o + 8) = s[9])
  BY CodeWords, Zenon
<1>4. /\ Fetch(o) = s[1] /\ Fetch(o + 1) = s[2] /\ Fetch(o + 2) = s[3] /\ Fetch(o + 3) = s[4]
      /\ Fetch(o + 4) = s[5] /\ Fetch(o + 5) = s[6] /\ Fetch(o + 6) = s[7]
      /\ Fetch(o + 7) = s[8] /\ Fetch(o + 8) = s[9]
  BY <1>2, <1>3, <1>8
<1>5. /\ Fetch(o) = BIf(inst.c, 0) /\ Fetch(o + 1) = B(6) /\ Fetch(o + 2) = Push("xy")
      /\ Fetch(o + 3) = Ldr("x", 0) /\ Fetch(o + 4) = B(0)
      /\ Fetch(o + 5) = Data("whole", pcv) /\ Fetch(o + 6) = Load("y", "x", inst.len)
      /\ Fetch(o + 7) = Store("y") /\ Fetch(o + 8) = Pop("xypc")
  BY <1>1, <1>4
<1>6. /\ Fetch(o).op # "second" /\ Fetch(o + 1).op # "second" /\ Fetch(o + 2).op # "second"
      /\ Fetch(o + 3).op # "second" /\ Fetch(o + 4).op # "second"
      /\ Fetch(o + 5).op # "second" /\ Fetch(o + 6).op # "second"
      /\ Fetch(o + 7).op # "second" /\ Fetch(o + 8).op # "second"
      /\ Fetch(o + 9).op # "second"
  BY <1>2, <1>5, WordOps
<1>7. inst.c \in BOOLEAN /\ Home = FALSE
  BY DEF A32!Insts, A32!InstsOf, Home
<1>11. CASE ip = o /\ regs = Regs(r, x, y, lr)
  <2>1. CASE (~ inst.c \/ flag)
    <3>1. ip' = o + 2 /\ thumb' = Home /\ stack' = stack /\ regs' = regs
      BY <1>2, <1>5, <1>6, <1>11, <1>7, <2>1, StepBIfOn DEF PcAt
    <3>2. A32Next(inst, to, pcv, o, r, x, y, lr)
      BY <1>2, <1>7, <1>11, <2>1, <3>1 DEF A32Next, A32Mid
    <3>3. ip' > o /\ ip' < o + Len(s) /\ thumb' = Home
      BY <1>2, <1>7, <1>11, <2>1, <3>1
    <3>4. QED
      BY <3>2, <3>3
  <2>2. CASE (inst.c /\ ~ flag)
    <3>1. ip' = o + 1 /\ thumb' = Home /\ stack' = stack /\ regs' = regs
      BY <1>2, <1>5, <1>6, <1>11, <1>7, <2>2, StepBIfOff
    <3>2. A32Next(inst, to, pcv, o, r, x, y, lr)
      BY <1>2, <1>7, <1>11, <2>2, <3>1 DEF A32Next, A32Mid
    <3>3. ip' > o /\ ip' < o + Len(s) /\ thumb' = Home
      BY <1>2, <1>7, <1>11, <2>2, <3>1
    <3>4. QED
      BY <3>2, <3>3
  <2>3. QED
    BY <2>1, <2>2, <1>7
<1>12. CASE ip = o + 1 /\ regs = Regs(r, x, y, lr) /\ inst.c /\ ~ flag
  <2>1. ip' = o + 9 /\ thumb' = Home /\ stack' = stack /\ regs' = regs
    BY <1>2, <1>5, <1>6, <1>12, StepB DEF PcAt
  <2>2. QED
    BY <1>2, <1>7, <1>12, <2>1 DEF Done, Skips, Branches
<1>13. CASE ip = o + 2 /\ regs = Regs(r, x, y, lr) /\ (~ inst.c \/ flag)
  <2>1. ip' = o + 3 /\ thumb' = Home /\ regs' = regs /\ stack' = Saved(x, y, Lost)
    BY <1>2, <1>5, <1>6, <1>13, StepPush
  <2>2. A32Next(inst, to, pcv, o, r, x, y, lr)
    BY <1>2, <1>7, <1>13, <2>1 DEF A32Next, A32Mid
  <2>3. ip' > o /\ ip' < o + Len(s) /\ thumb' = Home
    BY <1>2, <1>7, <1>13, <2>1
  <2>4. QED
    BY <2>2, <2>3
<1>14. CASE ip = o + 3 /\ regs = Regs(r, x, y, lr) /\ stack = Saved(x, y, Lost) /\ (~ inst.c \/ flag)
  <2>1. Stored(BaseAt(fn.arch, o + 3) + 0) = pcv
    BY <1>2, <1>5, StoredWhole DEF BaseAt, PcAt
  <2>2. ip' = o + 4 /\ thumb' = Home /\ stack' = stack /\ regs' = Regs(r, pcv, y, lr)
    BY <1>2, <1>5, <1>6, <1>14, <2>1, StepLdr
  <2>3. A32Next(inst, to, pcv, o, r, x, y, lr)
    BY <1>2, <1>7, <1>14, <2>1, <2>2 DEF A32Next, A32Mid
  <2>4. ip' > o /\ ip' < o + Len(s) /\ thumb' = Home
    BY <1>2, <1>7, <1>14, <2>1, <2>2
  <2>5. QED
    BY <2>3, <2>4
<1>15. CASE ip = o + 4 /\ regs = Regs(r, pcv, y, lr) /\ stack = Saved(x, y, Lost) /\ (~ inst.c \/ flag)
  <2>1. ip' = o + 6 /\ thumb' = Home /\ stack' = stack /\ regs' = regs
    BY <1>2, <1>5, <1>6, <1>15, StepB DEF PcAt
  <2>2. A32Next(inst, to, pcv, o, r, x, y, lr)
    BY <1>2, <1>7, <1>15, <2>1 DEF A32Next, A32Mid
  <2>3. ip' > o /\ ip' < o + Len(s) /\ thumb' = Home
    BY <1>2, <1>7, <1>15, <2>1
  <2>4. QED
    BY <2>2, <2>3
<1>16. CASE ip = o + 6 /\ regs = Regs(r, pcv, y, lr) /\ stack = Saved(x, y, Lost) /\ (~ inst.c \/ flag)
  <2>1. Loaded(IF "x" = "r" THEN r ELSE pcv, inst.len) = Content(pcv.of, inst.len)
    BY DEF LoadsWell
  <2>2. ip' = o + 7 /\ thumb' = Home /\ stack' = stack /\ regs' = Regs(r, pcv, Content(pcv.of, inst.len), lr)
    BY <1>2, <1>5, <1>6, <1>16, <2>1, StepLoad
  <2>3. A32Next(inst, to, pcv, o, r, x, y, lr)
    BY <1>2, <1>7, <1>16, <2>1, <2>2 DEF A32Next, A32Mid
  <2>4. ip' > o /\ ip' < o + Len(s) /\ thumb' = Home
    BY <1>2, <1>7, <1>16, <2>1, <2>2
  <2>5. QED
    BY <2>3, <2>4
<1>17. CASE ip = o + 7 /\ regs = Regs(r, pcv, Content(pcv.of, inst.len), lr) /\ stack = Saved(x, y, Lost) /\ (~ inst.c \/ flag)
  <2>1. ip' = o + 8 /\ thumb' = Home /\ regs' = regs /\ stack' = Saved(x, y, Content(pcv.of, inst.len))
    BY <1>2, <1>5, <1>6, <1>17, StepStore
  <2>2. A32Next(inst, to, pcv, o, r, x, y, lr)
    BY <1>2, <1>7, <1>17, <2>1 DEF A32Next, A32Mid
  <2>3. ip' > o /\ ip' < o + Len(s) /\ thumb' = Home
    BY <1>2, <1>7, <1>17, <2>1
  <2>4. QED
    BY <2>2, <2>3
<1>18. CASE ip = o + 8 /\ regs = Regs(r, pcv, Content(pcv.of, inst.len), lr) /\ stack = Saved(x, y, Content(pcv.of, inst.len)) /\ (~ inst.c \/ flag)
  <2>1. ip' = Dest(Content(pcv.of, inst.len)) /\ thumb' = Content(pcv.of, inst.len).t /\ regs' = Regs(r, x, y, lr)
    BY <1>2, <1>5, <1>6, <1>18, StepPopPc
  <2>2. ip' = Pointee /\ thumb' = FALSE
    BY <2>1, DestContent
  <2>3. ~ Skips(inst, flag)
    BY <1>7, <1>18 DEF Skips
  <2>4. ip' = Address(Pointee, FALSE).of /\ thumb' = Address(Pointee, FALSE).t
    BY <2>1, <2>2, AddressFields
  <2>5. QED
    BY <1>2, <1>7, <2>1, <2>2, <2>3, <2>4 DEF Done
<1>19. QED
  BY <1>11, <1>12, <1>13, <1>14, <1>15, <1>16, <1>17, <1>18 DEF A32Now, A32Mid

LEMMA A32LDRREGStep ==
  ASSUME Execute, fn.arch = "arm", NEW inst \in A32!Insts, inst.kind = "LDR_REG", NEW inHead \in BOOLEAN,
         NEW to, to.is = "address", NEW pcv, IsPc(pcv), NEW s, NEW o, CodeAt(o, s),
         s = A32!Rewrite(inst, to, inHead, pcv), s # << >>,
         NEW r, NEW x, NEW y, NEW lr, A32Now(inst, to, pcv, o, r, x, y, lr),
         LoadsWell(pcv, inst.len)
  PROVE  \/ A32Next(inst, to, pcv, o, r, x, y, lr) /\ thumb' = Home /\ ip' > o /\ ip' < o + Len(s)
         \/ Done(inst, to, pcv, flag, o + Len(s), r, x, y, lr, ip', thumb', regs')
<1>1. /\ Len(s) = 8
      /\ s[1] = BIf(inst.c, 0) /\ s[2] = B(5) /\ s[3] = Push("x") /\ s[4] = Ldr("x", 0)
      /\ s[5] = B(0) /\ s[6] = Data("whole", pcv) /\ s[7] = Load("r", "x", inst.len)
      /\ s[8] = Pop("x")
  BY A32LDRREG
<1>2. o \in Nat /\ Len(s) = 8 /\ Fetch(o + 8).op # "second"
  BY <1>1 DEF CodeAt
<1>3. /\ (Len(s) > 0 => Fetch(o) = s[1]) /\ (Len(s) > 1 => Fetch(o + 1) = s[2])
      /\ (Len(s) > 2 => Fetch(o + 2) = s[3]) /\ (Len(s) > 3 => Fetch(o + 3) = s[4])
      /\ (Len(s) > 4 => Fetch(o + 4) = s[5])
  BY CodeWords, Zenon
<1>8. /\ (Len(s) > 5 => Fetch(o + 5) = s[6]) /\ (Len(s) > 6 => Fetch(o + 6) = s[7])
      /\ (Len(s) > 7 => Fetch(o + 7) = s[8])
  BY CodeWords, Zenon
<1>4. /\ Fetch(o) = s[1] /\ Fetch(o + 1) = s[2] /\ Fetch(o + 2) = s[3] /\ Fetch(o + 3) = s[4]
      /\ Fetch(o + 4) = s[5] /\ Fetch(o + 5) = s[6] /\ Fetch(o + 6) = s[7]
      /\ Fetch(o + 7) = s[8]
  BY <1>2, <1>3, <1>8
<1>5. /\ Fetch(o) = BIf(inst.c, 0) /\ Fetch(o + 1) = B(5) /\ Fetch(o + 2) = Push("x")
      /\ Fetch(o + 3) = Ldr("x", 0) /\ Fetch(o + 4) = B(0)
      /\ Fetch(o + 5) = Data("whole", pcv) /\ Fetch(o + 6) = Load("r", "x", inst.len)
      /\ Fetch(o + 7) = Pop("x")
  BY <1>1, <1>4
<1>6. /\ Fetch(o).op # "second" /\ Fetch(o + 1).op # "second" /\ Fetch(o + 2).op # "second"
      /\ Fetch(o + 3).op # "second" /\ Fetch(o + 4).op # "second"
      /\ Fetch(o + 5).op # "second" /\ Fetch(o + 6).op # "second"
      /\ Fetch(o + 7).op # "second" /\ Fetch(o + 8).op # "second"
  BY <1>2, <1>5, WordOps
<1>7. inst.c \in BOOLEAN /\ Home = FALSE
  BY DEF A32!Insts, A32!InstsOf, Home
<1>11. CASE ip = o /\ regs = Regs(r, x, y, lr)
  <2>1. CASE (~ inst.c \/ flag)
    <3>1. ip' = o + 2 /\ thumb' = Home /\ stack' = stack /\ regs' = regs
      BY <1>2, <1>5, <1>6, <1>11, <1>7, <2>1, StepBIfOn DEF PcAt
    <3>2. A32Next(inst, to, pcv, o, r, x, y, lr)
      BY <1>2, <1>7, <1>11, <2>1, <3>1 DEF A32Next, A32Mid
    <3>3. ip' > o /\ ip' < o + Len(s) /\ thumb' = Home
      BY <1>2, <1>7, <1>11, <2>1, <3>1
    <3>4. QED
      BY <3>2, <3>3
  <2>2. CASE (inst.c /\ ~ flag)
    <3>1. ip' = o + 1 /\ thumb' = Home /\ stack' = stack /\ regs' = regs
      BY <1>2, <1>5, <1>6, <1>11, <1>7, <2>2, StepBIfOff
    <3>2. A32Next(inst, to, pcv, o, r, x, y, lr)
      BY <1>2, <1>7, <1>11, <2>2, <3>1 DEF A32Next, A32Mid
    <3>3. ip' > o /\ ip' < o + Len(s) /\ thumb' = Home
      BY <1>2, <1>7, <1>11, <2>2, <3>1
    <3>4. QED
      BY <3>2, <3>3
  <2>3. QED
    BY <2>1, <2>2, <1>7
<1>12. CASE ip = o + 1 /\ regs = Regs(r, x, y, lr) /\ inst.c /\ ~ flag
  <2>1. ip' = o + 8 /\ thumb' = Home /\ stack' = stack /\ regs' = regs
    BY <1>2, <1>5, <1>6, <1>12, StepB DEF PcAt
  <2>2. QED
    BY <1>2, <1>7, <1>12, <2>1 DEF Done, Skips, Branches
<1>13. CASE ip = o + 2 /\ regs = Regs(r, x, y, lr) /\ (~ inst.c \/ flag)
  <2>1. ip' = o + 3 /\ thumb' = Home /\ regs' = regs /\ stack' = Saved(x, Lost, Lost)
    BY <1>2, <1>5, <1>6, <1>13, StepPush
  <2>2. A32Next(inst, to, pcv, o, r, x, y, lr)
    BY <1>2, <1>7, <1>13, <2>1 DEF A32Next, A32Mid
  <2>3. ip' > o /\ ip' < o + Len(s) /\ thumb' = Home
    BY <1>2, <1>7, <1>13, <2>1
  <2>4. QED
    BY <2>2, <2>3
<1>14. CASE ip = o + 3 /\ regs = Regs(r, x, y, lr) /\ stack = Saved(x, Lost, Lost) /\ (~ inst.c \/ flag)
  <2>1. Stored(BaseAt(fn.arch, o + 3) + 0) = pcv
    BY <1>2, <1>5, StoredWhole DEF BaseAt, PcAt
  <2>2. ip' = o + 4 /\ thumb' = Home /\ stack' = stack /\ regs' = Regs(r, pcv, y, lr)
    BY <1>2, <1>5, <1>6, <1>14, <2>1, StepLdr
  <2>3. A32Next(inst, to, pcv, o, r, x, y, lr)
    BY <1>2, <1>7, <1>14, <2>1, <2>2 DEF A32Next, A32Mid
  <2>4. ip' > o /\ ip' < o + Len(s) /\ thumb' = Home
    BY <1>2, <1>7, <1>14, <2>1, <2>2
  <2>5. QED
    BY <2>3, <2>4
<1>15. CASE ip = o + 4 /\ regs = Regs(r, pcv, y, lr) /\ stack = Saved(x, Lost, Lost) /\ (~ inst.c \/ flag)
  <2>1. ip' = o + 6 /\ thumb' = Home /\ stack' = stack /\ regs' = regs
    BY <1>2, <1>5, <1>6, <1>15, StepB DEF PcAt
  <2>2. A32Next(inst, to, pcv, o, r, x, y, lr)
    BY <1>2, <1>7, <1>15, <2>1 DEF A32Next, A32Mid
  <2>3. ip' > o /\ ip' < o + Len(s) /\ thumb' = Home
    BY <1>2, <1>7, <1>15, <2>1
  <2>4. QED
    BY <2>2, <2>3
<1>16. CASE ip = o + 6 /\ regs = Regs(r, pcv, y, lr) /\ stack = Saved(x, Lost, Lost) /\ (~ inst.c \/ flag)
  <2>1. Loaded(IF "x" = "r" THEN r ELSE pcv, inst.len) = Content(pcv.of, inst.len)
    BY DEF LoadsWell
  <2>2. ip' = o + 7 /\ thumb' = Home /\ stack' = stack /\ regs' = Regs(Content(pcv.of, inst.len), pcv, y, lr)
    BY <1>2, <1>5, <1>6, <1>16, <2>1, StepLoad
  <2>3. A32Next(inst, to, pcv, o, r, x, y, lr)
    BY <1>2, <1>7, <1>16, <2>1, <2>2 DEF A32Next, A32Mid
  <2>4. ip' > o /\ ip' < o + Len(s) /\ thumb' = Home
    BY <1>2, <1>7, <1>16, <2>1, <2>2
  <2>5. QED
    BY <2>3, <2>4
<1>17. CASE ip = o + 7 /\ regs = Regs(Content(pcv.of, inst.len), pcv, y, lr) /\ stack = Saved(x, Lost, Lost) /\ (~ inst.c \/ flag)
  <2>1. ip' = o + 8 /\ thumb' = Home /\ stack' = stack /\ regs' = Regs(Content(pcv.of, inst.len), x, y, lr)
    BY <1>2, <1>5, <1>6, <1>17, StepPopX
  <2>2. QED
    BY <1>2, <1>7, <1>17, <2>1 DEF Done, Skips, Branches
<1>18. QED
  BY <1>11, <1>12, <1>13, <1>14, <1>15, <1>16, <1>17 DEF A32Now, A32Mid

LEMMA A32IGNOREDStep ==
  ASSUME Execute, fn.arch = "arm", NEW inst \in A32!Insts, inst.kind = "IGNORED", NEW inHead \in BOOLEAN,
         NEW to, to.is = "address", NEW pcv, IsPc(pcv), NEW s, NEW o, CodeAt(o, s),
         s = A32!Rewrite(inst, to, inHead, pcv), s # << >>,
         NEW r, NEW x, NEW y, NEW lr, A32Now(inst, to, pcv, o, r, x, y, lr)
  PROVE  \/ A32Next(inst, to, pcv, o, r, x, y, lr) /\ thumb' = Home /\ ip' > o /\ ip' < o + Len(s)
         \/ Done(inst, to, pcv, flag, o + Len(s), r, x, y, lr, ip', thumb', regs')
<1>1. /\ Len(s) = 1
      /\ s[1] = Plain(inst)
  BY A32IGNORED
<1>2. o \in Nat /\ Len(s) = 1 /\ Fetch(o + 1).op # "second"
  BY <1>1 DEF CodeAt
<1>3. /\ (Len(s) > 0 => Fetch(o) = s[1])
  BY CodeWords, Zenon
<1>4. /\ Fetch(o) = s[1]
  BY <1>2, <1>3
<1>5. /\ Fetch(o) = Plain(inst)
  BY <1>1, <1>4
<1>6. /\ Fetch(o).op # "second" /\ Fetch(o + 1).op # "second"
  BY <1>2, <1>5, WordOps
<1>7. inst.c \in BOOLEAN /\ Home = FALSE
  BY DEF A32!Insts, A32!InstsOf, Home
<1>11. CASE ip = o /\ regs = Regs(r, x, y, lr)
  <2>1. Fetch(o) = Word("plain", "r", "-", inst.imm, inst.c)
    BY <1>5 DEF Plain
  <2>2. CASE (~ inst.c \/ flag)
    <3>1. ip' = o + 1 /\ thumb' = Home /\ stack' = stack /\ regs' = Regs(Computed(inst.imm), x, y, lr)
      BY <1>2, <1>5, <1>6, <1>11, <1>7, <2>2, StepPlainOn
    <3>2. QED
      BY <1>2, <1>7, <1>11, <2>1, <2>2, <3>1 DEF Done, Skips, Branches
  <2>3. CASE (inst.c /\ ~ flag)
    <3>1. ip' = o + 1 /\ thumb' = Home /\ stack' = stack /\ regs' = regs
      BY <1>2, <1>5, <1>6, <1>11, <1>7, <2>1, <2>3, StepPlainOff
    <3>2. QED
      BY <1>2, <1>7, <1>11, <2>1, <2>3, <3>1 DEF Done, Skips, Branches
  <2>4. QED
    BY <2>2, <2>3, <1>7
<1>12. QED
  BY <1>11 DEF A32Now, A32Mid

LEMMA A32Step ==
  ASSUME Execute, fn.arch = "arm", NEW inst \in A32!Insts, NEW inHead \in BOOLEAN,
         NEW to, to.is = "address", NEW pcv, IsPc(pcv), NEW s, NEW o, CodeAt(o, s),
         s = A32!Rewrite(inst, to, inHead, pcv), s # << >>,
         NEW r, NEW x, NEW y, NEW lr, A32Now(inst, to, pcv, o, r, x, y, lr),
         inst.kind \in {"LDR_PC", "LDR"} => LoadsWell(to, inst.len),
         inst.kind \in {"LDR_REG_PC", "LDR_REG"} => LoadsWell(pcv, inst.len)
  PROVE  \/ A32Next(inst, to, pcv, o, r, x, y, lr) /\ thumb' = Home /\ ip' > o /\ ip' < o + Len(s)
         \/ Done(inst, to, pcv, flag, o + Len(s), r, x, y, lr, ip', thumb', regs')
<1>1. inst.kind \in {"B", "BX", "BL", "BLX", "ADD_PC", "ADD", "MOV", "MOV_PC", "ADR", "LDR_PC", "LDR", "LDR_REG_PC", "LDR_REG", "IGNORED"}
  BY DEF A32!Insts, A32!InstsOf
<1>2. CASE inst.kind = "B"
  BY <1>2, A32BStep
<1>3. CASE inst.kind = "BX"
  BY <1>3, A32BXStep
<1>4. CASE inst.kind = "BL"
  BY <1>4, A32BLStep
<1>5. CASE inst.kind = "BLX"
  BY <1>5, A32BLXStep
<1>6. CASE inst.kind = "ADD_PC"
  BY <1>6, A32ADDPCStep
<1>7. CASE inst.kind = "ADD"
  BY <1>7, A32ADDStep
<1>8. CASE inst.kind = "MOV"
  BY <1>8, A32MOVStep
<1>9. CASE inst.kind = "MOV_PC"
  BY <1>9, A32MOVPCStep
<1>10. CASE inst.kind = "ADR"
  BY <1>10, A32ADRStep
<1>11. CASE inst.kind = "LDR_PC"
  BY <1>11, A32LDRPCStep
<1>12. CASE inst.kind = "LDR"
  BY <1>12, A32LDRStep
<1>13. CASE inst.kind = "LDR_REG_PC"
  BY <1>13, A32LDRREGPCStep
<1>14. CASE inst.kind = "LDR_REG"
  BY <1>14, A32LDRREGStep
<1>15. CASE inst.kind = "IGNORED"
  BY <1>15, A32IGNOREDStep
<1>16. QED
  BY <1>1, <1>2, <1>3, <1>4, <1>5, <1>6, <1>7, <1>8, <1>9, <1>10, <1>11, <1>12, <1>13, <1>14, <1>15
===============================================================================
