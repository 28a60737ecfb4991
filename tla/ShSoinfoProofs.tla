---------------------------- MODULE ShSoinfoProofs ----------------------------
(* Proofs about the scan of a soinfo, for a memory of any size and any     *)
(* words, with the two groups of fields anywhere in it.                    *)
EXTENDS ShSoinfo, TLAPS, WellFoundedInduction

LEMMA NatMinimum ==
  ASSUME NEW T, T \subseteq Nat, T # {}
  PROVE  \E n \in T : \A m \in T : n <= m
<1> DEFINE R == OpToRel(<, Nat)
<1>1. \E n \in T : \A m \in T : ~ (<<m, n>> \in R)
  BY WFMin, NatLessThanWellFounded
<1>2. \A m, n \in Nat : <<m, n>> \in R <=> m < n
  BY DEF OpToRel
<1> HIDE DEF R
<1>3. PICK n \in T : \A m \in T : ~ (<<m, n>> \in R)
  BY <1>1, Zenon
<1>4. \A m \in T : ~ (m < n)
  BY <1>2, <1>3, Zenon
<1>5. \A m \in T : n <= m
  BY <1>4
<1>6. QED
  BY <1>5

Start == [at |-> 0, phdr |-> NotFound, bias |-> NotFound]

(* The states of the scan: the recursive definition has a solution.        *)
IsRun(f, mem, n) ==
  f = [k \in 0 .. n |-> IF k = 0 THEN Start ELSE Turn(mem, f[k - 1])]

LEMMA RunExists ==
  ASSUME NEW mem, NEW n \in Nat
  PROVE  \E f : IsRun(f, mem, n)
<1> DEFINE T == {m \in Nat : ~ \E f : IsRun(f, mem, m)}
<1> SUFFICES ASSUME T # {} PROVE FALSE
  OBVIOUS
<1>1. PICK m \in T : \A i \in T : m <= i
  BY NatMinimum
<1>2. CASE m = 0
  <2> DEFINE f == [k \in 0 .. 0 |-> Start]
  <2>1. IsRun(f, mem, 0)
    BY DEF IsRun
  <2>2. QED
    BY <1>1, <1>2, <2>1
<1>3. CASE m > 0
  <2>1. m - 1 \in Nat /\ m - 1 \notin T
    BY <1>1, <1>3
  <2>2. PICK g : IsRun(g, mem, m - 1)
    BY <2>1
  <2> DEFINE f == [k \in 0 .. m |-> IF k = m THEN Turn(mem, g[m - 1]) ELSE g[k]]
  <2>3. \A k \in 0 .. m - 1 : g[k] = IF k = 0 THEN Start ELSE Turn(mem, g[k - 1])
    BY <2>2 DEF IsRun
  <2>4. \A k \in 0 .. m : f[k] = IF k = 0 THEN Start ELSE Turn(mem, f[k - 1])
    BY <2>1, <2>3, <1>3
  <2>5. IsRun(f, mem, m)
    BY <2>4 DEF IsRun
  <2>6. QED
    BY <1>1, <2>5
<1>4. QED
  BY <1>1, <1>2, <1>3

LEMMA ScanIsRun ==
  ASSUME NEW mem
  PROVE  \E f : IsRun(f, mem, ScanWords) /\ Scan(mem) = f[ScanWords]
<1> DEFINE after == CHOOSE f : f = [k \in 0 .. ScanWords |->
                                      IF k = 0 THEN Start ELSE Turn(mem, f[k - 1])]
<1>1. \E f : f = [k \in 0 .. ScanWords |-> IF k = 0 THEN Start ELSE Turn(mem, f[k - 1])]
  BY RunExists, SoinfoAssumption DEF IsRun
<1>2. after = [k \in 0 .. ScanWords |-> IF k = 0 THEN Start ELSE Turn(mem, after[k - 1])]
  BY <1>1
<1>3. Scan(mem) = after[ScanWords]
  BY DEF Scan, Start
<1>4. QED
  BY <1>2, <1>3 DEF IsRun

----------------------------------------------------------------------------
ScanState ==
  [at : Nat, phdr : Nat \cup {NotFound}, bias : Nat \cup {NotFound}]

(* What is said to be found is there, and can be read.                     *)
IsThere(mem, s) ==
  /\ s \in ScanState
  /\ s.phdr # NotFound => {s.phdr, s.phdr + 6} \subseteq DOMAIN mem /\ IsPhdr(mem, s.phdr)
  /\ s.bias # NotFound => {s.bias, s.bias + 6} \subseteq DOMAIN mem /\ IsLinkMap(mem, s.bias)

(* What is not found yet has not been passed.                              *)
IsAhead(phdr, bias, s) ==
  /\ s.phdr = phdr \/ (s.phdr = NotFound /\ s.at <= phdr)
  /\ s.bias = bias \/ (s.bias = NotFound /\ s.at <= bias)

LEMMA TurnIsThere ==
  ASSUME NEW mem, NEW last \in Nat, DOMAIN mem = 0 .. last, NEW s, IsThere(mem, s)
  PROVE  IsThere(mem, Turn(mem, s))
<1> USE SoinfoAssumption DEF IsThere, ScanState
<1>1. CASE Ends(mem, s)
  BY <1>1 DEF Turn
<1>2. CASE ~ Ends(mem, s)
  <2>1. s.at + 6 \in DOMAIN mem /\ s.at \in DOMAIN mem
    BY <1>2 DEF Ends
  <2>2. CASE s.phdr = NotFound /\ IsPhdr(mem, s.at)
    <3>1. Turn(mem, s) = [s EXCEPT !.phdr = s.at, !.at = @ + 2]
      BY <1>2, <2>2 DEF Turn
    <3>2. Turn(mem, s) = [at |-> s.at + 2, phdr |-> s.at, bias |-> s.bias]
      BY <3>1
    <3>3. QED
      BY <2>1, <2>2, <3>2
  <2>3. CASE ~ (s.phdr = NotFound /\ IsPhdr(mem, s.at)) /\ s.bias = NotFound /\ IsLinkMap(mem, s.at)
    <3>1. Turn(mem, s) = [s EXCEPT !.bias = s.at, !.at = @ + 7]
      BY <1>2, <2>3 DEF Turn
    <3>2. Turn(mem, s) = [at |-> s.at + 7, phdr |-> s.phdr, bias |-> s.at]
      BY <3>1
    <3>3. QED
      BY <2>1, <2>3, <3>2
  <2>4. CASE /\ ~ (s.phdr = NotFound /\ IsPhdr(mem, s.at))
             /\ ~ (s.bias = NotFound /\ IsLinkMap(mem, s.at))
    BY <1>2, <2>4 DEF Turn
  <2>5. QED
    BY <2>2, <2>3, <2>4
<1>3. QED
  BY <1>1, <1>2

LEMMA TurnAdvances ==
  ASSUME NEW mem, NEW s \in ScanState
  PROVE  (Ends(mem, s) /\ Turn(mem, s) = s) \/ Turn(mem, s).at >= s.at + 1
BY DEF Turn, ScanState

LEMMA TurnPassesNothing ==
  ASSUME NEW mem, NEW phdr, NEW bias, HasFields(mem, phdr, bias),
         NEW s, IsThere(mem, s), IsAhead(phdr, bias, s)
  PROVE  IsAhead(phdr, bias, Turn(mem, s))
<1> USE SoinfoAssumption
<1> DEFINE t == Turn(mem, s)
<1>1. PICK last \in DOMAIN mem : DOMAIN mem = 0 .. last
  BY DEF HasFields
<1>2. /\ phdr \in Nat /\ phdr \in DOMAIN mem /\ phdr + 6 \in DOMAIN mem
      /\ bias \in Nat /\ bias \in DOMAIN mem /\ bias + 6 \in DOMAIN mem
  BY <1>1 DEF HasFields
<1>3. IsPhdr(mem, phdr) /\ IsLinkMap(mem, bias)
  BY <1>2 DEF HasFields
<1>4. \A i \in DOMAIN mem : i + 6 \in DOMAIN mem =>
        (IsPhdr(mem, i) <=> i = phdr) /\ (IsLinkMap(mem, i) <=> i = bias)
  BY DEF HasFields
<1>5. bias # phdr /\ bias # phdr + 1 /\ (phdr < bias \/ phdr > bias + 6)
  BY <1>2, <1>3 DEF HasFields, IsPhdr, IsLinkMap
<1>6. s \in ScanState
  BY DEF IsThere
<1>7. CASE Ends(mem, s)
  BY <1>7 DEF Turn
<1>8. CASE ~ Ends(mem, s)
  <2>1. s.at \in Nat /\ s.at + 6 \in DOMAIN mem /\ s.at \in DOMAIN mem
    BY <1>1, <1>6, <1>8 DEF Ends, ScanState
  <2>2. CASE s.phdr = NotFound /\ IsPhdr(mem, s.at)
    <3>1. s.at = phdr /\ t = [s EXCEPT !.phdr = s.at, !.at = @ + 2]
      BY <1>4, <1>8, <2>1, <2>2 DEF Turn
    <3>2. t.phdr = phdr /\ t.at = phdr + 2 /\ t.bias = s.bias
      BY <1>6, <3>1 DEF ScanState
    <3>3. QED
      BY <1>2, <1>5, <3>1, <3>2 DEF IsAhead
  <2>3. CASE ~ (s.phdr = NotFound /\ IsPhdr(mem, s.at)) /\ s.bias = NotFound /\ IsLinkMap(mem, s.at)
    <3>1. s.at = bias /\ t = [s EXCEPT !.bias = s.at, !.at = @ + 7]
      BY <1>4, <1>8, <2>1, <2>3 DEF Turn
    <3>2. t.bias = bias /\ t.at = bias + 7 /\ t.phdr = s.phdr
      BY <1>6, <3>1 DEF ScanState
    <3>3. QED
      BY <1>2, <1>5, <3>1, <3>2 DEF IsAhead
  <2>4. CASE /\ ~ (s.phdr = NotFound /\ IsPhdr(mem, s.at))
             /\ ~ (s.bias = NotFound /\ IsLinkMap(mem, s.at))
    <3>1. t = [s EXCEPT !.at = @ + IF IsDull(mem, s.at) THEN 7 ELSE 1]
      BY <1>8, <2>4 DEF Turn
    <3>2. t.phdr = s.phdr /\ t.bias = s.bias /\ t.at = s.at + IF IsDull(mem, s.at) THEN 7 ELSE 1
      BY <1>6, <3>1 DEF ScanState
    <3>3. (s.phdr = NotFound => s.at # phdr) /\ (s.bias = NotFound => s.at # bias)
      BY <1>3, <2>4
    <3>4. IsDull(mem, s.at) => phdr \notin s.at .. s.at + 6 /\ bias \notin s.at .. s.at + 6
      <4> SUFFICES ASSUME IsDull(mem, s.at),
                          NEW i \in s.at .. s.at + 6, i \in {phdr, bias}
                   PROVE  FALSE
        BY <1>2
      <4>1. i - s.at \in 0 .. 6 /\ s.at + (i - s.at) = i
        BY <2>1
      <4>2. mem[i] \notin {"phdr", "bias"}
        BY <4>1 DEF IsDull
      <4>3. QED
        BY <1>3, <4>2 DEF IsPhdr, IsLinkMap
    <3>5. QED
      BY <1>2, <2>1, <3>2, <3>3, <3>4 DEF IsAhead
  <2>5. QED
    BY <2>2, <2>3, <2>4
<1>9. QED
  BY <1>7, <1>8

----------------------------------------------------------------------------
(* Whatever the memory is, the scan comes to an end of its own, and takes  *)
(* for the groups only what looks like them.                               *)
THEOREM ScanMakesUpNothing ==
  ASSUME NEW mem, NEW last \in Nat, DOMAIN mem = 0 .. last
  PROVE  IsThere(mem, Scan(mem)) /\ Ends(mem, Scan(mem))
<1>1. PICK f : IsRun(f, mem, ScanWords) /\ Scan(mem) = f[ScanWords]
  BY ScanIsRun
<1>2. \A k \in 0 .. ScanWords : f[k] = IF k = 0 THEN Start ELSE Turn(mem, f[k - 1])
  BY <1>1 DEF IsRun
<1> DEFINE Ok(k) == IsThere(mem, f[k]) /\ (Ends(mem, f[k]) \/ f[k].at >= k)
           T == {k \in 0 .. ScanWords : ~ Ok(k)}
<1>3. T = {}
  <2> SUFFICES ASSUME T # {} PROVE FALSE
    OBVIOUS
  <2>0. T \subseteq Nat
    BY SoinfoAssumption
  <2>1. PICK k \in T : \A i \in T : k <= i
    BY <2>0, NatMinimum
  <2>2. CASE k = 0
    <3>1. f[0] = Start
      BY <1>2, SoinfoAssumption
    <3>2. Ok(0)
      BY <3>1 DEF IsThere, ScanState, Start
    <3>3. QED
      BY <2>1, <2>2, <3>2
  <2>3. CASE k # 0
    <3>1. k - 1 \in 0 .. ScanWords /\ k - 1 \in Nat /\ k - 1 \notin T
      BY <2>1, <2>3, SoinfoAssumption
    <3>2. Ok(k - 1) /\ f[k] = Turn(mem, f[k - 1])
      BY <1>2, <2>1, <2>3, <3>1
    <3>3. IsThere(mem, f[k])
      BY <3>2, TurnIsThere
    <3>4. f[k - 1] \in ScanState
      BY <3>2 DEF IsThere
    <3>5. Ends(mem, f[k]) \/ f[k].at >= k
      <4>1. (Ends(mem, f[k - 1]) /\ f[k] = f[k - 1]) \/ f[k].at >= f[k - 1].at + 1
        BY <3>2, <3>4, TurnAdvances
      <4>2. CASE Ends(mem, f[k - 1])
        BY <3>2, <4>2 DEF Turn
      <4>3. CASE f[k - 1].at >= k - 1 /\ f[k].at >= f[k - 1].at + 1
        BY <3>1, <3>3, <3>4, <4>3 DEF IsThere, ScanState
      <4>4. QED
        BY <3>2, <4>1, <4>2, <4>3
    <3>6. QED
      BY <2>1, <3>3, <3>5
  <2>4. QED
    BY <2>2, <2>3
<1>4. ScanWords \in 0 .. ScanWords
  BY SoinfoAssumption
<1>5. Ok(ScanWords)
  BY <1>3, <1>4
<1>6. QED
  BY <1>1, <1>5, SoinfoAssumption DEF Ends

(* Wherever the two groups are, the scan finds both, and nothing else.     *)
THEOREM ScanFindsFields ==
  ASSUME NEW mem, NEW phdr, NEW bias, HasFields(mem, phdr, bias)
  PROVE  Scan(mem).phdr = phdr /\ Scan(mem).bias = bias
<1>0. PICK last \in DOMAIN mem : DOMAIN mem = 0 .. last
  BY DEF HasFields
<1>1. PICK f : IsRun(f, mem, ScanWords) /\ Scan(mem) = f[ScanWords]
  BY ScanIsRun
<1>2. \A k \in 0 .. ScanWords : f[k] = IF k = 0 THEN Start ELSE Turn(mem, f[k - 1])
  BY <1>1 DEF IsRun
<1>3. phdr \in Nat /\ bias \in Nat /\ phdr < ScanWords /\ bias < ScanWords
  BY SoinfoAssumption DEF HasFields
<1>4. phdr + 6 \in DOMAIN mem /\ bias + 6 \in DOMAIN mem
  BY DEF HasFields
<1> DEFINE Ok(k) == IsThere(mem, f[k]) /\ IsAhead(phdr, bias, f[k])
           T == {k \in 0 .. ScanWords : ~ Ok(k)}
<1>5. T = {}
  <2> SUFFICES ASSUME T # {} PROVE FALSE
    OBVIOUS
  <2>0. T \subseteq Nat
    BY SoinfoAssumption
  <2>1. PICK k \in T : \A i \in T : k <= i
    BY <2>0, NatMinimum
  <2>2. CASE k = 0
    <3>1. f[0] = Start
      BY <1>2, SoinfoAssumption
    <3>2. Ok(0)
      BY <1>3, <3>1 DEF IsThere, IsAhead, ScanState, Start
    <3>3. QED
      BY <2>1, <2>2, <3>2
  <2>3. CASE k # 0
    <3>1. k - 1 \in 0 .. ScanWords /\ k - 1 \notin T
      BY <2>1, <2>3, SoinfoAssumption
    <3>2. Ok(k - 1) /\ f[k] = Turn(mem, f[k - 1])
      BY <1>2, <2>1, <2>3, <3>1
    <3>3. last \in Nat
      BY <1>0, <1>3, <1>4
    <3>4. Ok(k)
      BY <1>0, <3>2, <3>3, TurnIsThere, TurnPassesNothing
    <3>5. QED
      BY <2>1, <3>4
  <2>4. QED
    BY <2>2, <2>3
<1>6. ScanWords \in 0 .. ScanWords
  BY SoinfoAssumption
<1>7. Ok(ScanWords)
  BY <1>5, <1>6
<1> DEFINE s == Scan(mem)
<1>8. IsThere(mem, s) /\ IsAhead(phdr, bias, s)
  BY <1>1, <1>7
<1>9. last \in Nat
  BY <1>0, <1>3, <1>4
<1>10. Ends(mem, s)
  BY <1>0, <1>9, ScanMakesUpNothing
<1>11. CASE NotFound \notin {s.phdr, s.bias}
  BY <1>8, <1>11 DEF IsAhead
<1>12. CASE s.at >= ScanWords
  BY <1>3, <1>8, <1>12, SoinfoAssumption DEF IsThere, IsAhead, ScanState
<1>13. CASE s.at + 6 \notin DOMAIN mem
  <2>1. s.at \in Nat
    BY <1>8 DEF IsThere, ScanState
  <2>2. \A i \in Nat : s.at <= i => i + 6 \notin DOMAIN mem
    BY <1>0, <1>9, <1>13, <2>1
  <2>3. QED
    BY <1>3, <1>4, <1>8, <2>2 DEF IsAhead
<1>14. QED
  BY <1>10, <1>11, <1>12, <1>13 DEF Ends
===============================================================================
