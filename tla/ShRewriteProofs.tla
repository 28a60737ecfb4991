---------------------------- MODULE ShRewriteProofs ----------------------------
(***************************************************************************)
(* Proofs about the rewriting of a function's head.                        *)
(***************************************************************************)
EXTENDS ShRewriteLemmas

(* What the i-th part of the enter consists of: a rewritten instruction, or *)
(* the jump back.                                                          *)
WordsOf(i) ==
  IF i <= n THEN Rewrite(InstAt(i), AddressOf(i)) ELSE AbsoluteJump(0, AddressOf(n + 1))

(* An instruction of the head is one that the decoders know.               *)
LEMMA InstAtIs ==
  ASSUME fn \in Functions, fn.arch \in {"arm64", "arm"}, NEW i \in Nat \ {0}
  PROVE  /\ fn.arch = "arm64" => InstAt(i) \in A64!Insts
         /\ fn.arch = "arm" => InstAt(i) \in A32!Insts
         /\ InstAt(i).kind # "IT"
         /\ RefersWell(fn, InstAt(i), AddressOf(i))
<1>1. IsFunction(fn) /\ Len(fn.insts) \in Nat /\ fn.arch \in {"arm64", "arm"}
  BY RewriteAssumption, InstSizes
<1>4. \A inst : inst \in A64!Insts \/ inst \in A32!Insts => inst.kind # "IT"
  BY DEF A64!Insts, A64!InstsOf, A32!Insts, A32!InstsOf
<1>2. CASE i <= Len(fn.insts)
  <2>1. i \in 1 .. Len(fn.insts) /\ InstAt(i) = fn.insts[i] /\ AddressOf(i) = Place(fn, i)
    <3>1. i \in 1 .. Len(fn.insts) + 1 /\ i \in 1 .. Len(fn.insts)
      BY <1>1, <1>2
    <3>2. InstAt(i) = fn.insts[i]
      BY <3>1, InstAtPadded
    <3>3. AddressOf(i) = Place(fn, i)
      BY <3>1, AddressIsPlace, Zenon
    <3> QED BY <3>1, <3>2, <3>3
  <2>2. (fn.arch = "arm64" => fn.insts[i] \in A64!Insts) /\ (fn.arch = "arm" => fn.insts[i] \in A32!Insts)
    BY <2>1, InstSizes DEF Insts
  <2>3. fn.insts[i].kind # "IT"
    BY <1>1, <1>4, <2>2
  <2>4. i \in DOMAIN fn.insts
    BY <2>1, <1>1 DEF IsFunction
  <2>5. RefersWell(fn, fn.insts[i], Place(fn, i))
    BY <1>1, <2>3, <2>4, Zenon DEF IsFunction
  <2> QED BY <2>1, <2>2, <2>3, <2>5
<1>3. CASE i > Len(fn.insts)
  <2>1. InstAt(i) = Padding
    BY <1>1, <1>3 DEF InstAt
  <2>2. Padding \in A64!Insts /\ Padding \in A32!Insts
    BY DEF Padding, Inst, A64!Insts, A64!InstsOf, A32!Insts, A32!InstsOf
  <2>3. Padding.kind = "IGNORED"
    BY DEF Padding, Inst
  <2>4. RefersWell(fn, Padding, AddressOf(i))
    BY <2>3 DEF RefersWell
  <2> QED BY <2>1, <2>2, <2>3, <2>4
<1> QED BY <1>1, <1>2, <1>3

(* What the rewriters are given.                                           *)
To(i)  == FixAddr(Target(fn.arch, InstAt(i), AddressOf(i)))
Pcv(i) == Address(PcAt(fn.arch, AddressOf(i)), FALSE)
AimsAtHead(i) == InHead(Target(fn.arch, InstAt(i), AddressOf(i)).of)

LEMMA WordsOfInst ==
  ASSUME fn \in Functions, fn.arch \in {"arm64", "arm"}, n \in Nat, NEW i \in 1 .. n
  PROVE  /\ fn.arch = "arm64" => WordsOf(i) = A64!Rewrite(InstAt(i), To(i), AimsAtHead(i))
         /\ fn.arch = "arm" => WordsOf(i) = A32!Rewrite(InstAt(i), To(i), AimsAtHead(i), Pcv(i))
         /\ AimsAtHead(i) \in BOOLEAN
<1>1. InstAt(i).kind # "IT"
  BY InstAtIs
<1>2. AimsAtHead(i) \in BOOLEAN
  BY DEF AimsAtHead, InHead
<1>3. WordsOf(i) = Rewrite(InstAt(i), AddressOf(i))
  BY DEF WordsOf
<1>4. Rewrite(InstAt(i), AddressOf(i)) = RewriteOne(InstAt(i), AddressOf(i))
  BY <1>1, Zenon DEF Rewrite
<1>5. fn.arch = "arm64" => RewriteOne(InstAt(i), AddressOf(i)) = A64!Rewrite(InstAt(i), To(i), AimsAtHead(i))
  BY DEF RewriteOne, To, AimsAtHead
<1>6. fn.arch = "arm" => RewriteOne(InstAt(i), AddressOf(i)) = A32!Rewrite(InstAt(i), To(i), AimsAtHead(i), Pcv(i))
  BY DEF RewriteOne, To, AimsAtHead, Pcv
<1> QED BY <1>2, <1>3, <1>4, <1>5, <1>6

(* What the length of a rewritten instruction of A32 is.                   *)
WellFormed(s, len) ==
  IsSeq(s) /\ Len(s) = len /\ s[1].op # "second" /\ Len(s) \in Nat /\ Len(s) >= 1 /\ Len(s) <= 9

LEMMA A32Formed ==
  ASSUME NEW inst \in A32!Insts, NEW to, NEW inHead \in BOOLEAN, NEW pcv, NEW s,
         s = A32!Rewrite(inst, to, inHead, pcv), s # << >>
  PROVE  WellFormed(s, A32!InstLen(inst))
<1>1. inst.kind \in {"B", "BX", "BL", "BLX", "ADD_PC", "ADD", "MOV", "MOV_PC", "ADR", "LDR_PC", "LDR",
                     "LDR_REG_PC", "LDR_REG", "IGNORED"}
  BY DEF A32!Insts, A32!InstsOf
<1>2. CASE inst.kind = "B"
  <2>1. /\ Len(s) = 3
        /\ s[1] = LdrIf(inst.c, "pc", 0) /\ s[2] = B(0) /\ s[3] = Data("whole", to)
    BY <1>2, A32B
  <2>2. IsSeq(s)
    BY <1>2, A32B
  <2>3. A32!InstLen(inst) = 3
    BY <1>2 DEF A32!InstLen
  <2>4. s[1].op # "second"
    BY <2>1, WordOps
  <2> QED BY <2>1, <2>2, <2>3, <2>4 DEF WellFormed
<1>3. CASE inst.kind = "BX"
  <2>1. IsSeq(s) /\ Len(s) = 3 /\ A32!InstLen(inst) = 3 /\ s[1].op # "second"
    BY <1>3, A32BX
  <2> QED BY <2>1 DEF WellFormed
<1>4. CASE inst.kind = "BL"
  <2>1. /\ IsSeq(s) /\ Len(s) = 4 /\ A32!InstLen(inst) = 4 /\ s[1].op # "second"
        /\ s[1] = Link(inst.c, 2) /\ s[2] = LdrIf(inst.c, "pc", 0) /\ s[3] = B(0)
        /\ s[4] = Data("whole", to)
    BY <1>4, A32BL
  <2> QED BY <2>1 DEF WellFormed
<1>5. CASE inst.kind = "BLX"
  <2>1. /\ IsSeq(s) /\ Len(s) = 4 /\ A32!InstLen(inst) = 4 /\ s[1].op # "second"
        /\ s[1] = Link(inst.c, 2) /\ s[2] = LdrIf(inst.c, "pc", 0) /\ s[3] = B(0)
        /\ s[4] = Data("whole", to)
    BY <1>5, A32BLX
  <2> QED BY <2>1 DEF WellFormed
<1>6. CASE inst.kind = "ADD_PC"
  <2>1. IsSeq(s) /\ Len(s) = 8 /\ A32!InstLen(inst) = 8 /\ s[1].op # "second"
    BY <1>6, A32ADDPC
  <2> QED BY <2>1 DEF WellFormed
<1>7. CASE inst.kind = "ADD"
  <2>1. IsSeq(s) /\ Len(s) = 8 /\ A32!InstLen(inst) = 8 /\ s[1].op # "second"
    BY <1>7, A32ADD
  <2> QED BY <2>1 DEF WellFormed
<1>8. CASE inst.kind = "MOV"
  <2>1. IsSeq(s) /\ Len(s) = 8 /\ A32!InstLen(inst) = 8 /\ s[1].op # "second"
    BY <1>8, A32MOV
  <2> QED BY <2>1 DEF WellFormed
<1>9. CASE inst.kind = "MOV_PC"
  <2>1. IsSeq(s) /\ Len(s) = 3 /\ A32!InstLen(inst) = 3 /\ s[1].op # "second"
    BY <1>9, A32MOVPC
  <2> QED BY <2>1 DEF WellFormed
<1>10. CASE inst.kind = "ADR"
  <2>1. /\ Len(s) = 3
        /\ s[1] = LdrIf(inst.c, "r", 0) /\ s[2] = B(0) /\ s[3] = Data("whole", to)
    BY <1>10, A32ADR
  <2>2. IsSeq(s)
    BY <1>10, A32ADR
  <2>3. A32!InstLen(inst) = 3
    BY <1>10 DEF A32!InstLen
  <2>4. s[1].op # "second"
    BY <2>1, WordOps
  <2> QED BY <2>1, <2>2, <2>3, <2>4 DEF WellFormed
<1>11. CASE inst.kind = "LDR_PC"
  <2>1. A32LDRPCWords(inst, to, s)
    BY <1>11, A32LDRPC, Zenon
  <2> QED BY <2>1 DEF A32LDRPCWords, WellFormed
<1>12. CASE inst.kind = "LDR"
  <2>1. A32LDRWords(inst, to, s)
    BY <1>12, A32LDR, Zenon
  <2> QED BY <2>1 DEF A32LDRWords, WellFormed
<1>13. CASE inst.kind = "LDR_REG_PC"
  <2>1. IsSeq(s) /\ Len(s) = 9 /\ A32!InstLen(inst) = 9 /\ s[1].op # "second"
    BY <1>13, A32LDRREGPC
  <2> QED BY <2>1 DEF WellFormed
<1>14. CASE inst.kind = "LDR_REG"
  <2>1. IsSeq(s) /\ Len(s) = 8 /\ A32!InstLen(inst) = 8 /\ s[1].op # "second"
    BY <1>14, A32LDRREG
  <2> QED BY <2>1 DEF WellFormed
<1>15. CASE inst.kind = "IGNORED"
  <2>1. IsSeq(s) /\ Len(s) = 1 /\ A32!InstLen(inst) = 1 /\ s[1].op # "second"
    BY <1>15, A32IGNORED
  <2> QED BY <2>1 DEF WellFormed
<1> QED BY <1>1, <1>2, <1>3, <1>4, <1>5, <1>6, <1>7, <1>8, <1>9, <1>10, <1>11, <1>12, <1>13, <1>14, <1>15

LEMMA A64Lengths ==
  \A inst, to, inHead, s :
    inst \in A64!Insts /\ inHead \in BOOLEAN /\ s = A64!Rewrite(inst, to, inHead) /\ s # << >> =>
      /\ IsSeq(s) /\ Len(s) = A64!InstLen(inst) /\ s[1].op # "second"
      /\ Len(s) \in Nat /\ Len(s) >= 1 /\ Len(s) <= 7
<1> TAKE inst, to, inHead, s
<1> SUFFICES ASSUME inst \in A64!Insts, inHead \in BOOLEAN, s = A64!Rewrite(inst, to, inHead), s # << >>
             PROVE  /\ IsSeq(s) /\ Len(s) = A64!InstLen(inst) /\ s[1].op # "second"
                    /\ Len(s) \in Nat /\ Len(s) >= 1 /\ Len(s) <= 7
  OBVIOUS
<1>1. IsSeq(s) /\ Len(s) = A64!InstLen(inst) /\ s[1].op # "second"
  BY A64Words
<1>2. Len(s) \in Nat /\ Len(s) >= 1 /\ Len(s) <= 7
  BY A64Words
<1> QED BY <1>1, <1>2

(* The length of a rewritten instruction is what InstLen says.             *)

LEMMA A32Lengths ==
  \A inst, to, inHead, pcv, s :
    inst \in A32!Insts /\ inHead \in BOOLEAN /\ s = A32!Rewrite(inst, to, inHead, pcv) /\ s # << >> =>
      WellFormed(s, A32!InstLen(inst))
BY A32Formed, Zenon

(* The length of a rewritten instruction is what InstLen says.             *)
LEMMA InstWords ==
  ASSUME fn \in Functions, fn.arch \in {"arm64", "arm"}, n \in Nat, NEW i \in 1 .. n, WordsOf(i) # << >>
  PROVE  /\ IsSeq(WordsOf(i)) /\ Len(WordsOf(i)) = InstLen(InstAt(i))
         /\ Len(WordsOf(i)) \in Nat /\ Len(WordsOf(i)) >= 1 /\ Len(WordsOf(i)) <= 9
         /\ WordsOf(i)[1].op # "second"
<1>1. WellFormed(WordsOf(i), InstLen(InstAt(i)))
  <2>1. CASE fn.arch = "arm64"
    <3>1. InstAt(i) \in A64!Insts
      BY <2>1, InstAtIs
    <3>2. WordsOf(i) = A64!Rewrite(InstAt(i), To(i), AimsAtHead(i)) /\ AimsAtHead(i) \in BOOLEAN
      BY <2>1, WordsOfInst
    <3>3. /\ IsSeq(WordsOf(i)) /\ Len(WordsOf(i)) = A64!InstLen(InstAt(i))
          /\ Len(WordsOf(i)) \in Nat /\ Len(WordsOf(i)) >= 1 /\ Len(WordsOf(i)) <= 7
          /\ WordsOf(i)[1].op # "second"
      BY <3>1, <3>2, A64Lengths, Zenon
    <3>4. InstLen(InstAt(i)) = A64!InstLen(InstAt(i))
      BY <2>1 DEF InstLen
    <3> QED BY <3>3, <3>4 DEF WellFormed
  <2>2. CASE fn.arch = "arm"
    <3>1. InstAt(i) \in A32!Insts
      BY <2>2, InstAtIs
    <3>2. WordsOf(i) = A32!Rewrite(InstAt(i), To(i), AimsAtHead(i), Pcv(i)) /\ AimsAtHead(i) \in BOOLEAN
      BY <2>2, WordsOfInst
    <3>3. WellFormed(WordsOf(i), A32!InstLen(InstAt(i)))
      BY <3>1, <3>2, A32Lengths, Zenon
    <3>4. InstLen(InstAt(i)) = A32!InstLen(InstAt(i))
      BY <2>2 DEF InstLen
    <3> QED BY <3>3, <3>4
  <2> QED BY <2>1, <2>2
<1> QED BY <1>1 DEF WellFormed

LEMMA JumpWords ==
  ASSUME fn.arch = "arm64", NEW a, NEW to, NEW s, s = AbsoluteJump(a, to)
  PROVE  /\ IsSeq(s) /\ Len(s) = 4 /\ s # << >> /\ s[1].op # "second"
         /\ s[1] = Ldr("x", 2) /\ s[2] = Set("br", "pc", "x")
         /\ s[3] = Data("low", Address(to, FALSE)) /\ s[4] = Data("high", Address(to, FALSE))
<1> DEFINE v  == Address(to, FALSE)
           w1 == Ldr("x", 2)
           w2 == Set("br", "pc", "x")
           w3 == Data("low", v)
           w4 == Data("high", v)
<1>1. s = <<w1, w2>> \o <<w3, w4>>
  BY A64Ops DEF AbsoluteJump, A64!AbsoluteJump
<1>2. w1.op # "second"
  BY WordOps
<1> HIDE DEF w1, w2, w3, w4
<1>3. Len(s) = 4 /\ s[1] = w1 /\ s[2] = w2 /\ s[3] = w3 /\ s[4] = w4
  BY <1>1
<1>4. s \in Seq({w1, w2, w3, w4})
  BY <1>1
<1>5. IsSeq(s)
  BY <1>4 DEF IsSeq
<1>6. s # << >>
  BY <1>3
<1> QED BY <1>2, <1>3, <1>5, <1>6 DEF w1, w2, w3, w4

LEMMA JumpWords32 ==
  ASSUME fn.arch = "arm", NEW a, NEW to, NEW s, s = AbsoluteJump(a, to)
  PROVE  /\ IsSeq(s) /\ Len(s) = 2 /\ s # << >> /\ s[1].op # "second"
         /\ s[1] = Ldr("pc", -1) /\ s[2] = Data("whole", Address(to, FALSE))
<1> DEFINE v  == Address(to, FALSE)
           w1 == Ldr("pc", -1)
           w2 == Data("whole", v)
<1>1. s = <<w1>> \o <<w2>>
  BY A32Ops DEF AbsoluteJump, A32!AbsoluteJump
<1>2. w1.op # "second"
  BY WordOps
<1> HIDE DEF w1, w2
<1>3. Len(s) = 2 /\ s[1] = w1 /\ s[2] = w2
  BY <1>1
<1>4. s \in Seq({w1, w2})
  BY <1>1
<1>5. IsSeq(s)
  BY <1>4 DEF IsSeq
<1>6. s # << >>
  BY <1>3
<1> QED BY <1>2, <1>3, <1>5, <1>6 DEF w1, w2

LEMMA JumpWordsThumb ==
  ASSUME fn.arch = "thumb", NEW a, NEW to, NEW s, s = AbsoluteJump(a, to)
  PROVE  /\ IsSeq(s) /\ Len(s) = (IF a % 2 = 0 THEN 4 ELSE 5) /\ s # << >>
         /\ \A j \in 1 .. Len(s) : s[j].op # "b"
         /\ s[1].op # "second"
<1> DEFINE v  == Address(to, TRUE)
           w1 == Ldr("pc", 0)
           w2 == Second
           w3 == Data("low", v)
           w4 == Data("high", v)
           w5 == Nop
<1>1. s = (IF a % 2 = 0 THEN << >> ELSE <<w5>>) \o <<w1, w2>> \o <<w3, w4>>
  BY ThumbOps DEF AbsoluteJump, Thumb!AbsoluteJump
<1>2. /\ w1.op # "second" /\ w5.op # "second"
      /\ w1.op # "b" /\ w2.op # "b" /\ w3.op # "b" /\ w4.op # "b" /\ w5.op # "b"
  BY WordOps DEF Data, Word, Nop, Second
<1> HIDE DEF w1, w2, w3, w4, w5
<1>3. CASE a % 2 = 0
  <2>1. s = << >> \o <<w1, w2>> \o <<w3, w4>>
    BY <1>1, <1>3
  <2>2. Len(s) = 4 /\ s[1] = w1 /\ s[2] = w2 /\ s[3] = w3 /\ s[4] = w4 /\ s \in Seq({w1, w2, w3, w4})
    BY <2>1
  <2> QED BY <1>2, <1>3, <2>2 DEF IsSeq
<1>4. CASE a % 2 # 0
  <2>1. s = <<w5>> \o <<w1, w2>> \o <<w3, w4>>
    BY <1>1, <1>4
  <2>2. Len(s) = 5 /\ s[1] = w5 /\ s[2] = w1 /\ s[3] = w2 /\ s[4] = w3 /\ s[5] = w4 /\ s \in Seq({w1, w2, w3, w4, w5})
    BY <2>1
  <2> QED BY <1>2, <1>4, <2>2 DEF IsSeq
<1> QED BY <1>3, <1>4

(* Both jumps are as long as an exit, but for that at an odd halfword.     *)
LEMMA JumpLength ==
  ASSUME fn \in Functions, NEW a, NEW to, NEW s, s = AbsoluteJump(a, to),
         fn.arch \in {"arm64", "arm"} \/ a % 2 = 0
  PROVE  /\ IsSeq(s) /\ Len(s) = ExitLen(fn.arch) /\ s # << >> /\ s[1].op # "second"
         /\ ExitLen(fn.arch) \in {2, 4}
<1>1. CASE fn.arch = "arm64"
  BY <1>1, JumpWords DEF ExitLen
<1>2. CASE fn.arch = "arm"
  BY <1>2, JumpWords32 DEF ExitLen
<1>3. CASE fn.arch = "thumb"
  <2>1. a % 2 = 0
    BY <1>3
  <2>2. Len(s) = 4 /\ IsSeq(s) /\ s # << >> /\ s[1].op # "second"
    BY <1>3, <2>1, JumpWordsThumb
  <2> QED BY <1>3, <2>2 DEF ExitLen
<1> QED BY <1>1, <1>2, <1>3, InstSizes

LEMMA AddressKept ==
  ASSUME fn' = fn
  PROVE  \A i : AddressOf(i)' = AddressOf(i) /\ InstAt(i)' = InstAt(i)
<1> TAKE i
<1>1. InstAt(i)' = InstAt(i)
  BY DEF InstAt, Padding
<1>2. AddressOf(i)' = AddressOf(i)
  BY DEF AddressOf, InstAt, Padding
<1> QED BY <1>1, <1>2

LEMMA FixKept ==
  ASSUME fn' = fn, n' = n
  PROVE  \A v : FixAddr(v)' = FixAddr(v) /\ InHead(v)' = InHead(v)
<1> TAKE v
<1>1. InHead(v)' = InHead(v)
  BY DEF InHead, AddressOf, InstAt, Padding
<1>2. FixAddr(v)' = FixAddr(v)
  BY DEF FixAddr, InHead, AddressOf, InstAt, Padding, InstLen
<1> QED BY <1>1, <1>2

LEMMA RewriteKept ==
  ASSUME fn' = fn, n' = n
  PROVE  \A inst, a : RewriteOne(inst, a)' = RewriteOne(inst, a)
<1> TAKE inst, a
<1> QED BY DEF RewriteOne, FixAddr, InHead, AddressOf, InstAt, Padding, InstLen

LEMMA WordsKept ==
  ASSUME fn' = fn, n' = n
  PROVE  \A i : WordsOf(i)' = WordsOf(i)
<1> TAKE i
<1>1. WordsOf(i)' = WordsOf(i)
  BY DEF WordsOf, AddressOf, InstAt, Rewrite, RewriteOne, FixAddr, InHead, AbsoluteJump, Padding, InstLen
<1> QED BY <1>1

(* The enter, as far as it is written: its parts lie one behind the other. *)
Widest == IF fn.arch = "thumb" THEN 8 ELSE 9

Laid(i) ==
  /\ WordsOf(i) # << >>
  /\ starts[i] \in Nat /\ starts[i] <= Widest * (AddressOf(i) - fn.start)
  /\ starts[i] + Len(WordsOf(i)) = IF i < Len(starts) THEN starts[i + 1] ELSE Len(buf)
  /\ \A j \in 1 .. Len(WordsOf(i)) : buf[starts[i] + j] = WordsOf(i)[j]

Layout ==
  /\ IsSeq(buf) /\ starts \in Seq(Nat) /\ Len(starts) <= n + 1
  /\ starts = << >> => buf = << >>
  /\ starts # << >> => starts[1] = 0
  /\ \A i \in 1 .. Len(starts) : Laid(i)

(* Also of Thumb, whose IT blocks are rewritten as a whole.                *)
LEMMA ThumbLengths ==
  \A inst, to, inHead, pcv, last, s :
    inst \in Thumb!Insts16 \cup Thumb!Insts32 /\ inHead \in BOOLEAN /\ last \in BOOLEAN
    /\ s = Thumb!Rewrite(inst, to, inHead, pcv, last) /\ s # << >> =>
      ThumbWellFormed(s, inst)
BY ThumbFormed, Zenon

LEMMA ThumbPart ==
  ASSUME fn \in Functions, fn.arch = "thumb", NEW i \in Nat \ {0}, NEW s, s = Rewrite(InstAt(i), AddressOf(i)), s # << >>
  PROVE  ThumbWellFormed(s, InstAt(i))
<1>1. InstAt(i) \in Thumb!Insts
  <2>1. fn.insts \in Seq(Thumb!Insts) /\ Len(fn.insts) \in Nat
        /\ \A k \in 1 .. Len(fn.insts) : fn.insts[k] \in Thumb!Insts
    BY InstSizes DEF Insts
  <2>2. Padding \in Thumb!Insts
    BY DEF Padding, Inst, Thumb!Insts, Thumb!Insts16, Thumb!InstsOf
  <2> QED BY <2>1, <2>2 DEF InstAt
<1>2. \A inst \in Thumb!Insts : inst.kind # "IT" => inst \in Thumb!Insts16 \cup Thumb!Insts32
  BY DEF Thumb!Insts
<1>3. ASSUME NEW inst \in Thumb!Insts16 \cup Thumb!Insts32, NEW a, NEW w, w = RewriteOne(inst, a), w # << >>
      PROVE  ThumbWellFormed(w, inst)
  <2> DEFINE target == Target(fn.arch, inst, a)
             to     == FixAddr(target)
             inHead == InHead(target.of)
             pcv    == Address(PcAt(fn.arch, a), FALSE)
             last   == a + inst.size = AddressOf(n + 1)
  <2>1. w = Thumb!Rewrite(inst, to, inHead, pcv, last)
    BY <1>3 DEF RewriteOne
  <2>2. inHead \in BOOLEAN /\ last \in BOOLEAN
    BY DEF InHead
  <2> HIDE DEF target, to, inHead, pcv, last
  <2> QED BY <1>3, <2>1, <2>2, ThumbLengths, Zenon
<1>4. CASE InstAt(i).kind # "IT"
  <2>1. s = RewriteOne(InstAt(i), AddressOf(i))
    BY <1>4, Zenon DEF Rewrite
  <2> QED BY <1>1, <1>2, <1>3, <1>4, <2>1, Zenon
<1>5. CASE InstAt(i).kind = "IT"
  <2> DEFINE inst == InstAt(i)
             A(k) == AddressOf(i) + 1 + SizeBefore(inst.insts, k)
             parts == [k \in DOMAIN inst.insts |-> RewriteOne(inst.insts[k], A(k))]
             m == Len(inst.insts)
  <2>1. inst.insts \in Seq(Thumb!Insts16 \cup Thumb!Insts32) /\ m \in 1 .. 4
        /\ \A k \in 1 .. m : inst.insts[k] \in Thumb!Insts16 \cup Thumb!Insts32
    BY <1>1, <1>5, ThumbBlocks
  <2>2. DOMAIN inst.insts = 1 .. m
    BY <2>1
  <2>3. s = IF \E k \in DOMAIN parts : parts[k] = << >> THEN << >> ELSE Thumb!RewriteIt(parts, inst.then)
    BY <1>5 DEF Rewrite
  <2>4. (\A k \in DOMAIN parts : parts[k] # << >>) /\ s = Thumb!RewriteIt(parts, inst.then)
    <3> HIDE DEF parts
    <3> QED BY <2>3, Zenon
  <2>5. DOMAIN parts = 1 .. m /\ Len(parts) = m
    <3>1. parts = [k \in 1 .. m |-> RewriteOne(inst.insts[k], A(k))]
      BY <2>2
    <3> HIDE DEF A, parts
    <3>2. parts \in [1 .. m -> {parts[k] : k \in 1 .. m}] /\ m \in Nat
      BY <2>1, <3>1
    <3> QED BY <3>2
  <2>6. \A k \in 1 .. m : parts[k] = RewriteOne(inst.insts[k], A(k))
    BY <2>2
  <2> HIDE DEF parts, A
  <2>7. \A k \in 1 .. m : ThumbWellFormed(parts[k], inst.insts[k])
    BY <1>3, <2>1, <2>4, <2>5, <2>6, Zenon
  <2> QED BY <1>1, <1>5, <2>4, <2>5, <2>7, ItFormed
<1> QED BY <1>4, <1>5

LEMMA PartWords ==
  ASSUME fn \in Functions, n \in Nat, NEW i \in 1 .. n, WordsOf(i) # << >>
  PROVE  /\ IsSeq(WordsOf(i)) /\ Len(WordsOf(i)) = InstLen(InstAt(i)) /\ Len(WordsOf(i)) \in Nat
         /\ Len(WordsOf(i)) <= Widest * InstAt(i).size
         /\ WordsOf(i)[1].op # "second"
<1>1. fn.arch \in {"arm64", "arm", "thumb"}
  BY InstSizes
<1>2. CASE fn.arch = "thumb"
  <2>1. WordsOf(i) = Rewrite(InstAt(i), AddressOf(i)) /\ i \in Nat \ {0}
    BY DEF WordsOf
  <2>2. ThumbWellFormed(WordsOf(i), InstAt(i))
    BY <1>2, <2>1, ThumbPart, Zenon
  <2>3. Widest = 8 /\ InstLen(InstAt(i)) = Thumb!InstLen(InstAt(i))
    BY <1>2 DEF Widest, InstLen
  <2> QED BY <2>2, <2>3 DEF ThumbWellFormed
<1>3. CASE fn.arch \in {"arm64", "arm"}
  <2>1. /\ IsSeq(WordsOf(i)) /\ Len(WordsOf(i)) = InstLen(InstAt(i))
        /\ Len(WordsOf(i)) \in Nat /\ Len(WordsOf(i)) <= 9 /\ WordsOf(i)[1].op # "second"
    BY <1>3, InstWords
  <2>2. InstAt(i).size = 1
    BY <1>3, InstAtPadded
  <2>3. Widest = 9
    BY <1>3 DEF Widest
  <2>4. Widest * InstAt(i).size = 9
    BY <2>2, <2>3
  <2> QED BY <2>1, <2>4
<1> QED BY <1>1, <1>2, <1>3

(* No rewritten instruction is longer than this.                           *)
LEMMA WordsWidth ==
  ASSUME fn \in Functions, n \in Nat
  PROVE  /\ Widest \in {8, 9}
         /\ \A i \in 1 .. n + 1 :
              WordsOf(i) # << >> => IsSeq(WordsOf(i)) /\ Len(WordsOf(i)) \in Nat /\ WordsOf(i)[1].op # "second"
         /\ \A i \in 1 .. n :
              WordsOf(i) # << >> => Len(WordsOf(i)) <= Widest * InstAt(i).size
<1>1. Widest \in {8, 9}
  BY DEF Widest
<1>2. ASSUME NEW i \in 1 .. n, WordsOf(i) # << >>
      PROVE  /\ IsSeq(WordsOf(i)) /\ Len(WordsOf(i)) \in Nat /\ WordsOf(i)[1].op # "second"
             /\ Len(WordsOf(i)) <= Widest * InstAt(i).size
  BY <1>2, PartWords
<1>3. IsSeq(WordsOf(n + 1)) /\ Len(WordsOf(n + 1)) \in Nat /\ WordsOf(n + 1)[1].op # "second"
  <2>1. WordsOf(n + 1) = AbsoluteJump(0, AddressOf(n + 1))
    BY DEF WordsOf
  <2>2. IsSeq(WordsOf(n + 1)) /\ Len(WordsOf(n + 1)) = ExitLen(fn.arch) /\ WordsOf(n + 1)[1].op # "second"
        /\ ExitLen(fn.arch) \in {2, 4}
    <3>1. 0 % 2 = 0
      OBVIOUS
    <3> QED BY <2>1, <3>1, JumpLength
  <2> QED BY <2>2
<1>4. \A i \in 1 .. n + 1 : i \in 1 .. n \/ i = n + 1
  OBVIOUS
<1> QED BY <1>1, <1>2, <1>3, <1>4, Zenon

LEMMA RoomForNext ==
  ASSUME fn \in Functions, n \in Nat, Layout, Len(starts) <= n
  PROVE  Len(buf) \in Nat /\ Len(buf) <= Widest * (AddressOf(Len(starts) + 1) - fn.start)
<1>1. Len(starts) \in Nat /\ (starts = << >> <=> Len(starts) = 0)
  BY DEF Layout
<1>2. CASE starts = << >>
  <2>1. Len(buf) = 0 /\ Len(starts) = 0
    BY <1>2 DEF Layout
  <2>2. AddressOf(1) = fn.start /\ fn.start \in Nat
    BY AddressNext, InstSizes
  <2>3. AddressOf(Len(starts) + 1) = fn.start
    BY <2>1, <2>2
  <2> QED BY <2>1, <2>2, <2>3, WordsWidth
<1>3. CASE starts # << >>
  <2> DEFINE i == Len(starts)
  <2>1. i \in 1 .. n /\ i \in Nat \ {0}
    BY <1>1, <1>3
  <2>2. Laid(i)
    BY <1>1, <1>3, <2>1 DEF Layout
  <2>3. Len(buf) = starts[i] + Len(WordsOf(i)) /\ starts[i] \in Nat /\ WordsOf(i) # << >>
        /\ starts[i] <= Widest * (AddressOf(i) - fn.start)
    BY <2>1, <2>2 DEF Laid
  <2>4. Len(WordsOf(i)) \in Nat /\ Len(WordsOf(i)) <= Widest * InstAt(i).size /\ Widest \in {8, 9}
    <3>1. i \in 1 .. n + 1
      BY <2>1
    <3> QED BY <2>1, <2>3, <3>1, WordsWidth, Zenon
  <2>5. AddressOf(i + 1) = AddressOf(i) + InstAt(i).size /\ AddressOf(i) \in Nat /\ AddressOf(i + 1) \in Nat
    BY <2>1, AddressNext
  <2>6. fn.start \in Nat /\ InstAt(i).size \in Nat
    <3>1. fn.start \in Nat /\ InstAt(i).size \in 1 .. 9
      BY <2>1, InstSizes, InstAtPadded
    <3> QED BY <3>1
  <2> HIDE DEF i
  <2>7. Len(buf) \in Nat /\ Len(buf) <= Widest * (AddressOf(i + 1) - fn.start)
    <3> DEFINE b == Len(buf)
               p == starts[i]
               l == Len(WordsOf(i))
               a == AddressOf(i)
               q == AddressOf(i + 1)
               z == InstAt(i).size
               f == fn.start
               w == Widest
    <3>1. /\ p \in Int /\ l \in Int /\ a \in Int /\ z \in Int /\ f \in Int /\ w \in {8, 9}
          /\ p \in Nat /\ l \in Nat
          /\ b = p + l /\ p <= w * (a - f) /\ l <= w * z /\ q = a + z
      BY <2>3, <2>4, <2>5, <2>6
    <3> HIDE DEF b, p, l, a, q, z, f, w
    <3>2. b \in Nat /\ b <= w * (q - f)
      BY <3>1
    <3> QED BY <3>2 DEF b, q, f, w
  <2> QED BY <2>7 DEF i
<1> QED BY <1>2, <1>3

(* The parts begin in their order.                                         *)
LEMMA StartsInOrder ==
  ASSUME fn \in Functions, n \in Nat, Layout
  PROVE  /\ Len(buf) \in Nat
         /\ \A i \in 1 .. Len(starts) :
              /\ starts[i] \in Nat /\ Len(WordsOf(i)) \in Nat /\ Len(WordsOf(i)) >= 1
              /\ starts[i] + Len(WordsOf(i)) <= Len(buf)
              /\ \A k \in 1 .. Len(starts) : i < k => starts[i] + Len(WordsOf(i)) <= starts[k]
<1> DEFINE m == Len(starts)
           f == [i \in 1 .. m |-> starts[i]]
<1>1. m \in Nat /\ Len(buf) \in Nat /\ m <= n + 1
  BY DEF Layout, IsSeq
<1>2. ASSUME NEW i \in 1 .. m
      PROVE  /\ starts[i] \in Nat /\ Len(WordsOf(i)) \in Nat /\ Len(WordsOf(i)) >= 1
             /\ i < m => starts[i + 1] = starts[i] + Len(WordsOf(i))
             /\ i = m => Len(buf) = starts[i] + Len(WordsOf(i))
  <2>1. Laid(i) /\ i \in 1 .. n + 1
    BY <1>1 DEF Layout
  <2>2. WordsOf(i) # << >> /\ IsSeq(WordsOf(i)) /\ Len(WordsOf(i)) \in Nat
    BY <2>1, WordsWidth, Zenon DEF Laid
  <2>3. Len(WordsOf(i)) # 0
    BY <2>2 DEF IsSeq
  <2> QED BY <2>1, <2>2, <2>3, <1>1 DEF Laid
<1>3. \A i \in 1 .. m : f[i] \in Int /\ f[i] = starts[i]
  BY <1>2
<1>4. \A i \in 1 .. m - 1 : f[i + 1] >= f[i] + 1
  <2> TAKE i \in 1 .. m - 1
  <2>1. i \in 1 .. m /\ i + 1 \in 1 .. m /\ i < m
    BY <1>1
  <2>2. f[i] = starts[i] /\ f[i + 1] = starts[i + 1]
    BY <2>1
  <2> QED BY <1>2, <2>1, <2>2
<1> HIDE DEF f
<1>5. \A i, k \in 1 .. m : i <= k => f[k] >= f[i] + (k - i)
  BY <1>1, <1>3, <1>4, Increasing, Zenon
<1>6. ASSUME NEW i \in 1 .. m, NEW k \in 1 .. m, i < k
      PROVE  starts[i] + Len(WordsOf(i)) <= starts[k]
  <2>1. i + 1 \in 1 .. m /\ i + 1 <= k /\ i < m
    BY <1>1, <1>6
  <2>2. f[k] >= f[i + 1] + (k - (i + 1))
    BY <1>5, <2>1
  <2>3. f[k] = starts[k] /\ f[i + 1] = starts[i + 1] /\ starts[i + 1] = starts[i] + Len(WordsOf(i))
    BY <1>2, <1>3, <2>1
  <2>4. starts[k] \in Nat /\ starts[i + 1] \in Nat
    BY <1>2, <2>1
  <2> QED BY <2>1, <2>2, <2>3, <2>4
<1>7. ASSUME NEW i \in 1 .. m
      PROVE  starts[i] + Len(WordsOf(i)) <= Len(buf)
  <2>1. CASE i = m
    BY <1>1, <1>2, <2>1
  <2>2. CASE i < m
    <3>1. m \in 1 .. m
      BY <1>1, <2>2
    <3>2. starts[i] + Len(WordsOf(i)) <= starts[m]
      BY <1>6, <2>2, <3>1
    <3>3. Len(buf) = starts[m] + Len(WordsOf(m)) /\ starts[m] \in Nat /\ Len(WordsOf(m)) \in Nat
      BY <1>2, <3>1
    <3> QED BY <1>2, <3>2, <3>3
  <2> QED BY <1>1, <2>1, <2>2
<1> QED BY <1>1, <1>2, <1>6, <1>7

LEMMA LayoutGrows ==
  ASSUME fn \in Functions, n \in Nat, Layout, Len(starts) <= n,
         fn' = fn, n' = n, NEW s, s = WordsOf(Len(starts) + 1), s # << >>,
         buf' = buf \o s, starts' = Append(starts, Len(buf))
  PROVE  Layout' /\ Len(starts') = Len(starts) + 1
<1> DEFINE k == Len(starts)
<1>1. k \in 0 .. n /\ k \in Nat /\ starts \in Seq(Nat)
  BY DEF Layout
<1>2. IsSeq(s) /\ Len(s) \in Nat
  <2>1. k + 1 \in 1 .. n + 1
    BY <1>1
  <2> QED BY <2>1, WordsWidth
<1>3. Len(buf) \in Nat /\ Len(buf) <= Widest * (AddressOf(k + 1) - fn.start)
  BY RoomForNext
<1>4. /\ IsSeq(buf') /\ Len(buf') = Len(buf) + Len(s)
      /\ \A j \in 1 .. Len(buf) : buf'[j] = buf[j]
      /\ \A j \in 1 .. Len(s) : buf'[Len(buf) + j] = s[j]
  <2>1. IsSeq(buf)
    BY DEF Layout
  <2>2. /\ IsSeq(buf \o s) /\ Len(buf \o s) = Len(buf) + Len(s)
        /\ \A j \in 1 .. Len(buf) : (buf \o s)[j] = buf[j]
        /\ \A j \in 1 .. Len(s) : (buf \o s)[Len(buf) + j] = s[j]
    BY <1>2, <2>1, JoinedAt
  <2> QED BY <2>2
<1>5. /\ starts' \in Seq(Nat) /\ Len(starts') = k + 1 /\ starts' # << >>
      /\ \A i \in 1 .. k : starts'[i] = starts[i]
      /\ starts'[k + 1] = Len(buf)
  BY <1>1, <1>3, Appended, Zenon
<1>6. /\ \A i : WordsOf(i)' = WordsOf(i)
      /\ \A i : AddressOf(i)' = AddressOf(i)
      /\ Widest' = Widest
  BY WordsKept, AddressKept DEF Widest
<1>7. starts'[1] = 0
  <2>1. CASE k = 0
    <3>1. Len(buf) = 0
      BY <1>1, <2>1 DEF Layout
    <3> QED BY <1>5, <2>1, <3>1
  <2>2. CASE k # 0
    <3>1. starts # << >> /\ 1 \in 1 .. k
      BY <1>1, <2>2
    <3>2. starts[1] = 0
      BY <3>1 DEF Layout
    <3> QED BY <1>5, <3>1, <3>2
  <2> QED BY <2>1, <2>2
<1>8. ASSUME NEW i \in 1 .. k + 1
      PROVE  Laid(i)'
  <2>1. CASE i = k + 1
    <3>1. WordsOf(i) = s
      BY <2>1
    <3>2. starts'[i] = Len(buf)
      BY <2>1, <1>5
    <3>3. starts'[i] \in Nat /\ starts'[i] <= Widest * (AddressOf(i) - fn.start)
      BY <1>3, <2>1, <3>2
    <3>4. starts'[i] + Len(s) = Len(buf')
      BY <1>4, <3>2
    <3>5. \A j \in 1 .. Len(s) : buf'[starts'[i] + j] = s[j]
      BY <1>4, <3>2
    <3>6. ~ (i < Len(starts'))
      BY <1>1, <1>5, <2>1
    <3> QED BY <1>6, <3>1, <3>3, <3>4, <3>5, <3>6 DEF Laid
  <2>2. CASE i # k + 1
    <3> DEFINE l == Len(WordsOf(i))
    <3>1. i \in 1 .. k /\ i \in 1 .. n + 1 /\ Laid(i)
      BY <1>1, <2>2 DEF Layout
    <3>2. /\ WordsOf(i) # << >> /\ starts[i] \in Nat /\ starts[i] <= Widest * (AddressOf(i) - fn.start)
          /\ starts[i] + l = IF i < k THEN starts[i + 1] ELSE Len(buf)
          /\ \A j \in 1 .. l : buf[starts[i] + j] = WordsOf(i)[j]
      BY <3>1 DEF Laid
    <3>3. l \in Nat
      BY <3>1, <3>2, WordsWidth, Zenon
    <3>4. starts[i] + l <= Len(buf)
      BY <3>1, StartsInOrder
    <3>5. starts'[i] = starts[i] /\ i < Len(starts')
      BY <1>1, <1>5, <3>1
    <3>6. starts'[i + 1] = IF i < k THEN starts[i + 1] ELSE Len(buf)
      BY <1>1, <1>5, <3>1
    <3>7. \A j \in 1 .. l : buf'[starts[i] + j] = buf[starts[i] + j]
      <4> TAKE j \in 1 .. l
      <4> DEFINE p == starts[i]
                 b == Len(buf)
      <4>1. p \in Nat /\ l \in Nat /\ b \in Nat /\ p + l <= b /\ j \in 1 .. l
        BY <1>3, <3>2, <3>3, <3>4
      <4> HIDE DEF p, b, l
      <4>2. p + j \in 1 .. b
        BY <4>1
      <4> QED BY <1>4, <4>2 DEF p, b
    <3> QED BY <1>6, <3>2, <3>5, <3>6, <3>7 DEF Laid
  <2> QED BY <2>1, <2>2
<1> HIDE DEF k
<1>9. Len(starts') <= n + 1
  BY <1>1, <1>5
<1>10. Layout'
  BY <1>4, <1>5, <1>7, <1>8, <1>9 DEF Layout
<1> QED BY <1>5, <1>10 DEF k

(* Where exits are.                                                        *)
LEMMA ExitsLie ==
  ASSUME fn \in Functions
  PROVE  \A e \in ExitsOf(fn) :
           /\ e \in Nat /\ e # None /\ e + ExitLen(fn.arch) < Caller
           /\ e + ExitLen(fn.arch) <= fn.start \/ e > End(fn) + 8
<1> DEFINE p == PcAt(fn.arch, fn.start)
           l == ExitLen(fn.arch)
<1>1. /\ fn.arch \in {"arm64", "arm", "thumb"} /\ fn.start \in Nat /\ IsFunction(fn) /\ End(fn) \in Nat
      /\ fn.start > RangeLow /\ fn.start + 6 + RangeHigh < Caller
  BY InstSizes, FunctionEnds, RewriteAssumption
<1>2. RangeLow \in Nat /\ RangeHigh \in Nat /\ Caller \in Nat
  BY RewriteAssumption
<1>3. p \in fn.start .. fn.start + 2 /\ l \in 2 .. 4
  BY <1>1 DEF PcAt, ExitLen
<1>4. IsGap(fn, fn.start, End(fn) + 8)
  BY <1>1 DEF IsFunction
<1> TAKE e \in ExitsOf(fn)
<1>5. End(fn) + 8 < e \/ fn.start >= e + l
  BY <1>4 DEF IsGap
<1>6. e \in p - RangeLow .. p + RangeHigh
  BY DEF ExitsOf, ExitsIn
<1> HIDE DEF p, l
<1>7. e \in Nat /\ e > 0 /\ e + l < Caller
  BY <1>1, <1>2, <1>3, <1>6
<1>8. e # None
  BY <1>7 DEF None
<1>9. e + l <= fn.start \/ e > End(fn) + 8
  BY <1>1, <1>3, <1>5, <1>7
<1> QED BY <1>7, <1>8, <1>9 DEF l

Jumps(e) == IF e # None THEN RelativeJump(e) ELSE AbsoluteJump(fn.start, New)

HookInv ==
  /\ fn \in Functions
  /\ pc \in {"begin", "again", "rewrite", "patch", "hooked", "failed"}
  /\ exit \in ExitsOf(fn) \cup {None}
  /\ backup \in {0, WithExit, WithoutExit}
  /\ backup = 0 => n = 0 /\ starts = << >> /\ pc \in {"begin", "failed"}
  /\ backup # 0 => IsHead(n, backup)
  /\ pc \in {"rewrite", "patch", "hooked"} => backup = IF exit = None THEN WithoutExit ELSE WithExit
  /\ Layout
  /\ pc = "rewrite" => Len(starts) <= n
  /\ pc \in {"patch", "hooked"} => Len(starts) = n + 1
  /\ patch = IF pc = "hooked" THEN Jumps(exit) ELSE << >>

LEMMA BackupLens ==
  ASSUME fn \in Functions
  PROVE  /\ WithExit \in 1 .. 2 /\ WithoutExit \in 2 .. 5
         /\ fn.arch \in {"arm64", "arm"} => WithExit = 1 /\ WithoutExit = ExitLen(fn.arch) /\ ExitLen(fn.arch) \in {2, 4}
<1>1. fn.arch \in {"arm64", "arm", "thumb"}
  BY InstSizes
<1> QED BY <1>1 DEF WithExit, WithoutExit, ExitLen

LEMMA LayoutKept ==
  ASSUME fn' = fn, n' = n, buf' = buf, starts' = starts, Layout
  PROVE  Layout'
<1>1. /\ \A i : WordsOf(i)' = WordsOf(i)
      /\ \A i : AddressOf(i)' = AddressOf(i)
      /\ Widest' = Widest
  BY WordsKept, AddressKept DEF Widest
<1>2. ASSUME NEW i \in 1 .. Len(starts)
      PROVE  Laid(i)'
  <2>1. Laid(i)
    BY DEF Layout
  <2> QED BY <1>1, <2>1 DEF Laid
<1> QED BY <1>2 DEF Layout

LEMMA EmptyLayout ==
  ASSUME n' \in Nat, buf' = << >>, starts' = << >>
  PROVE  Layout' /\ Len(starts') = 0
<1>1. IsSeq(<< >>) /\ << >> \in Seq(Nat) /\ Len(<< >>) = 0
  BY DEF IsSeq
<1>4. IsSeq(buf') /\ starts' \in Seq(Nat) /\ Len(starts') = 0
  BY <1>1, Zenon
<1>5. Len(starts') <= n' + 1
  <2>1. \A m \in Nat : 0 <= m + 1
    OBVIOUS
  <2> QED BY <1>4, <2>1, Zenon
<1>2. IsSeq(buf') /\ starts' \in Seq(Nat) /\ Len(starts') = 0 /\ Len(starts') <= n' + 1
  BY <1>4, <1>5, Zenon
<1>3. \A i \in 1 .. Len(starts') : Laid(i)'
  BY <1>2
<1> QED BY <1>2, <1>3, Zenon DEF Layout

LEMMA HeadKept ==
  ASSUME fn' = fn
  PROVE  /\ \A h, len : IsHead(h, len)' = IsHead(h, len)
         /\ WithExit' = WithExit /\ WithoutExit' = WithoutExit
         /\ ExitsOf(fn)' = ExitsOf(fn)
<1>1. \A i : AddressOf(i)' = AddressOf(i)
  BY AddressKept
<1>2. ASSUME NEW h, NEW len
      PROVE  IsHead(h, len)' = IsHead(h, len)
  BY <1>1 DEF IsHead
<1> QED BY <1>2 DEF WithExit, WithoutExit

LEMMA JumpsKept ==
  ASSUME fn' = fn
  PROVE  \A e : Jumps(e)' = Jumps(e)
BY DEF Jumps, RelativeJump, AbsoluteJump

LEMMA HookInvKept ==
  ASSUME HookInv, UNCHANGED hookVars
  PROVE  HookInv'
<1>1. fn' = fn /\ pc' = pc /\ backup' = backup /\ n' = n /\ exit' = exit /\ buf' = buf
      /\ starts' = starts /\ patch' = patch
  BY DEF hookVars
<1>2. Layout'
  BY <1>1, LayoutKept DEF HookInv
<1>3. backup' # 0 => IsHead(n, backup)'
  BY <1>1, HeadKept DEF HookInv
<1>4. WithExit' = WithExit /\ WithoutExit' = WithoutExit /\ ExitsOf(fn)' = ExitsOf(fn) /\ Jumps(exit)' = Jumps(exit)
  BY <1>1, HeadKept, JumpsKept
<1> QED BY <1>1, <1>2, <1>3, <1>4 DEF HookInv

LEMMA HookInvInit ==
  ASSUME Init
  PROVE  HookInv
<1>1. Layout
  <2>1. IsSeq(<< >>) /\ << >> \in Seq(Nat) /\ Len(<< >>) = 0 /\ 1 .. 0 = {}
    BY DEF IsSeq
  <2> QED BY <2>1 DEF Init, Layout
<1> QED BY <1>1 DEF Init, HookInv

(* A start with a new backup length.                                       *)
LEMMA BeginKeeps ==
  ASSUME HookInv, NEW len \in {WithExit, WithoutExit}, IsLongEnough(len), Begin(len), fn' = fn, patch' = patch,
         pc # "hooked", exit' \in ExitsOf(fn) \cup {None}, len = IF exit' = None THEN WithoutExit ELSE WithExit
  PROVE  HookInv'
<1>1. fn \in Functions /\ len \in Nat /\ len > 0
  BY BackupLens DEF HookInv
<1>2. IsHead(HeadOf(len), len) /\ HeadOf(len) \in Nat
  BY <1>1, HeadExists DEF IsHead
<1>3. backup' = len /\ n' = HeadOf(len) /\ buf' = << >> /\ starts' = << >> /\ pc' = "rewrite"
  BY DEF Begin
<1>4. Layout' /\ Len(starts') = 0
  BY <1>2, <1>3, EmptyLayout
<1>5. IsHead(n, backup)'
  <2>1. IsHead(n', backup')
    BY <1>2, <1>3
  <2>2. \A i : AddressOf(i)' = AddressOf(i)
    BY AddressKept
  <2> QED BY <2>1, <2>2 DEF IsHead
<1>6. WithExit' = WithExit /\ WithoutExit' = WithoutExit /\ ExitsOf(fn)' = ExitsOf(fn)
  BY HeadKept
<1>7. n' \in Nat
  BY <1>2, <1>3
<1> QED BY <1>1, <1>3, <1>4, <1>5, <1>6, <1>7 DEF HookInv

LEMMA HookInvNext ==
  ASSUME HookInv, [Next]_vars
  PROVE  HookInv'
<1> USE DEF HookInv
<1>1. CASE HookWithExit
  <2>1. IsLongEnough(WithExit) /\ Begin(WithExit) /\ exit' \in ExitsOf(fn) /\ fn' = fn /\ patch' = patch /\ pc = "begin"
    BY <1>1 DEF HookWithExit
  <2>2. exit' # None
    BY <2>1, ExitsLie
  <2> HIDE DEF HookInv
  <2> QED BY <2>1, <2>2, BeginKeeps
<1>2. CASE HookWithoutExit
  <2>1. exit' = None /\ fn' = fn /\ patch' = patch /\ pc \in {"begin", "again"}
    BY <1>2 DEF HookWithoutExit
  <2>2. CASE IsLongEnough(WithoutExit)
    <3>1. Begin(WithoutExit)
      BY <1>2, <2>2 DEF HookWithoutExit
    <3> HIDE DEF HookInv
    <3> QED BY <2>1, <2>2, <3>1, BeginKeeps
  <2>3. CASE ~ IsLongEnough(WithoutExit)
    <3>1. pc' = "failed" /\ UNCHANGED <<backup, n, buf, starts>>
      BY <1>2, <2>3 DEF HookWithoutExit
    <3>2. Layout'
      BY <2>1, <3>1, LayoutKept
    <3>3. backup' # 0 => IsHead(n, backup)'
      BY <2>1, <3>1, HeadKept
    <3>4. WithExit' = WithExit /\ WithoutExit' = WithoutExit /\ ExitsOf(fn)' = ExitsOf(fn)
      BY <2>1, HeadKept
    <3> QED BY <2>1, <3>1, <3>2, <3>3, <3>4
  <2> QED BY <2>2, <2>3
<1>3. CASE RewriteInst
  <2> DEFINE k == Len(starts) + 1
             s == Rewrite(InstAt(k), AddressOf(k))
  <2>1. fn' = fn /\ backup' = backup /\ n' = n /\ exit' = exit /\ patch' = patch /\ pc = "rewrite" /\ Len(starts) < n
    BY <1>3 DEF RewriteInst
  <2>2. /\ backup # 0 => IsHead(n, backup)'
        /\ WithExit' = WithExit /\ WithoutExit' = WithoutExit /\ ExitsOf(fn)' = ExitsOf(fn)
    BY <2>1, HeadKept
  <2>3. n \in Nat /\ Len(starts) \in Nat /\ backup # 0
    BY <2>1, BackupLens DEF IsHead, Layout
  <2>4. CASE s = << >>
    <3>1. pc' \in {"again", "failed"} /\ buf' = buf /\ starts' = starts
      BY <1>3, <2>4 DEF RewriteInst, Failed
    <3>2. Layout'
      BY <2>1, <3>1, LayoutKept
    <3> QED BY <2>1, <2>2, <2>3, <3>1, <3>2
  <2>5. CASE s # << >>
    <3>1. buf' = buf \o s /\ starts' = Append(starts, Len(buf)) /\ pc' = pc
      BY <1>3, <2>5 DEF RewriteInst
    <3>2. s = WordsOf(k)
      BY <2>1, <2>3 DEF WordsOf
    <3>3. Layout' /\ Len(starts') = Len(starts) + 1
      <4> HIDE DEF s
      <4> QED BY <2>1, <2>3, <2>5, <3>1, <3>2, LayoutGrows
    <3> QED BY <2>1, <2>2, <2>3, <3>1, <3>3
  <2> QED BY <2>4, <2>5
<1>4. CASE JumpBack
  <2> DEFINE k == Len(starts) + 1
             s == AbsoluteJump(0, AddressOf(n + 1))
  <2>1. fn' = fn /\ backup' = backup /\ n' = n /\ exit' = exit /\ patch' = patch /\ pc = "rewrite" /\ Len(starts) = n
        /\ buf' = buf \o s /\ starts' = Append(starts, Len(buf)) /\ pc' = "patch"
    BY <1>4 DEF JumpBack
  <2>2. /\ backup # 0 => IsHead(n, backup)'
        /\ WithExit' = WithExit /\ WithoutExit' = WithoutExit /\ ExitsOf(fn)' = ExitsOf(fn)
    BY <2>1, HeadKept
  <2>3. n \in Nat /\ backup # 0
    BY <2>1, BackupLens DEF IsHead
  <2>4. s = WordsOf(k)
    BY <2>1, <2>3 DEF WordsOf
  <2>5. s # << >>
    <3>1. 0 % 2 = 0
      OBVIOUS
    <3> QED BY <3>1, JumpLength
  <2>6. Layout' /\ Len(starts') = Len(starts) + 1
    <3> HIDE DEF s
    <3> QED BY <2>1, <2>3, <2>4, <2>5, LayoutGrows
  <2> QED BY <2>1, <2>2, <2>3, <2>6
<1>5. CASE Patch
  <2>1. fn' = fn /\ backup' = backup /\ n' = n /\ exit' = exit /\ buf' = buf /\ starts' = starts /\ pc = "patch" /\ pc' = "hooked"
        /\ patch' = Jumps(exit)
    BY <1>5 DEF Patch, Jumps
  <2>2. /\ backup # 0 => IsHead(n, backup)'
        /\ WithExit' = WithExit /\ WithoutExit' = WithoutExit /\ ExitsOf(fn)' = ExitsOf(fn) /\ Jumps(exit)' = Jumps(exit')
    BY <2>1, HeadKept, JumpsKept
  <2>3. Layout'
    BY <2>1, LayoutKept
  <2> QED BY <2>1, <2>2, <2>3
<1>6. CASE GiveUp
  <2>1. fn' = fn /\ backup' = backup /\ n' = n /\ exit' = exit /\ buf' = buf /\ starts' = starts /\ patch' = patch
        /\ pc \in {"rewrite", "patch"} /\ pc' \in {"again", "failed"}
    BY <1>6 DEF GiveUp, Failed
  <2>2. /\ backup # 0 => IsHead(n, backup)'
        /\ WithExit' = WithExit /\ WithoutExit' = WithoutExit /\ ExitsOf(fn)' = ExitsOf(fn)
    BY <2>1, HeadKept
  <2>3. Layout'
    BY <2>1, LayoutKept
  <2>4. backup # 0
    BY <2>1, BackupLens
  <2> QED BY <2>1, <2>2, <2>3, <2>4
<1> HIDE DEF HookInv
<1>7. CASE CallTarget \/ CallOrig \/ Execute \/ ReturnToHead \/ ReturnToCaller
  <2>1. UNCHANGED hookVars
    BY <1>7 DEF CallTarget, CallOrig, Execute, ReturnToHead, ReturnToCaller
  <2> QED BY <2>1, HookInvKept
<1>8. CASE UNCHANGED vars
  <2>1. UNCHANGED hookVars
    BY <1>8 DEF vars
  <2> QED BY <2>1, HookInvKept
<1> QED BY <1>1, <1>2, <1>3, <1>4, <1>5, <1>6, <1>7, <1>8 DEF Next

(* How long the head is.                                                   *)
LEMMA HeadSpan ==
  ASSUME HookInv, backup # 0
  PROVE  /\ n \in Nat /\ n >= 1 /\ n <= backup /\ n <= Len(fn.insts) + 1 /\ backup \in 1 .. 5
         /\ AddressOf(n + 1) \in Nat /\ fn.start \in Nat
         /\ fn.start + backup <= AddressOf(n + 1)
         /\ AddressOf(n + 1) <= End(fn) + 1 /\ End(fn) \in Nat /\ End(fn) + 8 < Caller /\ Caller \in Nat
         /\ AddressOf(n + 1) <= fn.start + backup + IF fn.arch = "thumb" THEN 8 ELSE 0
<1>1. fn \in Functions /\ IsHead(n, backup) /\ backup \in {0, WithExit, WithoutExit}
  BY DEF HookInv
<1>2. backup \in 1 .. 5
  BY <1>1, BackupLens
<1>3. /\ n \in Nat \ {0} /\ n <= backup /\ n <= Len(fn.insts) + 1
      /\ AddressOf(n) < fn.start + backup /\ fn.start + backup <= AddressOf(n + 1)
      /\ AddressOf(n + 1) <= PaddedEnd(fn)
  BY <1>1, <1>2 DEF IsHead
<1>4. /\ AddressOf(n + 1) = AddressOf(n) + InstAt(n).size /\ AddressOf(n) \in Nat
  BY <1>1, <1>3, AddressNext
<1>5. AddressOf(n + 1) \in Nat
  <2>1. n + 1 \in Nat \ {0}
    BY <1>3
  <2> QED BY <1>1, <2>1, AddressNext
<1>6. InstAt(n).size \in 1 .. 9 /\ (fn.arch # "thumb" => InstAt(n).size = 1)
  BY <1>1, <1>3, InstAtPadded
<1>7. fn.start \in Nat /\ PaddedEnd(fn) \in {End(fn), End(fn) + 1} /\ End(fn) \in Nat /\ End(fn) + 8 < Caller
  BY <1>1, FunctionEnds, InstSizes
<1>8. Caller \in Nat
  BY RewriteAssumption
<1>9. AddressOf(n + 1) <= End(fn) + 1
  BY <1>3, <1>5, <1>7
<1>10. AddressOf(n + 1) <= fn.start + backup + IF fn.arch = "thumb" THEN 8 ELSE 0
  <2>1. CASE fn.arch = "thumb"
    <3>1. InstAt(n).size <= 9 /\ InstAt(n).size \in Nat
      BY <1>6
    <3>2. AddressOf(n + 1) <= fn.start + backup + 8
      BY <1>2, <1>3, <1>4, <1>7, <3>1
    <3> QED BY <2>1, <3>2
  <2>2. CASE fn.arch # "thumb"
    BY <1>2, <1>3, <1>4, <1>6, <1>7, <2>2
  <2> QED BY <2>1, <2>2
<1>11. n \in Nat /\ n >= 1
  BY <1>3
<1> QED BY <1>2, <1>3, <1>5, <1>7, <1>8, <1>9, <1>10, <1>11

LEMMA EnterIsLarge ==
  ASSUME HookInv
  PROVE  Len(buf) \in Nat /\ Len(buf) * UnitSize <= EnterSize /\ Len(buf) <= EnterSize /\ EnterSize \in Nat
<1> DEFINE span == AddressOf(n + 1) - fn.start
<1>1. fn \in Functions /\ Layout /\ Len(starts) \in Nat /\ Len(starts) <= n + 1
      /\ fn.arch \in {"arm64", "arm", "thumb"}
  BY InstSizes DEF HookInv, Layout
<1>2. EnterSize >= 216 /\ EnterSize \in Nat
  BY RewriteAssumption
<1>3. (UnitSize = 4 /\ Widest = 9) \/ (UnitSize = 2 /\ Widest = 8)
  BY DEF UnitSize, Widest
<1>4. CASE starts = << >>
  <2>1. Len(buf) = 0
    BY <1>1, <1>4 DEF Layout
  <2> QED BY <1>2, <1>3, <2>1
<1>5. CASE starts # << >>
  <2>1. backup # 0
    BY <1>5 DEF HookInv
  <2>2. /\ n \in Nat /\ n >= 1 /\ AddressOf(n + 1) \in Nat /\ fn.start \in Nat /\ span \in Nat
        /\ (UnitSize = 4 /\ Widest = 9 /\ span <= 4) \/ (UnitSize = 2 /\ Widest = 8 /\ span <= 13)
    <3>1. /\ n \in Nat /\ n >= 1 /\ backup \in 1 .. 5 /\ AddressOf(n + 1) \in Nat /\ fn.start \in Nat
          /\ fn.start + backup <= AddressOf(n + 1)
          /\ AddressOf(n + 1) <= fn.start + backup + IF fn.arch = "thumb" THEN 8 ELSE 0
      BY <2>1, HeadSpan
    <3>2. fn.arch # "thumb" => backup \in 1 .. 4
      BY <1>1, <2>1, BackupLens DEF HookInv
    <3>3. CASE fn.arch = "thumb"
      BY <3>1, <3>3 DEF UnitSize, Widest
    <3>4. CASE fn.arch # "thumb"
      BY <3>1, <3>2, <3>4 DEF UnitSize, Widest
    <3> QED BY <3>3, <3>4
  <2>3. CASE Len(starts) <= n
    <3>1. Len(buf) \in Nat /\ Len(buf) <= Widest * (AddressOf(Len(starts) + 1) - fn.start)
      BY <1>1, <2>2, <2>3, RoomForNext
    <3>2. AddressOf(Len(starts) + 1) <= AddressOf(n + 1) /\ AddressOf(Len(starts) + 1) \in Nat
      <4>1. Len(starts) + 1 \in Nat \ {0} /\ n + 1 \in Nat \ {0} /\ Len(starts) + 1 <= n + 1
        BY <1>1, <2>2, <2>3
      <4> QED BY <1>1, <4>1, AddressOrder, AddressNext
    <3>3. Len(buf) <= Widest * span
      BY <2>2, <3>1, <3>2
    <3> HIDE DEF span
    <3> QED BY <1>2, <2>2, <3>1, <3>3
  <2>4. CASE Len(starts) = n + 1
    <3>1. Laid(n + 1)
      <4>1. n + 1 \in 1 .. Len(starts)
        BY <2>2, <2>4
      <4> QED BY <1>1, <4>1 DEF Layout
    <3>2. starts[n + 1] \in Nat /\ starts[n + 1] <= Widest * span
          /\ Len(buf) = starts[n + 1] + Len(WordsOf(n + 1))
      BY <2>2, <2>4, <3>1 DEF Laid
    <3>3. WordsOf(n + 1) = AbsoluteJump(0, AddressOf(n + 1))
      BY <2>2 DEF WordsOf
    <3>4. Len(WordsOf(n + 1)) \in {2, 4}
      <4>1. 0 % 2 = 0
        OBVIOUS
      <4> QED BY <1>1, <3>3, <4>1, JumpLength
    <3> DEFINE l == Len(WordsOf(n + 1))
               q == starts[n + 1]
               m == Len(buf)
               u == UnitSize
               w == Widest
    <3>5. /\ m = q + l /\ q \in Nat /\ l \in {2, 4} /\ span \in Nat /\ q <= w * span
          /\ (u = 4 /\ w = 9 /\ span <= 4) \/ (u = 2 /\ w = 8 /\ span <= 13)
      BY <2>2, <3>2, <3>4
    <3> HIDE DEF l, q, m, u, w, span
    <3>6. m \in Nat /\ m * u <= 216 /\ m <= 216
      BY <3>5
    <3>7. m \in Nat /\ m * u <= EnterSize /\ m <= EnterSize
      BY <1>2, <3>5, <3>6
    <3> QED BY <1>2, <3>7 DEF m, u
  <2> QED BY <1>1, <2>2, <2>3, <2>4
<1> QED BY <1>4, <1>5

(* What overwrites the head is as long as what was saved.                  *)
LEMMA PatchLen ==
  ASSUME HookInv, pc = "hooked"
  PROVE  /\ IsSeq(patch) /\ Len(patch) = backup /\ backup # 0
         /\ patch[1].op # "second"
         /\ exit # None => Len(ExitWords) = ExitLen(fn.arch) /\ IsSeq(ExitWords)
         /\ exit = None => ExitWords = << >>
<1>1. /\ patch = Jumps(exit) /\ backup = (IF exit = None THEN WithoutExit ELSE WithExit) /\ backup # 0
      /\ fn \in Functions /\ fn.arch \in {"arm64", "arm", "thumb"} /\ fn.start \in Nat
  BY BackupLens, InstSizes DEF HookInv
<1>2. CASE exit # None
  <2> DEFINE w == B((exit - PcAt(fn.arch, fn.start)) % 2 ^ BranchBits)
  <2>1. patch = IF fn.arch = "thumb" THEN <<w, Second>> ELSE <<w>>
    BY <1>1, <1>2 DEF Jumps, RelativeJump, Wide
  <2>2. w.op = "b"
    BY WordOps, Zenon
  <2> HIDE DEF w
  <2>3. IsSeq(patch) /\ Len(patch) = WithExit /\ patch[1] = w
    <3>1. CASE fn.arch = "thumb"
      <4>1. patch = <<w, Second>>
        BY <2>1, <3>1
      <4>2. patch \in Seq({w, Second}) /\ Len(patch) = 2 /\ patch[1] = w
        BY <4>1
      <4> QED BY <3>1, <4>2 DEF WithExit, IsSeq
    <3>2. CASE fn.arch # "thumb"
      BY <2>1, <3>2, SeqOf1 DEF WithExit
    <3> QED BY <3>1, <3>2
  <2>4. ExitWords = AbsoluteJump(0, New)
    BY <1>2 DEF ExitWords
  <2>5. Len(ExitWords) = ExitLen(fn.arch) /\ IsSeq(ExitWords)
    <3>1. 0 % 2 = 0
      OBVIOUS
    <3> QED BY <1>1, <2>4, <3>1, JumpLength
  <2> QED BY <1>1, <1>2, <2>2, <2>3, <2>5
<1>3. CASE exit = None
  <2>1. patch = AbsoluteJump(fn.start, New)
    BY <1>1, <1>3 DEF Jumps
  <2>2. IsSeq(patch) /\ Len(patch) = WithoutExit /\ patch[1].op # "second"
    <3> DEFINE j == AbsoluteJump(fn.start, New)
    <3>1. IsSeq(j) /\ Len(j) = WithoutExit /\ j[1].op # "second"
      <4>1. CASE fn.arch = "thumb"
        <5>1. IsSeq(j) /\ Len(j) = (IF fn.start % 2 = 0 THEN 4 ELSE 5) /\ j[1].op # "second"
          BY <4>1, JumpWordsThumb
        <5> HIDE DEF j
        <5> QED BY <4>1, <5>1 DEF WithoutExit
      <4>2. CASE fn.arch \in {"arm64", "arm"}
        <5>1. IsSeq(j) /\ Len(j) = ExitLen(fn.arch) /\ j[1].op # "second"
          BY <1>1, <4>2, JumpLength
        <5> HIDE DEF j
        <5> QED BY <1>1, <4>2, <5>1, BackupLens
      <4> QED BY <1>1, <4>1, <4>2
    <3> HIDE DEF j
    <3>2. patch = j
      BY <2>1 DEF j
    <3> QED BY <3>1, <3>2, Zenon
  <2> QED BY <1>1, <1>3, <2>2 DEF ExitWords
<1> QED BY <1>2, <1>3

(* What is where once the function is hooked.                              *)
LEMMA Regions ==
  ASSUME HookInv, pc = "hooked"
  PROVE  \A a \in Int :
           /\ In(a, fn.start, patch) <=> a >= fn.start /\ a < fn.start + backup
           /\ In(a, Enter, buf) <=> a >= Enter /\ a < Enter + Len(buf)
           /\ In(a, exit, ExitWords) <=> exit # None /\ a >= exit /\ a < exit + ExitLen(fn.arch)
           /\ In(a, fn.start, patch) => ~ In(a, Enter, buf) /\ ~ In(a, exit, ExitWords)
           /\ In(a, Enter, buf) => ~ In(a, exit, ExitWords)
<1>1. /\ fn.start \in Nat /\ backup \in Nat /\ fn.start + backup <= AddressOf(n + 1) /\ AddressOf(n + 1) \in Nat
      /\ AddressOf(n + 1) <= End(fn) + 1 /\ End(fn) \in Nat /\ End(fn) + 8 < Caller /\ Caller \in Nat
  BY HeadSpan, PatchLen
<1>2. Enter \in Nat /\ Caller < Enter
  BY RewriteAssumption
<1>3. Len(buf) \in Nat /\ Len(patch) = backup
  BY EnterIsLarge, PatchLen
<1>4. exit \in ExitsOf(fn) \cup {None} /\ fn \in Functions /\ ExitLen(fn.arch) \in Nat
  BY DEF HookInv, ExitLen
<1>5. exit # None => /\ exit \in Nat /\ exit + ExitLen(fn.arch) < Caller
                     /\ exit + ExitLen(fn.arch) <= fn.start \/ exit > End(fn) + 8
  BY <1>4, ExitsLie
<1>6. Len(ExitWords) = IF exit = None THEN 0 ELSE ExitLen(fn.arch)
  BY PatchLen
<1> TAKE a \in Int
<1>7. In(a, fn.start, patch) <=> a >= fn.start /\ a < fn.start + backup
  BY <1>3 DEF In
<1>8. In(a, Enter, buf) <=> a >= Enter /\ a < Enter + Len(buf)
  BY DEF In
<1>9. In(a, exit, ExitWords) <=> exit # None /\ a >= exit /\ a < exit + ExitLen(fn.arch)
  <2>1. CASE exit = None
    BY <1>6, <2>1 DEF In, None
  <2>2. CASE exit # None
    BY <1>6, <2>2 DEF In
  <2> QED BY <2>1, <2>2
<1>10. In(a, fn.start, patch) => ~ In(a, Enter, buf) /\ ~ In(a, exit, ExitWords)
  BY <1>1, <1>2, <1>4, <1>5, <1>7, <1>8, <1>9
<1>11. In(a, Enter, buf) => ~ In(a, exit, ExitWords)
  BY <1>1, <1>2, <1>4, <1>5, <1>8, <1>9
<1> QED BY <1>7, <1>8, <1>9, <1>10, <1>11

LEMMA FetchIs ==
  ASSUME HookInv, pc = "hooked", NEW a \in Int
  PROVE  /\ In(a, fn.start, patch) => Fetch(a) = patch[a - fn.start + 1]
         /\ In(a, Enter, buf) => Fetch(a) = buf[a - Enter + 1]
         /\ In(a, exit, ExitWords) => Fetch(a) = ExitWords[a - exit + 1]
         /\ ~ In(a, fn.start, patch) /\ ~ In(a, Enter, buf) /\ ~ In(a, exit, ExitWords) => Fetch(a) = Nothing
<1>1. /\ In(a, fn.start, patch) => ~ In(a, Enter, buf) /\ ~ In(a, exit, ExitWords)
      /\ In(a, Enter, buf) => ~ In(a, exit, ExitWords)
  BY Regions
<1> QED BY <1>1, Zenon DEF Fetch

(* Where the i-th part of the enter begins.                                *)
PartAt(i) == Enter + starts[i]

(* The state once the hooking has succeeded.                               *)
Hooked == HookInv /\ fn.arch \in {"arm64", "arm"} /\ pc = "hooked"

LEMMA HookedFacts ==
  ASSUME Hooked
  PROVE  /\ fn \in Functions /\ n \in Nat /\ n >= 1 /\ Layout /\ Len(starts) = n + 1
         /\ Len(buf) \in Nat /\ Len(buf) <= EnterSize
         /\ Enter \in Nat /\ EnterSize \in Nat /\ New \in Nat /\ Enter + EnterSize < New
         /\ Caller \in Nat /\ Pointee \in Nat /\ Caller < Pointee /\ Pointee < Enter
<1>1. HookInv /\ fn.arch \in {"arm64", "arm"} /\ pc = "hooked"
  BY DEF Hooked
<1>2. Len(buf) \in Nat /\ Len(buf) <= EnterSize /\ EnterSize \in Nat
  BY <1>1, EnterIsLarge
<1>3. n \in Nat /\ n >= 1
  BY <1>1, PatchLen, HeadSpan
<1> QED BY <1>1, <1>2, <1>3, RewriteAssumption DEF HookInv

LEMMA Parts ==
  ASSUME Hooked
  PROVE  \A i \in 1 .. n + 1 :
           /\ starts[i] \in Nat /\ PartAt(i) \in Nat /\ PartAt(i) >= Enter
           /\ Len(WordsOf(i)) \in Nat /\ Len(WordsOf(i)) >= 1 /\ WordsOf(i) # << >>
           /\ IsSeq(WordsOf(i)) /\ WordsOf(i)[1].op # "second"
           /\ PartAt(i) + Len(WordsOf(i)) = IF i <= n THEN PartAt(i + 1) ELSE Enter + Len(buf)
           /\ PartAt(i) + Len(WordsOf(i)) <= Enter + Len(buf)
           /\ \A k \in 1 .. n + 1 : i < k => PartAt(i) + Len(WordsOf(i)) <= PartAt(k)
<1> TAKE i \in 1 .. n + 1
<1>1. /\ fn \in Functions /\ fn.arch \in {"arm64", "arm"} /\ n \in Nat /\ Layout /\ Len(starts) = n + 1 /\ Len(buf) \in Nat
      /\ Enter \in Nat
  BY HookedFacts DEF Hooked
<1>2. /\ starts[i] \in Nat /\ Len(WordsOf(i)) \in Nat /\ Len(WordsOf(i)) >= 1
      /\ starts[i] + Len(WordsOf(i)) <= Len(buf)
      /\ \A k \in 1 .. n + 1 : i < k => starts[i] + Len(WordsOf(i)) <= starts[k]
  BY <1>1, StartsInOrder
<1>3. Laid(i)
  BY <1>1 DEF Layout
<1>4. WordsOf(i) # << >> /\ starts[i] + Len(WordsOf(i)) = IF i < n + 1 THEN starts[i + 1] ELSE Len(buf)
  BY <1>1, <1>3 DEF Laid
<1>5. IsSeq(WordsOf(i)) /\ WordsOf(i)[1].op # "second"
  BY <1>1, <1>4, WordsWidth, Zenon
<1>6. PartAt(i) + Len(WordsOf(i)) = IF i <= n THEN PartAt(i + 1) ELSE Enter + Len(buf)
  <2>1. CASE i <= n
    <3>1. i + 1 \in 1 .. n + 1
      BY <1>1, <2>1
    <3>2. starts[i + 1] \in Nat
      BY <1>1, <3>1, StartsInOrder
    <3>3. starts[i] + Len(WordsOf(i)) = starts[i + 1]
      BY <1>1, <1>4, <2>1
    <3> QED BY <1>1, <1>2, <2>1, <3>2, <3>3 DEF PartAt
  <2>2. CASE i = n + 1
    <3>1. starts[i] + Len(WordsOf(i)) = Len(buf)
      BY <1>1, <1>4, <2>2
    <3>2. ~ (i <= n)
      BY <1>1, <2>2
    <3>3. PartAt(i) + Len(WordsOf(i)) = Enter + (starts[i] + Len(WordsOf(i)))
      BY <1>1, <1>2 DEF PartAt
    <3> QED BY <3>1, <3>2, <3>3
  <2> QED BY <1>1, <2>1, <2>2
<1>7. ASSUME NEW k \in 1 .. n + 1, i < k
      PROVE  PartAt(i) + Len(WordsOf(i)) <= PartAt(k)
  <2>1. starts[i] + Len(WordsOf(i)) <= starts[k]
    BY <1>2, <1>7
  <2>2. starts[k] \in Nat
    BY <1>1, StartsInOrder
  <2> QED BY <1>1, <1>2, <2>1, <2>2 DEF PartAt
<1>8. PartAt(i) \in Nat /\ PartAt(i) >= Enter /\ PartAt(i) + Len(WordsOf(i)) <= Enter + Len(buf)
  BY <1>1, <1>2 DEF PartAt
<1> QED BY <1>2, <1>4, <1>5, <1>6, <1>7, <1>8

(* The words of a part lie in the enter.                                   *)
LEMMA PartWord ==
  ASSUME Hooked, NEW i \in 1 .. n + 1, NEW j \in 1 .. Len(WordsOf(i))
  PROVE  Fetch(PartAt(i) + (j - 1)) = WordsOf(i)[j] /\ In(PartAt(i) + (j - 1), Enter, buf)
<1> DEFINE a == PartAt(i) + (j - 1)
           l == Len(WordsOf(i))
<1>1. /\ starts[i] \in Nat /\ PartAt(i) \in Nat /\ PartAt(i) >= Enter /\ l \in Nat
      /\ PartAt(i) + l <= Enter + Len(buf) /\ WordsOf(i) # << >>
  BY Parts
<1>2. Layout /\ Len(starts) = n + 1 /\ Len(buf) \in Nat /\ Enter \in Nat /\ n \in Nat
  BY HookedFacts
<1>3. j \in Int /\ j >= 1 /\ j <= l
  BY <1>1
<1>4. a \in Int /\ a >= Enter /\ a < Enter + Len(buf)
  BY <1>1, <1>2, <1>3
<1>5. HookInv /\ fn.arch \in {"arm64", "arm"} /\ pc = "hooked"
  BY DEF Hooked
<1>6. In(a, Enter, buf)
  BY <1>4 DEF In
<1>7. Fetch(a) = buf[a - Enter + 1]
  BY <1>4, <1>5, <1>6, FetchIs
<1>8. a - Enter + 1 = starts[i] + j
  BY <1>1, <1>2, <1>3 DEF PartAt
<1>9. buf[starts[i] + j] = WordsOf(i)[j]
  <2>1. Laid(i)
    BY <1>2 DEF Layout
  <2> QED BY <2>1 DEF Laid
<1> QED BY <1>6, <1>7, <1>8, <1>9

LEMMA NothingBehind ==
  ASSUME Hooked
  PROVE  Fetch(Enter + Len(buf)) = Nothing /\ Nothing.op # "second" /\ Nothing.op = "none"
<1> DEFINE a == Enter + Len(buf)
<1>1. HookInv /\ fn.arch \in {"arm64", "arm"} /\ pc = "hooked"
  BY DEF Hooked
<1>2. Len(buf) \in Nat /\ Enter \in Nat /\ Caller \in Nat /\ Caller < Enter /\ fn \in Functions
  BY HookedFacts
<1>3. fn.start + backup < Caller /\ fn.start \in Nat /\ backup \in Nat
  BY <1>1, PatchLen, HeadSpan
<1>4. exit # None => exit + ExitLen(fn.arch) < Caller /\ exit \in Nat /\ ExitLen(fn.arch) \in Nat
  BY <1>1, <1>2, ExitsLie DEF HookInv, ExitLen
<1>5. a \in Int
  BY <1>2
<1>6. ~ In(a, fn.start, patch) /\ ~ In(a, Enter, buf) /\ ~ In(a, exit, ExitWords)
  BY <1>1, <1>2, <1>3, <1>4, <1>5, Regions
<1>7. Fetch(a) = Nothing
  BY <1>1, <1>5, <1>6, FetchIs
<1>8. Nothing.op = "none"
  BY DEF Nothing, Word
<1> QED BY <1>7, <1>8

LEMMA PartCode ==
  ASSUME Hooked, NEW i \in 1 .. n + 1
  PROVE  CodeAt(PartAt(i), WordsOf(i))
<1>1. /\ PartAt(i) \in Nat /\ IsSeq(WordsOf(i)) /\ Len(WordsOf(i)) \in Nat
      /\ PartAt(i) + Len(WordsOf(i)) = IF i <= n THEN PartAt(i + 1) ELSE Enter + Len(buf)
  BY Parts
<1>2. \A j \in 1 .. Len(WordsOf(i)) : Fetch(PartAt(i) + (j - 1)) = WordsOf(i)[j]
  BY PartWord
<1>3. Fetch(PartAt(i) + Len(WordsOf(i))).op # "second"
  <2>1. CASE i <= n
    <3>1. i + 1 \in 1 .. n + 1 /\ n \in Nat
      BY <2>1, HookedFacts
    <3>2. Len(WordsOf(i + 1)) >= 1 /\ Len(WordsOf(i + 1)) \in Nat /\ PartAt(i + 1) \in Nat
          /\ WordsOf(i + 1)[1].op # "second"
      BY <3>1, Parts, Zenon
    <3>3. 1 \in 1 .. Len(WordsOf(i + 1))
      BY <3>2
    <3>4. Fetch(PartAt(i + 1) + (1 - 1)) = WordsOf(i + 1)[1]
      BY <3>1, <3>3, PartWord, Zenon
    <3>5. PartAt(i + 1) + (1 - 1) = PartAt(i + 1)
      BY <3>2
    <3> QED BY <1>1, <2>1, <3>2, <3>4, <3>5
  <2>2. CASE ~ (i <= n)
    BY <1>1, <2>2, NothingBehind
  <2> QED BY <2>1, <2>2
<1> QED BY <1>1, <1>2, <1>3 DEF CodeAt

LEMMA PatchCode ==
  ASSUME Hooked
  PROVE  /\ CodeAt(fn.start, patch) /\ Len(patch) = backup
         /\ exit # None => CodeAt(exit, ExitWords) /\ Len(ExitWords) = ExitLen(fn.arch)
<1>1. HookInv /\ fn.arch \in {"arm64", "arm"} /\ pc = "hooked"
  BY DEF Hooked
<1>2. /\ IsSeq(patch) /\ Len(patch) = backup /\ backup # 0 /\ patch[1].op # "second"
      /\ exit # None => Len(ExitWords) = ExitLen(fn.arch) /\ IsSeq(ExitWords)
  BY <1>1, PatchLen
<1>3. /\ fn.start \in Nat /\ backup \in Nat /\ backup >= 1 /\ fn.start + backup <= End(fn) + 1 /\ End(fn) \in Nat
      /\ End(fn) + 8 < Caller /\ Caller \in Nat
  BY <1>1, <1>2, HeadSpan
<1>4. Enter \in Nat /\ Caller < Enter /\ fn \in Functions /\ Len(buf) \in Nat
  BY HookedFacts
<1>5. exit # None => /\ exit \in Nat /\ exit + ExitLen(fn.arch) < Caller
                     /\ exit + ExitLen(fn.arch) <= fn.start \/ exit > End(fn) + 8
  BY <1>4, ExitsLie DEF HookInv, Hooked
<1>6. ExitLen(fn.arch) \in Nat /\ ExitLen(fn.arch) >= 2
  BY DEF ExitLen
<1>7. Nothing.op # "second"
  BY NothingBehind
<1>8. ASSUME NEW j \in 1 .. Len(patch)
      PROVE  Fetch(fn.start + (j - 1)) = patch[j]
  <2> DEFINE a == fn.start + (j - 1)
  <2>1. j \in Int /\ j >= 1 /\ j <= backup
    BY <1>2, <1>3
  <2>2. a \in Int /\ a >= fn.start /\ a < fn.start + backup /\ a - fn.start + 1 = j
    BY <1>3, <2>1
  <2> HIDE DEF a
  <2>3. In(a, fn.start, patch)
    BY <1>1, <2>2, Regions
  <2>4. Fetch(a) = patch[a - fn.start + 1]
    BY <1>1, <2>2, <2>3, FetchIs
  <2> QED BY <2>2, <2>4 DEF a
<1>9. Fetch(fn.start + Len(patch)).op # "second"
  <2> DEFINE a == fn.start + backup
  <2>1. a \in Int
    BY <1>3
  <2>2. ~ In(a, fn.start, patch) /\ ~ In(a, Enter, buf) /\ ~ In(a, exit, ExitWords)
    BY <1>1, <1>3, <1>4, <1>5, <1>6, <2>1, Regions
  <2>3. Fetch(a) = Nothing
    BY <1>1, <2>1, <2>2, FetchIs
  <2> QED BY <1>2, <1>7, <2>3
<1>10. CodeAt(fn.start, patch)
  BY <1>2, <1>3, <1>8, <1>9 DEF CodeAt
<1>11. ASSUME exit # None
       PROVE  CodeAt(exit, ExitWords)
  <2> DEFINE l == ExitLen(fn.arch)
  <2>1. exit \in Nat /\ exit + l < Caller /\ l \in Nat /\ l >= 2 /\ Len(ExitWords) = l /\ IsSeq(ExitWords)
    BY <1>2, <1>5, <1>6, <1>11
  <2>2. ASSUME NEW j \in 1 .. Len(ExitWords)
        PROVE  Fetch(exit + (j - 1)) = ExitWords[j]
    <3> DEFINE a == exit + (j - 1)
    <3>1. j \in Int /\ j >= 1 /\ j <= l
      BY <2>1
    <3>2. a \in Int /\ a >= exit /\ a < exit + l /\ a - exit + 1 = j
      BY <2>1, <3>1
    <3> HIDE DEF a
    <3>3. In(a, exit, ExitWords)
      BY <1>1, <1>11, <3>2, Regions
    <3>4. Fetch(a) = ExitWords[a - exit + 1]
      BY <1>1, <3>2, <3>3, FetchIs
    <3> QED BY <3>2, <3>4 DEF a
  <2>3. Fetch(exit + Len(ExitWords)).op # "second"
    <3> DEFINE a == exit + l
    <3>1. a \in Int
      BY <2>1
    <3>2. ~ In(a, exit, ExitWords) /\ ~ In(a, Enter, buf)
      <4>1. /\ In(a, Enter, buf) <=> a >= Enter /\ a < Enter + Len(buf)
            /\ In(a, exit, ExitWords) <=> exit # None /\ a >= exit /\ a < exit + ExitLen(fn.arch)
        BY <1>1, <3>1, Regions, Zenon
      <4>2. ~ (a >= Enter) /\ ~ (a < exit + l)
        BY <1>3, <1>4, <2>1
      <4> QED BY <4>1, <4>2
    <3>3. CASE In(a, fn.start, patch)
      <4>1. a = fn.start
        BY <1>1, <1>3, <1>5, <1>11, <2>1, <3>1, <3>3, Regions
      <4>2. Fetch(a) = patch[a - fn.start + 1]
        BY <1>1, <3>1, <3>3, FetchIs
      <4>3. a - fn.start + 1 = 1
        BY <1>3, <4>1
      <4> QED BY <1>2, <2>1, <4>2, <4>3
    <3>4. CASE ~ In(a, fn.start, patch)
      <4>1. Fetch(a) = Nothing
        BY <1>1, <3>1, <3>2, <3>4, FetchIs
      <4> QED BY <1>7, <2>1, <4>1
    <3> QED BY <3>3, <3>4
  <2> QED BY <2>1, <2>2, <2>3 DEF CodeAt
<1> QED BY <1>2, <1>10, <1>11

(* Where nothing of the hook is.                                           *)
Outside(a) ==
  /\ a \in 0 .. Caller \cup {Pointee, New}
  /\ ~ InHead(a)
  /\ exit # None => a < exit \/ a >= exit + ExitLen(fn.arch)

LEMMA OutsideFacts ==
  ASSUME Hooked, NEW a, Outside(a)
  PROVE  /\ a \in Nat /\ a <= New /\ Fetch(a) = Nothing /\ ~ In(a, Enter, buf)
         /\ AtBoundary(a) /\ Origin(a) = a /\ ~ (a \in Enter .. Enter + EnterSize)
<1>1. HookInv /\ fn.arch \in {"arm64", "arm"} /\ pc = "hooked"
  BY DEF Hooked
<1>2. /\ Len(buf) \in Nat /\ Len(buf) <= EnterSize
      /\ Enter \in Nat /\ EnterSize \in Nat /\ New \in Nat /\ Enter + EnterSize < New
      /\ Caller \in Nat /\ Pointee \in Nat /\ Caller < Pointee /\ Pointee < Enter
  BY HookedFacts
<1>3. a \in Nat /\ a <= New /\ (a < Enter \/ a > Enter + EnterSize)
  BY <1>2 DEF Outside
<1>4. fn.start \in Nat /\ backup \in Nat /\ fn.start + backup <= AddressOf(n + 1) /\ AddressOf(n + 1) \in Nat
  BY <1>1, PatchLen, HeadSpan
<1>5. ~ In(a, fn.start, patch)
  BY <1>1, <1>3, <1>4, Regions DEF Outside, InHead
<1>6. ~ In(a, Enter, buf)
  BY <1>1, <1>2, <1>3, Regions
<1>7. ~ In(a, exit, ExitWords)
  <2>1. ExitLen(fn.arch) \in Nat
    BY DEF ExitLen
  <2>2. exit # None => exit \in Nat
    BY <1>1, ExitsLie DEF HookInv
  <2> QED BY <1>1, <1>3, <2>1, <2>2, Regions DEF Outside
<1>8. Fetch(a) = Nothing
  BY <1>1, <1>3, <1>5, <1>6, <1>7, FetchIs
<1> QED BY <1>2, <1>3, <1>6, <1>8 DEF AtBoundary, Origin

LEMMA AtPart ==
  ASSUME Hooked, NEW i \in 1 .. n + 1
  PROVE  In(PartAt(i), Enter, buf) /\ AtBoundary(PartAt(i)) /\ Origin(PartAt(i)) = AddressOf(i)
<1>1. /\ PartAt(i) \in Nat /\ PartAt(i) >= Enter /\ Len(WordsOf(i)) \in Nat /\ Len(WordsOf(i)) >= 1
      /\ PartAt(i) + Len(WordsOf(i)) <= Enter + Len(buf)
  BY Parts
<1>2. Len(buf) \in Nat /\ Enter \in Nat /\ n \in Nat /\ Len(starts) = n + 1 /\ starts \in Seq(Nat)
  BY HookedFacts DEF Layout
<1>3. In(PartAt(i), Enter, buf)
  BY <1>1, <1>2 DEF In
<1>4. DOMAIN starts = 1 .. n + 1
  BY <1>2
<1>5. AtBoundary(PartAt(i))
  BY <1>4 DEF AtBoundary, Boundaries, PartAt
<1>6. ASSUME NEW k \in 1 .. n + 1, NEW l \in 1 .. n + 1, k < l
      PROVE  PartAt(k) < PartAt(l)
  <2>1. /\ PartAt(k) \in Nat /\ Len(WordsOf(k)) \in Nat /\ Len(WordsOf(k)) >= 1 /\ PartAt(l) \in Nat
        /\ PartAt(k) + Len(WordsOf(k)) <= PartAt(l)
    BY <1>6, Parts
  <2> QED BY <2>1
<1>7. IsNext(i, PartAt(i))
  <2>1. ASSUME NEW k \in 1 .. i - 1
        PROVE  PartAt(k) < PartAt(i)
    <3>1. k \in 1 .. n + 1 /\ k < i
      BY <1>2
    <3> QED BY <1>6, <3>1
  <2> QED BY <1>1, <2>1 DEF IsNext, PartAt
<1>8. ASSUME NEW k \in 1 .. n + 1, IsNext(k, PartAt(i))
      PROVE  k = i
  <2>1. PartAt(k) >= PartAt(i) /\ \A l \in 1 .. k - 1 : PartAt(l) < PartAt(i)
    BY <1>8 DEF IsNext, PartAt
  <2>2. ~ (k < i)
    <3>1. PartAt(k) \in Nat
      BY Parts
    <3> QED BY <1>1, <1>6, <2>1, <3>1
  <2>3. ~ (i < k)
    <3>1. ASSUME i < k
          PROVE  FALSE
      <4>1. i \in 1 .. k - 1
        BY <1>2, <3>1
      <4> QED BY <1>1, <2>1, <4>1
    <3> QED BY <3>1
  <2> QED BY <1>2, <2>2, <2>3
<1>9. (CHOOSE k \in DOMAIN starts : IsNext(k, PartAt(i))) = i
  BY <1>4, <1>7, <1>8, Zenon
<1> QED BY <1>3, <1>5, <1>9 DEF Origin

LEMMA InsidePart ==
  ASSUME Hooked, NEW i \in 1 .. n + 1, NEW a \in Int, a > PartAt(i), a < PartAt(i) + Len(WordsOf(i))
  PROVE  ~ AtBoundary(a)
<1>1. /\ PartAt(i) \in Nat /\ PartAt(i) >= Enter /\ Len(WordsOf(i)) \in Nat
      /\ PartAt(i) + Len(WordsOf(i)) <= Enter + Len(buf)
      /\ \A k \in 1 .. n + 1 : i < k => PartAt(i) + Len(WordsOf(i)) <= PartAt(k)
  BY Parts
<1>2. Len(buf) \in Nat /\ Enter \in Nat /\ n \in Nat /\ Len(starts) = n + 1 /\ starts \in Seq(Nat)
  BY HookedFacts DEF Layout
<1>3. In(a, Enter, buf)
  BY <1>1, <1>2 DEF In
<1>4. ASSUME NEW k \in 1 .. n + 1
      PROVE  PartAt(k) # a
  <2>1. PartAt(k) \in Nat /\ Len(WordsOf(k)) \in Nat /\ Len(WordsOf(k)) >= 1
        /\ (k < i => PartAt(k) + Len(WordsOf(k)) <= PartAt(i))
    BY Parts
  <2>2. k = i \/ k < i \/ i < k
    BY <1>2
  <2> QED BY <1>1, <2>1, <2>2
<1>5. DOMAIN starts = 1 .. n + 1
  BY <1>2
<1> QED BY <1>3, <1>4, <1>5 DEF AtBoundary, Boundaries, PartAt

(* The offset that the repair of an address adds up.                       *)
LEMMA FixIsSum ==
  ASSUME n \in Nat, NEW value, NEW z, \A k \in 1 .. n : z[k] \in Int,
         \A k \in 1 .. n : z[k] = IF AddressOf(k) < value.of THEN InstLen(InstAt(k)) ELSE 0
  PROVE  \E sum : /\ IsSum(sum, z, 0, n)
                  /\ FixAddr(value) = IF InHead(value.of) THEN [value EXCEPT !.of = Enter + sum[n]] ELSE value
<1> DEFINE P(sum) == sum = [k \in 0 .. n |-> IF k = 0 THEN 0
                            ELSE sum[k - 1] + IF AddressOf(k) < value.of THEN InstLen(InstAt(k)) ELSE 0]
           s == CHOOSE sum : P(sum)
<1>1. PICK sum : IsSum(sum, z, 0, n)
  BY SumExists
<1>2. \A f : IsSum(f, z, 0, n) <=> P(f)
  <2> SUFFICES ASSUME NEW f PROVE IsSum(f, z, 0, n) <=> P(f)
    OBVIOUS
  <2>1. \A k \in 0 .. n : (IF k = 0 THEN 0 ELSE f[k - 1] + z[k])
                        = (IF k = 0 THEN 0 ELSE f[k - 1] + IF AddressOf(k) < value.of THEN InstLen(InstAt(k)) ELSE 0)
    OBVIOUS
  <2>2. [k \in 0 .. n |-> IF k = 0 THEN 0 ELSE f[k - 1] + z[k]]
        = [k \in 0 .. n |-> IF k = 0 THEN 0 ELSE f[k - 1] + IF AddressOf(k) < value.of THEN InstLen(InstAt(k)) ELSE 0]
    BY <2>1
  <2> QED BY <2>2, Zenon DEF IsSum
<1>3. P(sum)
  BY <1>1, <1>2
<1>4. FixAddr(value) = IF InHead(value.of) THEN [value EXCEPT !.of = Enter + s[n]] ELSE value
  BY DEF FixAddr
<1> HIDE DEF P
<1>5. P(s)
  BY <1>3, Zenon
<1> QED BY <1>2, <1>4, <1>5, Zenon

(* A branch to an instruction of the head is led to that instruction's part *)
(* of the enter, any other address is left alone.                          *)
LEMMA FixLeads ==
  ASSUME Hooked, NEW value, NEW m \in 1 .. n, value.of = AddressOf(m)
  PROVE  FixAddr(value) = [value EXCEPT !.of = PartAt(m)] /\ InHead(value.of)
<1> DEFINE z == [k \in 1 .. n |-> IF AddressOf(k) < value.of THEN InstLen(InstAt(k)) ELSE 0]
           h == [k \in 0 .. n |-> IF k < m THEN starts[k + 1] ELSE starts[m]]
<1>1. fn \in Functions /\ fn.arch \in {"arm64", "arm"} /\ n \in Nat /\ Layout /\ Len(starts) = n + 1 /\ Enter \in Nat /\ m \in Nat /\ m >= 1 /\ m <= n
  BY HookedFacts DEF Hooked
<1>2. \A k \in 1 .. n : AddressOf(k) < value.of <=> k < m
  <2> TAKE k \in 1 .. n
  <2>1. k \in Nat \ {0} /\ m \in Nat \ {0}
    BY <1>1
  <2>2. (k < m => AddressOf(k) < AddressOf(m)) /\ (m <= k => AddressOf(m) <= AddressOf(k))
        /\ AddressOf(k) \in Nat /\ AddressOf(m) \in Nat
    BY <1>1, <2>1, AddressOrder, AddressNext
  <2> QED BY <1>1, <2>1, <2>2
<1>3. \A k \in 1 .. n : /\ starts[k] \in Nat /\ starts[k + 1] \in Nat /\ InstLen(InstAt(k)) \in Nat
                        /\ starts[k + 1] = starts[k] + InstLen(InstAt(k))
  <2> TAKE k \in 1 .. n
  <2>1. k \in 1 .. n + 1 /\ k + 1 \in 1 .. n + 1 /\ k <= n
    BY <1>1
  <2>2. /\ starts[k] \in Nat /\ starts[k + 1] \in Nat /\ WordsOf(k) # << >>
    BY <2>1, Parts
  <2>3. Laid(k)
    BY <1>1, <2>1 DEF Layout
  <2>4. starts[k] + Len(WordsOf(k)) = starts[k + 1]
    BY <1>1, <2>1, <2>3 DEF Laid
  <2>5. Len(WordsOf(k)) = InstLen(InstAt(k)) /\ Len(WordsOf(k)) \in Nat
    BY <1>1, <2>2, InstWords
  <2> QED BY <2>2, <2>4, <2>5
<1>4. \A k \in 1 .. n : z[k] \in Int /\ z[k] = IF AddressOf(k) < value.of THEN InstLen(InstAt(k)) ELSE 0
  BY <1>3
<1>5. \A k \in 1 .. n : z[k] = IF k < m THEN InstLen(InstAt(k)) ELSE 0
  BY <1>2, <1>4
<1> HIDE DEF z
<1>6. starts[1] = 0
  <2>1. starts # << >>
    BY <1>1
  <2> QED BY <1>1, <2>1 DEF Layout
<1>7. h = [k \in 0 .. n |-> IF k = 0 THEN 0 ELSE h[k - 1] + z[k]]
  <2>1. \A k \in 0 .. n : h[k] = IF k < m THEN starts[k + 1] ELSE starts[m]
    OBVIOUS
  <2> HIDE DEF h
  <2>2. ASSUME NEW k \in 0 .. n
        PROVE  h[k] = IF k = 0 THEN 0 ELSE h[k - 1] + z[k]
    <3>1. CASE k = 0
      BY <1>1, <1>6, <2>1, <3>1
    <3>2. CASE k # 0
      <4>1. k \in 1 .. n /\ k - 1 \in 0 .. n /\ k \in Nat
        BY <1>1, <3>2
      <4>2. CASE k < m
        <5>1. h[k] = starts[k + 1] /\ h[k - 1] = starts[k - 1 + 1] /\ z[k] = InstLen(InstAt(k))
          BY <1>1, <1>5, <2>1, <4>1, <4>2
        <5>2. k - 1 + 1 = k
          BY <4>1
        <5> QED BY <1>3, <3>2, <4>1, <5>1, <5>2
      <4>3. CASE k = m
        <5>1. h[k] = starts[m] /\ h[k - 1] = starts[k - 1 + 1] /\ z[k] = 0
          BY <1>1, <1>5, <2>1, <4>1, <4>3
        <5>2. k - 1 + 1 = m /\ starts[m] \in Nat
          BY <1>3, <4>1, <4>3
        <5> QED BY <3>2, <5>1, <5>2
      <4>4. CASE k > m
        <5>1. ~ (k < m) /\ ~ (k - 1 < m)
          BY <1>1, <4>1, <4>4
        <5>2. h[k] = starts[m] /\ h[k - 1] = starts[m]
          BY <2>1, <4>1, <5>1
        <5>3. z[k] = 0 /\ starts[m] \in Nat
          BY <1>3, <1>5, <4>1, <5>1
        <5> QED BY <3>2, <5>2, <5>3
      <4> QED BY <1>1, <4>1, <4>2, <4>3, <4>4
    <3> QED BY <3>1, <3>2
  <2>3. h = [k \in 0 .. n |-> h[k]]
    BY DEF h
  <2> QED BY <2>2, <2>3
<1>8. h[n] = starts[m]
  BY <1>1
<1> HIDE DEF h
<1>9. PICK sum : /\ IsSum(sum, z, 0, n)
                 /\ FixAddr(value) = IF InHead(value.of) THEN [value EXCEPT !.of = Enter + sum[n]] ELSE value
  BY <1>1, <1>4, FixIsSum
<1>10. IsSum(h, z, 0, n)
  BY <1>7, Zenon DEF IsSum
<1>11. sum[n] = h[n]
  <2>1. \A k \in 0 .. n : sum[k] = h[k]
    <3>1. n <= n /\ 0 \in Int /\ \A k \in 1 .. n : z[k] = z[k]
      BY <1>1
    <3>2. IsSum(sum, z, 0, n)
      BY <1>9
    <3>3. \A f, g : IsSum(f, z, 0, n) /\ IsSum(g, z, 0, n) => \A k \in 0 .. n : f[k] = g[k]
      <4> SUFFICES ASSUME NEW f, NEW g, IsSum(f, z, 0, n), IsSum(g, z, 0, n)
                   PROVE  \A k \in 0 .. n : f[k] = g[k]
        OBVIOUS
      <4> QED BY <1>1, <3>1, SumUnique
    <3> QED BY <1>10, <3>2, <3>3, Zenon
  <2> QED BY <1>1, <2>1
<1>12. InHead(value.of)
  <2>1. m \in Nat \ {0} /\ n + 1 \in Nat \ {0} /\ 1 \in Nat \ {0} /\ 1 <= m /\ m < n + 1
    BY <1>1
  <2>2. AddressOf(1) <= AddressOf(m) /\ AddressOf(m) < AddressOf(n + 1) /\ AddressOf(1) = fn.start
        /\ AddressOf(m) \in Nat /\ fn.start \in Nat
    BY <1>1, <2>1, AddressOrder, AddressNext
  <2> QED BY <2>2 DEF InHead
<1>13. PartAt(m) = Enter + sum[n]
  BY <1>8, <1>11 DEF PartAt
<1> QED BY <1>9, <1>12, <1>13, Zenon

(* The words of the abstract program are those of the model.               *)
LEMMA ProgramOps ==
  /\ \A a, t : Program!Address(a, t) = Address(a, t)
  /\ \A a, l : Program!Content(a, l) = Content(a, l)
  /\ \A a : Program!Sum(a) = Sum(a)
  /\ \A a : Program!Computed(a) = Computed(a)
  /\ Program!Lost = Lost /\ Program!Own = Own
  /\ \A arch, a : Program!PcAt(arch, a) = PcAt(arch, a)
  /\ \A arch, inst, a : Program!Target(arch, inst, a) = Target(arch, inst, a)
  /\ Program!Branches = Branches
<1>1. /\ \A a, t : Program!Address(a, t) = Address(a, t)
      /\ \A a, l : Program!Content(a, l) = Content(a, l)
      /\ \A a : Program!Sum(a) = Sum(a)
      /\ \A a : Program!Computed(a) = Computed(a)
      /\ Program!Lost = Lost /\ Program!Own = Own
  BY Zenon DEF Program!Address, Program!Content, Program!Sum, Program!Computed, Program!Lost, Program!Own,
               Program!Value, Address, Content, Sum, Computed, Lost, Own, Value
<1>2. /\ \A arch, a : Program!PcAt(arch, a) = PcAt(arch, a)
      /\ \A arch, a : Program!BaseAt(arch, a) = BaseAt(arch, a)
      /\ Program!Branches = Branches /\ Program!Rounded = Rounded
  BY Zenon DEF Program!PcAt, PcAt, Program!BaseAt, BaseAt, Program!Branches, Branches, Program!Rounded, Rounded
<1>3. \A arch, inst, a : Program!Target(arch, inst, a) = Target(arch, inst, a)
  <2> TAKE arch, inst, a
  <2> DEFINE b == BaseAt(arch, a)
             q == PcAt(arch, a)
  <2>1. /\ Program!BaseAt(arch, a) = b /\ Program!PcAt(arch, a) = q /\ Program!Rounded = Rounded
        /\ \A c, t : Program!Address(c, t) = Address(c, t)
    BY <1>1, <1>2, Zenon
  <2> HIDE DEF b, q
  <2>2. Program!Target(arch, inst, a) =
          LET to == (IF inst.kind \in Rounded THEN b ELSE q) + inst.imm
          IN CASE inst.kind \in {"B", "B_COND", "BL", "CBZ"} -> Address(to, arch = "thumb")
               [] inst.kind = "BLX" -> Address(to, arch # "thumb")
               [] OTHER -> Address(to, FALSE)
    BY <2>1, Zenon DEF Program!Target
  <2>3. Target(arch, inst, a) =
          LET to == (IF inst.kind \in Rounded THEN b ELSE q) + inst.imm
          IN CASE inst.kind \in {"B", "B_COND", "BL", "CBZ"} -> Address(to, arch = "thumb")
               [] inst.kind = "BLX" -> Address(to, arch # "thumb")
               [] OTHER -> Address(to, FALSE)
    BY Zenon DEF Target, b, q
  <2> QED BY <2>2, <2>3, Zenon
<1> QED BY <1>1, <1>2, <1>3, Zenon

(* The function with the padding that may follow it.                       *)
Padded == [fn EXCEPT !.insts = PaddedInsts]

LEMMA PaddedFields ==
  ASSUME fn \in Functions
  PROVE  /\ [fn EXCEPT !.insts = @ \o <<Padding>>] = Padded
         /\ Padded.arch = fn.arch /\ Padded.start = fn.start /\ Padded.insts = PaddedInsts
<1>1. IsFunction(fn)
  BY RewriteAssumption
<1>2. DOMAIN fn = {"arch", "start", "insts"}
  BY <1>1 DEF IsFunction
<1>3. [fn EXCEPT !.insts = @ \o <<Padding>>] = Padded
  BY DEF Padded, PaddedInsts
<1>4. Padded.arch = fn.arch /\ Padded.start = fn.start /\ Padded.insts = PaddedInsts
  BY <1>2 DEF Padded
<1> QED BY <1>3, <1>4

LEMMA ProgramHead ==
  ASSUME fn \in Functions
  PROVE  /\ \A i \in 1 .. Len(fn.insts) + 2 : Program!AddressOf(i) = AddressOf(i)
         /\ \A a : Program!Here(a) = Address(a, Home)
<1>1. \A insts, i : Program!SizeBefore(insts, i) = SizeBefore(insts, i)
  BY Zenon DEF Program!SizeBefore, SizeBefore
<1>2. /\ [fn EXCEPT !.insts = @ \o <<Padding>>] = Padded
      /\ Padded.arch = fn.arch /\ Padded.start = fn.start /\ Padded.insts = PaddedInsts
  BY PaddedFields
<1>3. \A i : Program!AddressOf(i) = fn.start + SizeBefore(PaddedInsts, i)
  BY <1>1, <1>2, Zenon DEF Program!AddressOf
<1>4. \A i \in 1 .. Len(fn.insts) + 2 : AddressOf(i) = fn.start + SizeBefore(PaddedInsts, i)
  BY AddressIsPlace
<1>5. \A a : Program!Here(a) = Address(a, Home)
  BY <1>2, ProgramOps, Zenon DEF Program!Here, Home
<1> QED BY <1>3, <1>4, <1>5, Zenon

(* What LR holds, and what it held in the function as it was.              *)
Seen(lr, vlr) ==
  \/ lr = Own /\ vlr = Own
  \/ \E i \in 1 .. n + 1 : lr = Address(PartAt(i), Home) /\ vlr = Address(AddressOf(i), Home)

(* Where an instruction of the head leads, and where it led in the function *)
(* as it was: to a part of the enter, or out of the head.                  *)
Lands(p, t, b) ==
  \/ \E m \in 1 .. n + 1 : p = PartAt(m) /\ t = Home /\ b = AddressOf(m)
  \/ Outside(p) /\ b = p /\ p # Caller

LEMMA GoalLands ==
  ASSUME Hooked, NEW a, NEW t, NEW to, to = Address(a, t), IsGoal(fn, to)
  PROVE  Lands(FixAddr(to).of, FixAddr(to).t, to.of) /\ FixAddr(to).t = to.t
<1>1. /\ fn \in Functions /\ n \in Nat /\ n >= 1 /\ n <= Len(fn.insts) + 1 /\ Len(fn.insts) \in Nat
      /\ AddressOf(n + 1) \in Nat /\ fn.start \in Nat
  BY HookedFacts, HeadSpan, PatchLen, InstSizes DEF Hooked
<1>2. to.of \in Nat /\ to.of < Caller /\ IsGap(fn, to.of, to.of) /\ Caller \in Nat
  BY HookedFacts DEF IsGoal
<1>3. CASE InHead(to.of)
  <2>1. PaddedEnd(fn) \in Nat /\ AddressOf(n + 1) <= PaddedEnd(fn)
    BY <1>1, FunctionEnds, PatchLen DEF Hooked, HookInv, IsHead
  <2>2. to.of \in fn.start .. PaddedEnd(fn) - 1 /\ to.of < AddressOf(n + 1)
    BY <1>1, <1>2, <1>3, <2>1 DEF InHead
  <2>3. to.t = Home /\ \E j \in 1 .. Len(fn.insts) + 1 : to.of = Place(fn, j)
    BY <2>2 DEF IsGoal, Home
  <2>4. PICK j \in 1 .. Len(fn.insts) + 1 : to.of = Place(fn, j)
    BY <2>3
  <2>5. to.of = AddressOf(j) /\ j \in Nat \ {0} /\ n + 1 \in Nat \ {0}
    BY <1>1, <2>4, AddressIsPlace
  <2>6. j <= n
    <3>1. SUFFICES ASSUME n + 1 <= j PROVE FALSE
      BY <1>1, <2>5
    <3>2. AddressOf(n + 1) <= AddressOf(j) /\ AddressOf(j) \in Nat
      BY <1>1, <2>5, <3>1, AddressOrder, AddressNext
    <3> QED BY <1>1, <2>2, <2>5, <3>2
  <2>7. j \in 1 .. n /\ j \in 1 .. n + 1
    BY <1>1, <2>5, <2>6
  <2>8. FixAddr(to) = [to EXCEPT !.of = PartAt(j)]
    BY <2>5, <2>7, FixLeads
  <2>9. FixAddr(to).of = PartAt(j) /\ FixAddr(to).t = to.t
    BY <2>8 DEF Address, Value
  <2> QED BY <2>3, <2>5, <2>7, <2>9 DEF Lands
<1>4. CASE ~ InHead(to.of)
  <2>1. FixAddr(to) = to
    BY <1>4, Zenon DEF FixAddr
  <2>2. exit # None => to.of < exit \/ to.of >= exit + ExitLen(fn.arch)
    BY <1>2 DEF IsGap, Hooked, HookInv
  <2>3. Outside(to.of) /\ to.of # Caller
    BY <1>2, <1>4, <2>2 DEF Outside
  <2> QED BY <2>1, <2>3, Zenon DEF Lands
<1> QED BY <1>3, <1>4

(* What an instruction makes of r and lr, and where it leads.              *)
State(r, lr, to) == [r |-> r, lr |-> lr, to |-> to]

LEMMA StateUpdates ==
  \A r, lr, to, q, v :
    /\ Program!Goes(State(r, lr, to), q) = State(r, lr, q)
    /\ Program!Writes(State(r, lr, to), v, q) = State(v, lr, q)
    /\ Program!Calls(State(r, lr, to), q, v) = State(r, v, q)
    /\ State(r, lr, to).r = r /\ State(r, lr, to).lr = lr /\ State(r, lr, to).to = to
<1> TAKE r, lr, to, q, v
<1>1. Program!Goes(State(r, lr, to), q) = State(r, lr, q)
  BY DEF State, Program!Goes
<1>2. Program!Writes(State(r, lr, to), v, q) = State(v, lr, q)
  <2>1. [State(r, lr, q) EXCEPT !.r = v] = State(v, lr, q)
    BY DEF State
  <2> QED BY <1>1, <2>1, Zenon DEF Program!Writes
<1>3. Program!Calls(State(r, lr, to), q, v) = State(r, v, q)
  <2>1. [State(r, lr, q) EXCEPT !.lr = v] = State(r, v, q)
    BY DEF State
  <2> QED BY <1>1, <2>1, Zenon DEF Program!Calls
<1>5. /\ State(r, lr, to).r = r /\ State(r, lr, to).lr = lr /\ State(r, lr, to).to = to
  BY DEF State
<1> QED BY <1>1, <1>2, <1>3, <1>5, Zenon

(* What the program does, instruction by instruction.                      *)
Does(inst, g, r, lr, next, target, pcv, after) ==
  IF Skips(inst, g) THEN after = State(r, lr, next)
    ELSE /\ inst.kind = "IGNORED" => after = State(Computed(inst.imm), lr, next)
         /\ inst.kind \in {"B", "B_COND", "CBZ", "BX", "MOV_PC"} => after = State(r, lr, target)
         /\ inst.kind \in {"BL", "BLX"} => after = State(r, next, target)
         /\ inst.kind \in {"ADR", "MOV"} => after = State(target, lr, next)
         /\ inst.kind = "ADD" => after = State(Sum(pcv), lr, next)
         /\ inst.kind \in {"LDR", "VLDR", "LDR_REG"} => after = State(Content(target.of, inst.len), lr, next)
         /\ inst.kind \in {"LDR_PC", "LDR_REG_PC"} => after = State(r, lr, Address(Pointee, FALSE))
         /\ inst.kind \in {"TB", "ADD_PC"} =>
              after = State(r, lr, Program!Here(pcv + IF g THEN 4 ELSE 0))
         /\ inst.kind = "PLD" => after = State(r, lr, next)

LEMMA ProgramDoes ==
  ASSUME fn \in Functions, NEW inst, NEW a, NEW g \in BOOLEAN, NEW r, NEW lr,
         NEW next, next = Program!Here(a + inst.size),
         NEW target, target = Target(fn.arch, inst, a),
         NEW pcv, pcv = PcAt(fn.arch, a),
         NEW after, after = Program!Do(inst, a, g, State(r, lr, Lost))
  PROVE  Does(inst, g, r, lr, next, target, pcv, after)
<1> DEFINE s == State(r, lr, Lost)
           content == Content(target.of, inst.len)
           k == inst.kind
<1>1. [fn EXCEPT !.insts = @ \o <<Padding>>].arch = fn.arch
  BY PaddedFields
<1>2. /\ Program!Target(fn.arch, inst, a) = target /\ Program!PcAt(fn.arch, a) = pcv
      /\ Program!Content(target.of, inst.len) = content
      /\ Program!Computed(inst.imm) = Computed(inst.imm)
      /\ Program!Sum(pcv) = Sum(pcv)
  BY ProgramOps
<1>3. Program!Where(content) = Address(Pointee, FALSE)
  <2>1. content.is = "content"
    BY DEF Content, Value
  <2> QED BY <2>1, ProgramOps DEF Program!Where
<1> HIDE DEF s, content
<1>4. after = IF Skips(inst, g) THEN Program!Goes(s, next)
     ELSE CASE k = "IGNORED" -> Program!Writes(s, Computed(inst.imm), next)
            [] k \in {"B", "B_COND", "CBZ", "BX", "MOV_PC"} -> Program!Goes(s, target)
            [] k \in {"BL", "BLX"} -> Program!Calls(s, target, next)
            [] k \in {"ADR", "MOV"} -> Program!Writes(s, target, next)
            [] k = "ADD" -> Program!Writes(s, Sum(pcv), next)
            [] k \in {"LDR", "VLDR", "LDR_REG"} -> Program!Writes(s, content, next)
            [] k \in {"LDR_PC", "LDR_REG_PC"} -> Program!Goes(s, Address(Pointee, FALSE))
            [] k \in {"TB", "ADD_PC"} -> Program!Goes(s, Program!Here(pcv + IF g THEN 4 ELSE 0))
            [] k = "PLD" -> Program!Goes(s, next)
  <2>1. after = Program!Do(inst, a, g, s)
    BY DEF s
  <2> QED BY <1>1, <1>2, <1>3, <2>1 DEF Program!Do, Skips
<1>5. /\ \A q : Program!Goes(s, q) = State(r, lr, q)
      /\ \A q, v : Program!Writes(s, v, q) = State(v, lr, q)
      /\ \A q, v : Program!Calls(s, q, v) = State(r, v, q)
  BY StateUpdates DEF s
<1>6. IF Skips(inst, g) THEN after = State(r, lr, next)
         ELSE /\ k = "IGNORED" => after = State(Computed(inst.imm), lr, next)
              /\ k \in {"B", "B_COND", "CBZ", "BX", "MOV_PC"} => after = State(r, lr, target)
              /\ k \in {"BL", "BLX"} => after = State(r, next, target)
              /\ k \in {"ADR", "MOV"} => after = State(target, lr, next)
              /\ k = "ADD" => after = State(Sum(pcv), lr, next)
              /\ k \in {"LDR", "VLDR", "LDR_REG"} => after = State(content, lr, next)
              /\ k \in {"LDR_PC", "LDR_REG_PC"} => after = State(r, lr, Address(Pointee, FALSE))
              /\ k \in {"TB", "ADD_PC"} => after = State(r, lr, Program!Here(pcv + IF g THEN 4 ELSE 0))
              /\ k = "PLD" => after = State(r, lr, next)
  BY <1>4, <1>5
<1> QED BY <1>6, Zenon DEF content, Does

(* What a rewritten instruction has done is what the instruction would     *)
(* have done.                                                              *)
LEMMA NotAimed ==
  ASSUME Hooked, NEW i \in 1 .. n, InstAt(i).kind \in {"ADR", "LDR", "VLDR", "LDR_PC"}
  PROVE  ~ AimsAtHead(i) /\ To(i) = Target(fn.arch, InstAt(i), AddressOf(i))
<1>1. /\ fn.arch = "arm64" => WordsOf(i) = A64!Rewrite(InstAt(i), To(i), AimsAtHead(i))
      /\ fn.arch = "arm" => WordsOf(i) = A32!Rewrite(InstAt(i), To(i), AimsAtHead(i), Pcv(i))
      /\ AimsAtHead(i) \in BOOLEAN /\ fn.arch \in {"arm64", "arm"}
  BY HookedFacts, WordsOfInst DEF Hooked
<1>2. i \in 1 .. n + 1 /\ i \in Nat \ {0}
  BY HookedFacts
<1>3. WordsOf(i) # << >>
  BY <1>2, Parts, Zenon
<1>4. /\ fn.arch = "arm64" => InstAt(i) \in A64!Insts
      /\ fn.arch = "arm" => InstAt(i) \in A32!Insts
  BY <1>2, HookedFacts, InstAtIs DEF Hooked
<1>5. ~ AimsAtHead(i)
  <2>1. CASE fn.arch = "arm64"
    <3>1. InstAt(i).kind # "LDR_PC"
      BY <1>4, <2>1 DEF A64!Insts, A64!InstsOf
    <3> QED BY <1>1, <1>3, <1>4, <2>1, <3>1, A64Words
  <2>2. CASE fn.arch = "arm"
    <3>1. InstAt(i).kind \in {"ADR", "LDR", "LDR_PC"} /\ InstAt(i) \in A32!Insts
      BY <1>4, <2>2 DEF A32!Insts, A32!InstsOf
    <3>2. AimsAtHead(i) => A32!Rewrite(InstAt(i), To(i), AimsAtHead(i), Pcv(i)) = << >>
      BY <3>1, A32Unfixed
    <3> QED BY <1>1, <1>3, <2>2, <3>2
  <2> QED BY <1>1, <2>1, <2>2
<1>6. FixAddr(Target(fn.arch, InstAt(i), AddressOf(i))) = Target(fn.arch, InstAt(i), AddressOf(i))
  BY <1>5, Zenon DEF AimsAtHead, FixAddr
<1> QED BY <1>5, <1>6 DEF To

(* PC of A32 is behind the head, in the function or where nothing is of the *)
(* hook; and so are function pointers.                                     *)
LEMMA PcLands ==
  ASSUME Hooked, fn.arch = "arm", NEW i \in 1 .. n, NEW d \in {0, 4}, NEW p, p = PcAt(fn.arch, AddressOf(i)) + d
  PROVE  Outside(p) /\ p # Caller
<1>1. HookInv /\ backup # 0 /\ fn \in Functions
  BY PatchLen DEF Hooked, HookInv
<1>2. /\ AddressOf(n + 1) \in Nat /\ fn.start \in Nat /\ n \in Nat /\ AddressOf(n + 1) <= fn.start + backup
      /\ AddressOf(n + 1) <= End(fn) + 1 /\ End(fn) \in Nat /\ End(fn) + 8 < Caller
      /\ Caller \in Nat
  BY <1>1, HeadSpan
<1>3. backup \in {1, 2}
  <2>1. backup \in {WithExit, WithoutExit} /\ WithExit = 1 /\ WithoutExit = 2
    BY <1>1, BackupLens DEF HookInv, ExitLen
  <2> QED BY <2>1
<1>4. /\ fn.start <= AddressOf(i) /\ AddressOf(i) < AddressOf(n + 1) /\ AddressOf(i) \in Nat
  <2>1. 1 \in Nat \ {0} /\ i \in Nat \ {0} /\ n + 1 \in Nat \ {0} /\ 1 <= i /\ i < n + 1
    BY <1>2
  <2> QED BY <1>1, <2>1, AddressOrder, AddressNext
<1>5. p = AddressOf(i) + 2 + d
  BY DEF PcAt
<1> DEFINE a == AddressOf(i)
           e == AddressOf(n + 1)
<1> HIDE DEF a, e
<1>6. p \in Nat /\ p >= e /\ p >= fn.start /\ p <= End(fn) + 6 /\ p < Caller
  BY <1>2, <1>3, <1>4, <1>5 DEF a, e
<1>7. ~ InHead(p)
  BY <1>2, <1>6 DEF InHead, e
<1>8. exit # None => p < exit \/ p >= exit + ExitLen(fn.arch)
  <2>1. exit # None => exit \in ExitsOf(fn)
    BY <1>1 DEF HookInv
  <2>2. exit # None =>
          exit \in Nat /\ (exit + ExitLen(fn.arch) <= fn.start \/ exit > End(fn) + 8)
    BY <1>1, <2>1, ExitsLie
  <2>3. ExitLen(fn.arch) \in {2, 4}
    BY <1>1, BackupLens
  <2> QED BY <1>2, <1>6, <2>2, <2>3
<1> QED BY <1>2, <1>6, <1>7, <1>8 DEF Outside

LEMMA PointeeLands ==
  ASSUME Hooked
  PROVE  Outside(Pointee) /\ Pointee # Caller
<1>1. HookInv /\ backup # 0 /\ fn \in Functions /\ fn.arch \in {"arm64", "arm"}
  BY PatchLen DEF Hooked, HookInv
<1>2. Pointee \in Nat /\ Caller \in Nat /\ Caller < Pointee
  BY HookedFacts
<1>3. AddressOf(n + 1) \in Nat /\ AddressOf(n + 1) <= End(fn) + 1 /\ End(fn) \in Nat /\ End(fn) + 8 < Caller
  BY <1>1, HeadSpan
<1>4. ~ InHead(Pointee)
  BY <1>2, <1>3 DEF InHead
<1>5. exit # None => Pointee >= exit + ExitLen(fn.arch)
  <2>1. exit # None => exit \in ExitsOf(fn)
    BY <1>1 DEF HookInv
  <2>2. exit # None => exit \in Nat /\ exit + ExitLen(fn.arch) < Caller
    BY <1>1, <2>1, ExitsLie
  <2>3. ExitLen(fn.arch) \in {2, 4}
    BY <1>1, BackupLens
  <2> QED BY <1>2, <2>2, <2>3
<1> QED BY <1>2, <1>4, <1>5 DEF Outside

(* What an instruction that refers to PC alone refers to.                  *)
LEMMA PcIsTarget ==
  ASSUME Hooked, NEW i \in 1 .. n,
         InstAt(i).kind \in {"ADD", "ADD_PC", "MOV", "MOV_PC", "BX", "LDR_REG", "LDR_REG_PC"}
  PROVE  /\ fn.arch = "arm" /\ Target(fn.arch, InstAt(i), AddressOf(i)) = Pcv(i)
         /\ Pcv(i).of = PcAt(fn.arch, AddressOf(i)) /\ Pcv(i).t = FALSE
<1>1. i \in Nat \ {0} /\ fn \in Functions /\ fn.arch \in {"arm64", "arm"}
  BY HookedFacts DEF Hooked
<1>2. /\ fn.arch = "arm64" => InstAt(i) \in A64!Insts
      /\ RefersWell(fn, InstAt(i), AddressOf(i))
  BY <1>1, InstAtIs
<1>3. fn.arch = "arm"
  BY <1>1, <1>2 DEF A64!Insts, A64!InstsOf
<1>4. InstAt(i).imm = 0
  BY <1>2 DEF RefersWell
<1>5. PcAt(fn.arch, AddressOf(i)) \in Int
  BY <1>1, AddressNext DEF PcAt
<1> DEFINE q == PcAt(fn.arch, AddressOf(i))
<1>6. Target(fn.arch, InstAt(i), AddressOf(i)) = Address(q + 0, FALSE)
  BY <1>4 DEF Target, Rounded
<1>7. q + 0 = q
  BY <1>5
<1> QED BY <1>3, <1>6, <1>7, AddressFields DEF Pcv

LEMMA DoneLands ==
  ASSUME Hooked, NEW i \in 1 .. n, NEW g \in BOOLEAN, NEW r, NEW x, NEW y, NEW lr, NEW vlr, Seen(lr, vlr),
         NEW p, NEW t, NEW rg,
         Done(InstAt(i), To(i), Pcv(i), g, PartAt(i + 1), r, x, y, lr, p, t, rg)
  PROVE  \E r1, xx, lr1, vlr1, b :
           /\ rg = Regs(r1, xx, y, lr1) /\ Seen(lr1, vlr1)
           /\ xx = x \/ (fn.arch = "arm64" /\ InstAt(i).kind \in Branches)
           /\ Lands(p, t, b)
           /\ Program!Do(InstAt(i), AddressOf(i), g, State(r, vlr, Lost)) = State(r1, vlr1, Address(b, t))
<1> DEFINE inst == InstAt(i)
           target == Target(fn.arch, inst, AddressOf(i))
           next == Address(AddressOf(i + 1), Home)
           after == Program!Do(inst, AddressOf(i), g, State(r, vlr, Lost))
           end == PartAt(i + 1)
           here == PcAt(fn.arch, AddressOf(i))
           pcv == Pcv(i)
           d == IF g THEN 4 ELSE 0
<1>1. i \in Nat \ {0} /\ fn \in Functions /\ fn.arch \in {"arm64", "arm"} /\ n \in Nat /\ i + 1 \in 1 .. n + 1
  BY HookedFacts DEF Hooked
<1>2. (inst \in A64!Insts \/ inst \in A32!Insts) /\ RefersWell(fn, inst, AddressOf(i))
  BY <1>1, InstAtIs
<1>3. /\ inst.kind \in {"IGNORED", "B", "B_COND", "BL", "ADR", "LDR", "PLD", "VLDR", "CBZ", "BX", "BLX",
                        "ADD", "ADD_PC", "MOV", "MOV_PC", "LDR_PC", "LDR_REG", "LDR_REG_PC"}
      /\ inst.size = 1
  BY <1>2 DEF A64!Insts, A64!InstsOf, A32!Insts, A32!InstsOf
<1>4. AddressOf(i + 1) = AddressOf(i) + inst.size
  BY <1>1, AddressNext
<1>5. Program!Here(AddressOf(i) + inst.size) = next
  BY <1>1, <1>4, ProgramHead, Zenon
<1>6. PICK a, ta : target = Address(a, ta)
  BY DEF Target
<1>7. target.of = a /\ target.t = ta /\ Address(target.of, target.t) = target
  BY <1>6 DEF Address, Value
<1>8. ASSUME inst.kind \in {"B", "B_COND", "BL", "CBZ", "BX", "BLX"}
      PROVE  Lands(To(i).of, To(i).t, target.of) /\ To(i).t = target.t
  <2>1. IsGoal(fn, target)
    BY <1>2, <1>8 DEF RefersWell
  <2>2. Lands(To(i).of, To(i).t, target.of) /\ To(i).t = target.t
    BY <1>6, <2>1, GoalLands DEF To
  <2> QED BY <2>1, <2>2
<1>9. Lands(end, Home, AddressOf(i + 1))
  BY <1>1 DEF Lands
<1>10. Seen(Address(end, Home), next)
  BY <1>1 DEF Seen
<1>11. Does(inst, g, r, vlr, next, target, here, after)
  <2>0. here = PcAt(fn.arch, AddressOf(i))
    OBVIOUS
  <2> HIDE DEF inst, target, next, after, here
  <2>1. after = Program!Do(inst, AddressOf(i), g, State(r, vlr, Lost))
    BY DEF after
  <2>2. target = Target(fn.arch, inst, AddressOf(i))
    BY DEF target
  <2>3. next = Program!Here(AddressOf(i) + inst.size)
    BY <1>5
  <2> QED BY <1>1, <2>0, <2>1, <2>2, <2>3, ProgramDoes
<1>12. PICK xx :
         /\ xx = x \/ (fn.arch = "arm64" /\ inst.kind \in Branches)
         /\ LET falls(r1)    == p = end /\ t = Home /\ rg = Regs(r1, xx, y, lr)
                goes(v, lr1) == p = v.of /\ t = v.t /\ rg = Regs(r, xx, y, lr1)
            IN IF Skips(inst, g) THEN falls(r)
               ELSE /\ inst.kind = "IGNORED" => falls(Computed(inst.imm))
                    /\ inst.kind \in {"B", "B_COND", "CBZ", "BX"} => goes(To(i), lr)
                    /\ inst.kind \in {"BL", "BLX"} => goes(To(i), Address(end, Home))
                    /\ inst.kind = "ADR" => falls(To(i))
                    /\ inst.kind = "MOV" => falls(pcv)
                    /\ inst.kind = "ADD" => falls(Sum(pcv.of))
                    /\ inst.kind \in {"LDR", "VLDR"} => falls(Content(To(i).of, inst.len))
                    /\ inst.kind = "LDR_REG" => falls(Content(pcv.of, inst.len))
                    /\ inst.kind = "PLD" => falls(r)
                    /\ inst.kind = "MOV_PC" => goes(pcv, lr)
                    /\ inst.kind \in {"LDR_PC", "LDR_REG_PC"} => goes(Address(Pointee, FALSE), lr)
                    /\ inst.kind \in {"TB", "ADD_PC"} => goes(Address(pcv.of + d, Home), lr)
  BY Zenon DEF Done
<1> DEFINE Out(r1, lr1, vlr1, b) ==
      rg = Regs(r1, xx, y, lr1) /\ Seen(lr1, vlr1) /\ Lands(p, t, b) /\ after = State(r1, vlr1, Address(b, t))
<1>13. SUFFICES \E r1, lr1, vlr1, b : Out(r1, lr1, vlr1, b)
  BY <1>12, Zenon
<1>14. inst.kind \in {"ADR", "LDR", "VLDR"} => To(i) = target
  BY NotAimed
<1>18. ASSUME inst.kind \in {"ADD", "ADD_PC", "MOV", "MOV_PC", "BX", "LDR_REG", "LDR_REG_PC"}
       PROVE  target = pcv /\ pcv.of = here /\ pcv.t = FALSE /\ target = Address(here, FALSE)
  BY <1>18, PcIsTarget DEF Pcv
<1>19. ASSUME inst.kind \in {"ADD_PC", "MOV_PC"}
       PROVE  /\ Lands(here, FALSE, here)
              /\ Lands(here + d, Home, here + d) /\ Program!Here(here + d) = Address(here + d, Home)
  <2>1. fn.arch = "arm"
    BY <1>19, PcIsTarget
  <2>2. Outside(here + 0) /\ here + 0 # Caller
    BY <2>1, PcLands
  <2>3. Outside(here + d) /\ here + d # Caller
    BY <2>1, PcLands
  <2>4. here + 0 = here
    BY <1>1, AddressNext DEF PcAt
  <2>5. Program!Here(here + d) = Address(here + d, Home)
    BY <1>1, ProgramHead, Zenon
  <2> QED BY <2>2, <2>3, <2>4, <2>5 DEF Lands
<1>20. Lands(Pointee, FALSE, Pointee)
  BY PointeeLands DEF Lands
<1> HIDE DEF inst, target, next, after, end, here, pcv, d
<1>15. ASSUME NEW r1, p = end, t = Home, rg = Regs(r1, xx, y, lr), after = State(r1, vlr, next)
       PROVE  \E r2, lr1, vlr1, b : Out(r2, lr1, vlr1, b)
  <2>1. Out(r1, lr, vlr, AddressOf(i + 1))
    BY <1>9, <1>15, Zenon DEF next
  <2> QED BY <2>1, Zenon
<1>21. ASSUME NEW b, p = b, rg = Regs(r, xx, y, lr), after = State(r, vlr, Address(b, t)), Lands(b, t, b)
       PROVE  \E r2, lr1, vlr1, c : Out(r2, lr1, vlr1, c)
  <2>1. Out(r, lr, vlr, b)
    BY <1>21, Zenon
  <2> QED BY <2>1, Zenon
<1>16. CASE Skips(inst, g)
  <2>1. after = State(r, vlr, next)
    BY <1>11, <1>16, Zenon DEF Does
  <2> QED BY <1>12, <1>15, <1>16, <2>1, Zenon
<1>17. CASE ~ Skips(inst, g)
  <2>1. CASE inst.kind \in {"B", "B_COND", "CBZ", "BX"}
    <3>1. p = To(i).of /\ t = To(i).t /\ rg = Regs(r, xx, y, lr) /\ after = State(r, vlr, target)
      BY <1>11, <1>12, <1>17, <2>1 DEF Does
    <3>2. Lands(p, t, target.of) /\ target = Address(target.of, t)
      BY <1>7, <1>8, <2>1, <3>1
    <3>3. Out(r, lr, vlr, target.of)
      BY <3>1, <3>2, Zenon
    <3> QED BY <3>3, Zenon
  <2>2. CASE inst.kind \in {"BL", "BLX"}
    <3>1. p = To(i).of /\ t = To(i).t /\ rg = Regs(r, xx, y, Address(end, Home)) /\ after = State(r, next, target)
      BY <1>11, <1>12, <1>17, <2>2 DEF Does
    <3>2. Lands(p, t, target.of) /\ target = Address(target.of, t)
      BY <1>7, <1>8, <2>2, <3>1
    <3>3. Out(r, Address(end, Home), next, target.of)
      BY <1>10, <3>1, <3>2, Zenon
    <3> QED BY <3>3, Zenon
  <2>3. CASE inst.kind = "IGNORED"
    <3>1. p = end /\ t = Home /\ rg = Regs(Computed(inst.imm), xx, y, lr)
          /\ after = State(Computed(inst.imm), vlr, next)
      BY <1>11, <1>12, <1>17, <2>3 DEF Does
    <3> QED BY <1>15, <3>1
  <2>4. CASE inst.kind = "ADR"
    <3>1. p = end /\ t = Home /\ rg = Regs(target, xx, y, lr) /\ after = State(target, vlr, next)
      BY <1>11, <1>12, <1>14, <1>17, <2>4 DEF Does
    <3> QED BY <1>15, <3>1
  <2>5. CASE inst.kind \in {"LDR", "VLDR"}
    <3>1. p = end /\ t = Home /\ rg = Regs(Content(target.of, inst.len), xx, y, lr)
          /\ after = State(Content(target.of, inst.len), vlr, next)
      BY <1>11, <1>12, <1>14, <1>17, <2>5 DEF Does
    <3> QED BY <1>15, <3>1
  <2>6. CASE inst.kind = "PLD"
    <3>1. p = end /\ t = Home /\ rg = Regs(r, xx, y, lr) /\ after = State(r, vlr, next)
      BY <1>11, <1>12, <1>17, <2>6 DEF Does
    <3> QED BY <1>15, <3>1
  <2>7. CASE inst.kind = "MOV"
    <3>1. p = end /\ t = Home /\ rg = Regs(target, xx, y, lr) /\ after = State(target, vlr, next)
      BY <1>11, <1>12, <1>17, <1>18, <2>7 DEF Does
    <3> QED BY <1>15, <3>1
  <2>8. CASE inst.kind = "ADD"
    <3>1. p = end /\ t = Home /\ rg = Regs(Sum(here), xx, y, lr) /\ after = State(Sum(here), vlr, next)
      BY <1>11, <1>12, <1>17, <1>18, <2>8 DEF Does
    <3> QED BY <1>15, <3>1
  <2>9. CASE inst.kind = "LDR_REG"
    <3>1. p = end /\ t = Home /\ rg = Regs(Content(target.of, inst.len), xx, y, lr)
          /\ after = State(Content(target.of, inst.len), vlr, next)
      BY <1>11, <1>12, <1>17, <1>18, <2>9 DEF Does
    <3> QED BY <1>15, <3>1
  <2>10. CASE inst.kind = "MOV_PC"
    <3>1. p = here /\ t = FALSE /\ rg = Regs(r, xx, y, lr) /\ after = State(r, vlr, Address(here, FALSE))
      BY <1>11, <1>12, <1>17, <1>18, <2>10 DEF Does
    <3>2. Lands(here, FALSE, here)
      BY <1>19, <2>10
    <3> QED BY <1>21, <3>1, <3>2
  <2>11. CASE inst.kind = "ADD_PC"
    <3>1. p = here + d /\ t = Home /\ rg = Regs(r, xx, y, lr)
      <4>1. p = Address(pcv.of + d, Home).of /\ t = Address(pcv.of + d, Home).t /\ rg = Regs(r, xx, y, lr)
        BY <1>12, <1>17, <2>11
      <4>2. pcv.of = here
        BY <1>18, <2>11
      <4> QED BY <4>1, <4>2, AddressFields
    <3>2. after = State(r, vlr, Program!Here(here + d))
      BY <1>11, <1>17, <2>11 DEF Does, d
    <3>3. Lands(here + d, Home, here + d) /\ Program!Here(here + d) = Address(here + d, Home)
      BY <1>19, <2>11
    <3> QED BY <1>21, <3>1, <3>2, <3>3
  <2>12. CASE inst.kind \in {"LDR_PC", "LDR_REG_PC"}
    <3>1. p = Address(Pointee, FALSE).of /\ t = Address(Pointee, FALSE).t /\ rg = Regs(r, xx, y, lr)
          /\ after = State(r, vlr, Address(Pointee, FALSE))
      BY <1>11, <1>12, <1>17, <2>12 DEF Does
    <3>2. p = Pointee /\ t = FALSE
      BY <3>1, AddressFields
    <3> QED BY <1>20, <1>21, <3>1, <3>2
  <2> QED BY <1>3, <2>1, <2>2, <2>3, <2>4, <2>5, <2>6, <2>7, <2>8, <2>9, <2>10, <2>11, <2>12
<1> QED BY <1>16, <1>17

(* What a literal of the head holds is not overwritten.                    *)
LEMMA LiteralKept ==
  ASSUME Hooked, NEW i \in 1 .. n, InstAt(i).kind \in {"LDR", "VLDR", "LDR_PC"}
  PROVE  LoadsWell(To(i), InstAt(i).len) /\ To(i).is = "address"
<1> DEFINE inst == InstAt(i)
           of == To(i).of
           len == inst.len
           here == PcAt(fn.arch, AddressOf(i))
<1>1. i \in Nat \ {0} /\ fn \in Functions /\ fn.arch \in {"arm64", "arm"} /\ n \in Nat /\ HookInv /\ backup # 0 /\ pc = "hooked"
  BY HookedFacts, PatchLen DEF Hooked
<1>2. (inst \in A64!Insts \/ inst \in A32!Insts) /\ RefersWell(fn, inst, AddressOf(i))
  BY <1>1, InstAtIs
<1>3. inst.imm \in Int /\ len \in Nat
  BY <1>2 DEF A64!Insts, A64!InstsOf, A32!Insts, A32!InstsOf
<1>4. To(i) = Target(fn.arch, inst, AddressOf(i)) /\ ~ AimsAtHead(i)
  BY NotAimed
<1>5. To(i) = Address(here + inst.imm, FALSE)
  <2>1. BaseAt(fn.arch, AddressOf(i)) = here
    BY <1>1 DEF BaseAt
  <2>2. Target(fn.arch, inst, AddressOf(i)) = Address(here + inst.imm, FALSE)
    BY <2>1 DEF Target
  <2> QED BY <1>4, <2>2
<1>6. of = here + inst.imm /\ To(i).is = "address"
  BY <1>5 DEF Address, Value
<1>7. of \in Int
  <2>1. here \in Int
    BY <1>1, AddressNext DEF PcAt
  <2> QED BY <1>3, <1>6, <2>1
<1>8. of >= fn.start \/ of + len <= fn.start
  BY <1>2, <1>4 DEF RefersWell
<1>9. ~ (of >= fn.start /\ of < AddressOf(n + 1))
  BY <1>4 DEF AimsAtHead, InHead
<1>10. AddressOf(n + 1) \in Nat /\ fn.start \in Nat /\ fn.start + backup <= AddressOf(n + 1) /\ backup \in 1 .. 5
  BY <1>1, HeadSpan
<1>11. ASSUME NEW a \in of .. of + len - 1
       PROVE  ~ In(a, fn.start, patch)
  <2> HIDE DEF of, len
  <2>1. a \in Int /\ a >= of /\ a <= of + len - 1
    BY <1>3, <1>7
  <2>2. In(a, fn.start, patch) <=> a >= fn.start /\ a < fn.start + backup
    BY <1>1, <2>1, Regions
  <2>3. ~ (a >= fn.start /\ a < fn.start + backup)
    BY <1>3, <1>7, <1>8, <1>9, <1>10, <2>1
  <2> QED BY <2>2, <2>3
<1> QED BY <1>6, <1>11 DEF Loaded, LoadsWell

(* Nor is what PC alone points at: in A32 that lies behind the head.       *)
LEMMA PcKept ==
  ASSUME Hooked, NEW i \in 1 .. n, InstAt(i).kind \in {"LDR_REG", "LDR_REG_PC"}
  PROVE  LoadsWell(Pcv(i), InstAt(i).len)
<1> DEFINE of == AddressOf(i) + 2
           len == InstAt(i).len
<1>1. i \in Nat \ {0} /\ fn \in Functions /\ fn.arch \in {"arm64", "arm"} /\ n \in Nat /\ HookInv /\ backup # 0 /\ pc = "hooked"
      /\ i <= n
  BY HookedFacts, PatchLen DEF Hooked
<1>2. /\ fn.arch = "arm64" => InstAt(i) \in A64!Insts
      /\ fn.arch = "arm" => InstAt(i) \in A32!Insts
  BY <1>1, InstAtIs
<1>3. fn.arch = "arm" /\ len \in Nat
  BY <1>1, <1>2 DEF A64!Insts, A64!InstsOf, A32!Insts, A32!InstsOf
<1>4. Pcv(i).is = "address" /\ Pcv(i).of = of
  BY <1>3 DEF Pcv, PcAt, Address, Value
<1>5. backup <= 2 /\ fn.start + 2 <= of /\ of \in Nat /\ fn.start \in Nat /\ backup \in Nat
  <2>1. 1 \in Nat \ {0} /\ 1 <= i
    BY <1>1
  <2>2. AddressOf(1) <= AddressOf(i) /\ AddressOf(1) = fn.start
    BY <1>1, <2>1, AddressOrder, AddressNext
  <2>3. AddressOf(i) \in Nat /\ fn.start \in Nat
    BY <1>1, <2>2, AddressNext, HeadSpan
  <2>4. backup \in {WithExit, WithoutExit} /\ WithExit = 1 /\ WithoutExit = 2
    BY <1>1, <1>3, BackupLens DEF HookInv, ExitLen
  <2> QED BY <2>2, <2>3, <2>4
<1>6. ASSUME NEW a \in of .. of + len - 1
      PROVE  ~ In(a, fn.start, patch)
  <2> HIDE DEF of, len
  <2>1. a \in Int /\ a >= of /\ a <= of + len - 1
    BY <1>3, <1>5
  <2>2. In(a, fn.start, patch) <=> a >= fn.start /\ a < fn.start + backup
    BY <1>1, <2>1, Regions
  <2>3. ~ (a >= fn.start /\ a < fn.start + backup)
    BY <1>5, <2>1
  <2> QED BY <2>2, <2>3
<1>7. \A a \in Pcv(i).of .. Pcv(i).of + len - 1 : ~ In(a, fn.start, patch)
  BY <1>4, <1>6
<1> QED BY <1>4, <1>7 DEF Loaded, LoadsWell

(* Wherever a thread is in a rewritten instruction, there is code.         *)
IsCode(w) == w.op \notin DataWords /\ w.op # "none"

LEMMA A64MidCode ==
  ASSUME NEW inst \in A64!Insts, NEW to, NEW inHead \in BOOLEAN, NEW s, NEW o, CodeAt(o, s),
         s = A64!Rewrite(inst, to, inHead), s # << >>,
         NEW pcv, NEW g, NEW r, NEW x, NEW y, NEW lr, NEW p, NEW rg, NEW st,
         A64Mid(inst, to, pcv, o, g, r, x, y, lr, p, rg, st)
  PROVE  p \in Nat /\ p >= o /\ p < o + Len(s) /\ IsCode(Fetch(p))
<1> DEFINE k == inst.kind
<1>1. k \in {"IGNORED", "B", "B_COND", "BL", "ADR", "LDR", "PLD", "VLDR", "CBZ"} /\ inst.c = FALSE
  BY DEF A64!Insts, A64!InstsOf
<1>2. /\ Len(s) = A64!InstLen(inst)
      /\ k = "B" => s[1] = Ldr("x", 2) /\ s[2] = B(3) /\ s[5] = Set("br", "pc", "x")
      /\ k = "BL" => s[1] = Ldr("x", 2) /\ s[2] = B(3) /\ s[5] = Set("blr", "pc", "x")
      /\ k = "B_COND" =>
           s[1] = IfTaken(2) /\ s[2] = B(6) /\ s[3] = Ldr("x", 2) /\ s[4] = B(3) /\ s[7] = Set("br", "pc", "x")
      /\ k = "ADR" => s[1] = Ldr("r", 2) /\ s[2] = B(3)
      /\ k = "LDR" => s[1] = Ldr("r", 3) /\ s[2] = Load("r", "r", inst.len) /\ s[3] = B(3)
      /\ k = "PLD" => s[1] = Push("x") /\ s[2] = Ldr("x", 4) /\ s[3] = Nop /\ s[4] = Pop("x") /\ s[5] = B(3)
      /\ k = "VLDR" => s[1] = Push("x") /\ s[2] = Ldr("x", 4) /\ s[3] = Load("r", "x", inst.len)
                       /\ s[4] = Pop("x") /\ s[5] = B(3)
      /\ k = "CBZ" => s[1] = IfTaken(2) /\ s[2] = B(5) /\ s[3] = Ldr("x", 2) /\ s[4] = Set("br", "pc", "x")
      /\ k = "IGNORED" => s[1] = Plain(inst)
  BY A64Words
<1>3. A64!InstLen(inst) = CASE k = "IGNORED" -> 1
    [] k = "ADR" -> 4
    [] k \in {"B", "BL", "LDR"} -> 5
    [] k = "CBZ" -> 6
    [] k \in {"B_COND", "PLD", "VLDR"} -> 7
  BY DEF A64!InstLen
<1>4. o \in Nat /\ Len(s) \in Nat
  BY CodeWords, Zenon
<1>5. \A j \in 1 .. Len(s) : Fetch(o + (j - 1)) = s[j]
  BY DEF CodeAt
<1>6. \A j \in 1 .. Len(s) : IsCode(s[j]) /\ p = o + (j - 1) =>
        p \in Nat /\ p >= o /\ p < o + Len(s) /\ IsCode(Fetch(p))
  BY <1>4, <1>5
<1>7. SUFFICES \E j \in 1 .. Len(s) : IsCode(s[j]) /\ p = o + (j - 1)
  BY <1>6
<1> DEFINE at(m, j) == p = o + m /\ j = m + 1 /\ j \in 1 .. Len(s) /\ IsCode(s[j])
<1>8. k \in {"IGNORED", "B", "BL", "B_COND", "ADR", "LDR", "PLD", "VLDR", "CBZ"} => IsCode(s[1])
  BY <1>2, WordOps DEF IsCode, DataWords
<1>9. \A m \in 0 .. 6 : p = o + m /\ m + 1 \in 1 .. Len(s) /\ IsCode(s[m + 1]) =>
        \E j \in 1 .. Len(s) : IsCode(s[j]) /\ p = o + (j - 1)
  <2> TAKE m \in 0 .. 6
  <2> HAVE p = o + m /\ m + 1 \in 1 .. Len(s) /\ IsCode(s[m + 1])
  <2> WITNESS m + 1 \in 1 .. Len(s)
  <2> QED BY <1>4
<1>10. \E m \in 0 .. 6 :
         /\ p = o + m /\ m + 1 <= Len(s)
         /\ \/ m = 0
            \/ m = 1 /\ k \in {"B", "BL", "B_COND", "CBZ", "ADR", "LDR", "PLD", "VLDR"}
            \/ m = 4 /\ k \in {"B", "BL", "PLD", "VLDR"}
            \/ m = 2 /\ k \in {"B_COND", "CBZ", "LDR", "PLD", "VLDR"}
            \/ m = 3 /\ k \in {"B_COND", "CBZ", "PLD", "VLDR"}
            \/ m = 6 /\ k = "B_COND"
  <2>1. \E m \in 0 .. 6 :
         /\ p = o + m
         /\ \/ m = 0
            \/ m = 1 /\ k \in {"B", "BL", "B_COND", "CBZ", "ADR", "LDR", "PLD", "VLDR"}
            \/ m = 4 /\ k \in {"B", "BL", "PLD", "VLDR"}
            \/ m = 2 /\ k \in {"B_COND", "CBZ", "LDR", "PLD", "VLDR"}
            \/ m = 3 /\ k \in {"B_COND", "CBZ", "PLD", "VLDR"}
            \/ m = 6 /\ k = "B_COND"
    <3> DEFINE P(m) == 
         /\ p = o + m
         /\ \/ m = 0
            \/ m = 1 /\ k \in {"B", "BL", "B_COND", "CBZ", "ADR", "LDR", "PLD", "VLDR"}
            \/ m = 4 /\ k \in {"B", "BL", "PLD", "VLDR"}
            \/ m = 2 /\ k \in {"B_COND", "CBZ", "LDR", "PLD", "VLDR"}
            \/ m = 3 /\ k \in {"B_COND", "CBZ", "PLD", "VLDR"}
            \/ m = 6 /\ k = "B_COND"
    <3>1. p = o \/ P(0) \/ P(1) \/ P(2) \/ P(3) \/ P(4) \/ P(6)
      BY <1>4 DEF A64Mid
    <3>2. p = o => P(0)
      BY <1>4
    <3> HIDE DEF P
    <3>3. \E m \in 0 .. 6 : P(m)
      BY <3>1, <3>2
    <3> QED BY <3>3, Zenon DEF P
  <2> QED BY <1>1, <1>2, <1>3, <2>1
<1>11. PICK m \in 0 .. 6 :
         /\ p = o + m /\ m + 1 <= Len(s)
         /\ \/ m = 0
            \/ m = 1 /\ k \in {"B", "BL", "B_COND", "CBZ", "ADR", "LDR", "PLD", "VLDR"}
            \/ m = 4 /\ k \in {"B", "BL", "PLD", "VLDR"}
            \/ m = 2 /\ k \in {"B_COND", "CBZ", "LDR", "PLD", "VLDR"}
            \/ m = 3 /\ k \in {"B_COND", "CBZ", "PLD", "VLDR"}
            \/ m = 6 /\ k = "B_COND"
  BY <1>10
<1>12. IsCode(s[m + 1])
  <2>1. k \in {"B", "BL", "B_COND", "CBZ", "ADR", "LDR", "PLD", "VLDR"} => IsCode(s[2])
    BY <1>2, WordOps DEF IsCode, DataWords
  <2>2. k \in {"B", "BL", "PLD", "VLDR"} => IsCode(s[5])
    BY <1>2, WordOps DEF IsCode, DataWords
  <2>3. k \in {"B_COND", "CBZ", "LDR", "PLD", "VLDR"} => IsCode(s[3])
    BY <1>2, WordOps DEF IsCode, DataWords
  <2>4. k \in {"B_COND", "CBZ", "PLD", "VLDR"} => IsCode(s[4])
    BY <1>2, WordOps DEF IsCode, DataWords
  <2>5. k = "B_COND" => IsCode(s[7])
    BY <1>2, WordOps DEF IsCode, DataWords
  <2>6. /\ m = 0 => s[m + 1] = s[1]
        /\ m = 1 => s[m + 1] = s[2]
        /\ m = 2 => s[m + 1] = s[3]
        /\ m = 3 => s[m + 1] = s[4]
        /\ m = 4 => s[m + 1] = s[5]
        /\ m = 6 => s[m + 1] = s[7]
    OBVIOUS
  <2> QED BY <1>1, <1>8, <1>11, <2>1, <2>2, <2>3, <2>4, <2>5, <2>6
<1>13. m + 1 \in 1 .. Len(s)
  BY <1>4, <1>11
<1> QED BY <1>9, <1>11, <1>12, <1>13, Zenon

(* A word of code among those that are there.                              *)
LEMMA CodeWithin ==
  ASSUME NEW o, NEW s, CodeAt(o, s), NEW m \in 0 .. 8, m + 1 <= Len(s), IsCode(s[m + 1]), NEW p, p = o + m
  PROVE  p \in Nat /\ p >= o /\ p < o + Len(s) /\ IsCode(Fetch(p))
<1>1. o \in Nat /\ Len(s) \in Nat
  BY CodeWords, Zenon
<1> DEFINE j == m + 1
<1>2. j \in 1 .. Len(s) /\ o + (j - 1) = p /\ p \in Nat /\ p >= o /\ p < o + Len(s)
  BY <1>1
<1>3. Fetch(o + (j - 1)) = s[j]
  BY <1>2 DEF CodeAt
<1> QED BY <1>2, <1>3

LEMMA A32BCode ==
  ASSUME NEW inst \in A32!Insts, inst.kind = "B", NEW to, NEW inHead \in BOOLEAN, NEW s, NEW o, CodeAt(o, s),
         NEW pcv, s = A32!Rewrite(inst, to, inHead, pcv), s # << >>,
         NEW g, NEW r, NEW x, NEW y, NEW lr, NEW p, NEW rg, NEW st,
         A32Mid(inst, to, pcv, o, g, r, x, y, lr, p, rg, st)
  PROVE  p \in Nat /\ p >= o /\ p < o + Len(s) /\ IsCode(Fetch(p))
<1>1. /\ IsSeq(s) /\ Len(s) = 3 /\ A32!InstLen(inst) = 3 /\ s[1].op # "second"
      /\ s[1] = LdrIf(inst.c, "pc", 0)
      /\ s[2] = B(0)
      /\ s[3] = Data("whole", to)
  BY A32B
<1>2. Len(s) = 3 /\ s[1] = LdrIf(inst.c, "pc", 0) /\ s[2] = B(0)
  BY <1>1
<1>3. IsCode(s[1]) /\ IsCode(s[2])
  BY <1>2, WordOps DEF IsCode, DataWords
<1>4. p = o \/ p = o + 1
  BY DEF A32Mid
<1>5. CASE p = o
  <2>1. 0 \in 0 .. 8 /\ 0 + 1 <= Len(s) /\ IsCode(s[0 + 1]) /\ p = o + 0
    BY <1>2, <1>3, <1>5, CodeWords
  <2> QED BY <2>1, CodeWithin
<1>6. CASE p = o + 1
  <2>1. 1 \in 0 .. 8 /\ 1 + 1 <= Len(s) /\ IsCode(s[1 + 1]) /\ p = o + 1
    BY <1>2, <1>3, <1>6, CodeWords
  <2> QED BY <2>1, CodeWithin
<1> QED BY <1>4, <1>5, <1>6

LEMMA A32BXCode ==
  ASSUME NEW inst \in A32!Insts, inst.kind = "BX", NEW to, NEW inHead \in BOOLEAN, NEW s, NEW o, CodeAt(o, s),
         NEW pcv, s = A32!Rewrite(inst, to, inHead, pcv), s # << >>,
         NEW g, NEW r, NEW x, NEW y, NEW lr, NEW p, NEW rg, NEW st,
         A32Mid(inst, to, pcv, o, g, r, x, y, lr, p, rg, st)
  PROVE  p \in Nat /\ p >= o /\ p < o + Len(s) /\ IsCode(Fetch(p))
<1>1. /\ IsSeq(s) /\ Len(s) = 3 /\ A32!InstLen(inst) = 3 /\ s[1].op # "second"
      /\ s[1] = LdrIf(inst.c, "pc", 0)
      /\ s[2] = B(0)
      /\ s[3] = Data("whole", to)
  BY A32BX
<1>2. Len(s) = 3 /\ s[1] = LdrIf(inst.c, "pc", 0) /\ s[2] = B(0)
  BY <1>1
<1>3. IsCode(s[1]) /\ IsCode(s[2])
  BY <1>2, WordOps DEF IsCode, DataWords
<1>4. p = o \/ p = o + 1
  BY DEF A32Mid
<1>5. CASE p = o
  <2>1. 0 \in 0 .. 8 /\ 0 + 1 <= Len(s) /\ IsCode(s[0 + 1]) /\ p = o + 0
    BY <1>2, <1>3, <1>5, CodeWords
  <2> QED BY <2>1, CodeWithin
<1>6. CASE p = o + 1
  <2>1. 1 \in 0 .. 8 /\ 1 + 1 <= Len(s) /\ IsCode(s[1 + 1]) /\ p = o + 1
    BY <1>2, <1>3, <1>6, CodeWords
  <2> QED BY <2>1, CodeWithin
<1> QED BY <1>4, <1>5, <1>6

LEMMA A32BLCode ==
  ASSUME NEW inst \in A32!Insts, inst.kind = "BL", NEW to, NEW inHead \in BOOLEAN, NEW s, NEW o, CodeAt(o, s),
         NEW pcv, s = A32!Rewrite(inst, to, inHead, pcv), s # << >>,
         NEW g, NEW r, NEW x, NEW y, NEW lr, NEW p, NEW rg, NEW st,
         A32Mid(inst, to, pcv, o, g, r, x, y, lr, p, rg, st)
  PROVE  p \in Nat /\ p >= o /\ p < o + Len(s) /\ IsCode(Fetch(p))
<1>1. /\ IsSeq(s) /\ Len(s) = 4 /\ A32!InstLen(inst) = 4 /\ s[1].op # "second"
      /\ s[1] = Link(inst.c, 2)
      /\ s[2] = LdrIf(inst.c, "pc", 0)
      /\ s[3] = B(0)
      /\ s[4] = Data("whole", to)
  BY A32BL
<1>2. Len(s) = 4 /\ s[1] = Link(inst.c, 2) /\ s[2] = LdrIf(inst.c, "pc", 0) /\ s[3] = B(0)
  BY <1>1
<1>3. IsCode(s[1]) /\ IsCode(s[2]) /\ IsCode(s[3])
  BY <1>2, WordOps DEF IsCode, DataWords
<1>4. p = o \/ p = o + 1 \/ p = o + 2
  BY DEF A32Mid
<1>5. CASE p = o
  <2>1. 0 \in 0 .. 8 /\ 0 + 1 <= Len(s) /\ IsCode(s[0 + 1]) /\ p = o + 0
    BY <1>2, <1>3, <1>5, CodeWords
  <2> QED BY <2>1, CodeWithin
<1>6. CASE p = o + 1
  <2>1. 1 \in 0 .. 8 /\ 1 + 1 <= Len(s) /\ IsCode(s[1 + 1]) /\ p = o + 1
    BY <1>2, <1>3, <1>6, CodeWords
  <2> QED BY <2>1, CodeWithin
<1>7. CASE p = o + 2
  <2>1. 2 \in 0 .. 8 /\ 2 + 1 <= Len(s) /\ IsCode(s[2 + 1]) /\ p = o + 2
    BY <1>2, <1>3, <1>7, CodeWords
  <2> QED BY <2>1, CodeWithin
<1> QED BY <1>4, <1>5, <1>6, <1>7

LEMMA A32BLXCode ==
  ASSUME NEW inst \in A32!Insts, inst.kind = "BLX", NEW to, NEW inHead \in BOOLEAN, NEW s, NEW o, CodeAt(o, s),
         NEW pcv, s = A32!Rewrite(inst, to, inHead, pcv), s # << >>,
         NEW g, NEW r, NEW x, NEW y, NEW lr, NEW p, NEW rg, NEW st,
         A32Mid(inst, to, pcv, o, g, r, x, y, lr, p, rg, st)
  PROVE  p \in Nat /\ p >= o /\ p < o + Len(s) /\ IsCode(Fetch(p))
<1>1. /\ IsSeq(s) /\ Len(s) = 4 /\ A32!InstLen(inst) = 4 /\ s[1].op # "second"
      /\ s[1] = Link(inst.c, 2)
      /\ s[2] = LdrIf(inst.c, "pc", 0)
      /\ s[3] = B(0)
      /\ s[4] = Data("whole", to)
  BY A32BLX
<1>2. Len(s) = 4 /\ s[1] = Link(inst.c, 2) /\ s[2] = LdrIf(inst.c, "pc", 0) /\ s[3] = B(0)
  BY <1>1
<1>3. IsCode(s[1]) /\ IsCode(s[2]) /\ IsCode(s[3])
  BY <1>2, WordOps DEF IsCode, DataWords
<1>4. p = o \/ p = o + 1 \/ p = o + 2
  BY DEF A32Mid
<1>5. CASE p = o
  <2>1. 0 \in 0 .. 8 /\ 0 + 1 <= Len(s) /\ IsCode(s[0 + 1]) /\ p = o + 0
    BY <1>2, <1>3, <1>5, CodeWords
  <2> QED BY <2>1, CodeWithin
<1>6. CASE p = o + 1
  <2>1. 1 \in 0 .. 8 /\ 1 + 1 <= Len(s) /\ IsCode(s[1 + 1]) /\ p = o + 1
    BY <1>2, <1>3, <1>6, CodeWords
  <2> QED BY <2>1, CodeWithin
<1>7. CASE p = o + 2
  <2>1. 2 \in 0 .. 8 /\ 2 + 1 <= Len(s) /\ IsCode(s[2 + 1]) /\ p = o + 2
    BY <1>2, <1>3, <1>7, CodeWords
  <2> QED BY <2>1, CodeWithin
<1> QED BY <1>4, <1>5, <1>6, <1>7

LEMMA A32ADDPCCode ==
  ASSUME NEW inst \in A32!Insts, inst.kind = "ADD_PC", NEW to, NEW inHead \in BOOLEAN, NEW s, NEW o, CodeAt(o, s),
         NEW pcv, s = A32!Rewrite(inst, to, inHead, pcv), s # << >>,
         NEW g, NEW r, NEW x, NEW y, NEW lr, NEW p, NEW rg, NEW st,
         A32Mid(inst, to, pcv, o, g, r, x, y, lr, p, rg, st)
  PROVE  p \in Nat /\ p >= o /\ p < o + Len(s) /\ IsCode(Fetch(p))
<1>1. /\ IsSeq(s) /\ Len(s) = 8 /\ A32!InstLen(inst) = 8 /\ s[1].op # "second"
      /\ s[1] = BIf(inst.c, 0)
      /\ s[2] = B(5)
      /\ s[3] = Push("xy")
      /\ s[4] = Ldr("x", 2)
      /\ s[5] = Set("index", "y", "x")
      /\ s[6] = Store("y")
      /\ s[7] = Pop("xypc")
      /\ s[8] = Data("whole", pcv)
  BY A32ADDPC
<1>2. Len(s) = 8 /\ s[1] = BIf(inst.c, 0) /\ s[2] = B(5) /\ s[3] = Push("xy") /\ s[4] = Ldr("x", 2) /\ s[5] = Set("index", "y", "x") /\ s[6] = Store("y") /\ s[7] = Pop("xypc")
  BY <1>1
<1>3. IsCode(s[1]) /\ IsCode(s[2]) /\ IsCode(s[3]) /\ IsCode(s[4]) /\ IsCode(s[5]) /\ IsCode(s[6]) /\ IsCode(s[7])
  BY <1>2, WordOps DEF IsCode, DataWords
<1>4. p = o \/ p = o + 1 \/ p = o + 2 \/ p = o + 3 \/ p = o + 4 \/ p = o + 5 \/ p = o + 6
  BY DEF A32Mid
<1>5. CASE p = o
  <2>1. 0 \in 0 .. 8 /\ 0 + 1 <= Len(s) /\ IsCode(s[0 + 1]) /\ p = o + 0
    BY <1>2, <1>3, <1>5, CodeWords
  <2> QED BY <2>1, CodeWithin
<1>6. CASE p = o + 1
  <2>1. 1 \in 0 .. 8 /\ 1 + 1 <= Len(s) /\ IsCode(s[1 + 1]) /\ p = o + 1
    BY <1>2, <1>3, <1>6, CodeWords
  <2> QED BY <2>1, CodeWithin
<1>7. CASE p = o + 2
  <2>1. 2 \in 0 .. 8 /\ 2 + 1 <= Len(s) /\ IsCode(s[2 + 1]) /\ p = o + 2
    BY <1>2, <1>3, <1>7, CodeWords
  <2> QED BY <2>1, CodeWithin
<1>8. CASE p = o + 3
  <2>1. 3 \in 0 .. 8 /\ 3 + 1 <= Len(s) /\ IsCode(s[3 + 1]) /\ p = o + 3
    BY <1>2, <1>3, <1>8, CodeWords
  <2> QED BY <2>1, CodeWithin
<1>9. CASE p = o + 4
  <2>1. 4 \in 0 .. 8 /\ 4 + 1 <= Len(s) /\ IsCode(s[4 + 1]) /\ p = o + 4
    BY <1>2, <1>3, <1>9, CodeWords
  <2> QED BY <2>1, CodeWithin
<1>10. CASE p = o + 5
  <2>1. 5 \in 0 .. 8 /\ 5 + 1 <= Len(s) /\ IsCode(s[5 + 1]) /\ p = o + 5
    BY <1>2, <1>3, <1>10, CodeWords
  <2> QED BY <2>1, CodeWithin
<1>11. CASE p = o + 6
  <2>1. 6 \in 0 .. 8 /\ 6 + 1 <= Len(s) /\ IsCode(s[6 + 1]) /\ p = o + 6
    BY <1>2, <1>3, <1>11, CodeWords
  <2> QED BY <2>1, CodeWithin
<1> QED BY <1>4, <1>5, <1>6, <1>7, <1>8, <1>9, <1>10, <1>11

LEMMA A32ADDCode ==
  ASSUME NEW inst \in A32!Insts, inst.kind = "ADD", NEW to, NEW inHead \in BOOLEAN, NEW s, NEW o, CodeAt(o, s),
         NEW pcv, s = A32!Rewrite(inst, to, inHead, pcv), s # << >>,
         NEW g, NEW r, NEW x, NEW y, NEW lr, NEW p, NEW rg, NEW st,
         A32Mid(inst, to, pcv, o, g, r, x, y, lr, p, rg, st)
  PROVE  p \in Nat /\ p >= o /\ p < o + Len(s) /\ IsCode(Fetch(p))
<1>1. /\ IsSeq(s) /\ Len(s) = 8 /\ A32!InstLen(inst) = 8 /\ s[1].op # "second"
      /\ s[1] = BIf(inst.c, 0)
      /\ s[2] = B(5)
      /\ s[3] = Push("x")
      /\ s[4] = Ldr("x", 2)
      /\ s[5] = Set("sum", "r", "x")
      /\ s[6] = Pop("x")
      /\ s[7] = B(0)
      /\ s[8] = Data("whole", pcv)
  BY A32ADD
<1>2. Len(s) = 8 /\ s[1] = BIf(inst.c, 0) /\ s[2] = B(5) /\ s[3] = Push("x") /\ s[4] = Ldr("x", 2) /\ s[5] = Set("sum", "r", "x") /\ s[6] = Pop("x") /\ s[7] = B(0)
  BY <1>1
<1>3. IsCode(s[1]) /\ IsCode(s[2]) /\ IsCode(s[3]) /\ IsCode(s[4]) /\ IsCode(s[5]) /\ IsCode(s[6]) /\ IsCode(s[7])
  BY <1>2, WordOps DEF IsCode, DataWords
<1>4. p = o \/ p = o + 1 \/ p = o + 2 \/ p = o + 3 \/ p = o + 4 \/ p = o + 5 \/ p = o + 6
  BY DEF A32Mid
<1>5. CASE p = o
  <2>1. 0 \in 0 .. 8 /\ 0 + 1 <= Len(s) /\ IsCode(s[0 + 1]) /\ p = o + 0
    BY <1>2, <1>3, <1>5, CodeWords
  <2> QED BY <2>1, CodeWithin
<1>6. CASE p = o + 1
  <2>1. 1 \in 0 .. 8 /\ 1 + 1 <= Len(s) /\ IsCode(s[1 + 1]) /\ p = o + 1
    BY <1>2, <1>3, <1>6, CodeWords
  <2> QED BY <2>1, CodeWithin
<1>7. CASE p = o + 2
  <2>1. 2 \in 0 .. 8 /\ 2 + 1 <= Len(s) /\ IsCode(s[2 + 1]) /\ p = o + 2
    BY <1>2, <1>3, <1>7, CodeWords
  <2> QED BY <2>1, CodeWithin
<1>8. CASE p = o + 3
  <2>1. 3 \in 0 .. 8 /\ 3 + 1 <= Len(s) /\ IsCode(s[3 + 1]) /\ p = o + 3
    BY <1>2, <1>3, <1>8, CodeWords
  <2> QED BY <2>1, CodeWithin
<1>9. CASE p = o + 4
  <2>1. 4 \in 0 .. 8 /\ 4 + 1 <= Len(s) /\ IsCode(s[4 + 1]) /\ p = o + 4
    BY <1>2, <1>3, <1>9, CodeWords
  <2> QED BY <2>1, CodeWithin
<1>10. CASE p = o + 5
  <2>1. 5 \in 0 .. 8 /\ 5 + 1 <= Len(s) /\ IsCode(s[5 + 1]) /\ p = o + 5
    BY <1>2, <1>3, <1>10, CodeWords
  <2> QED BY <2>1, CodeWithin
<1>11. CASE p = o + 6
  <2>1. 6 \in 0 .. 8 /\ 6 + 1 <= Len(s) /\ IsCode(s[6 + 1]) /\ p = o + 6
    BY <1>2, <1>3, <1>11, CodeWords
  <2> QED BY <2>1, CodeWithin
<1> QED BY <1>4, <1>5, <1>6, <1>7, <1>8, <1>9, <1>10, <1>11

LEMMA A32MOVCode ==
  ASSUME NEW inst \in A32!Insts, inst.kind = "MOV", NEW to, NEW inHead \in BOOLEAN, NEW s, NEW o, CodeAt(o, s),
         NEW pcv, s = A32!Rewrite(inst, to, inHead, pcv), s # << >>,
         NEW g, NEW r, NEW x, NEW y, NEW lr, NEW p, NEW rg, NEW st,
         A32Mid(inst, to, pcv, o, g, r, x, y, lr, p, rg, st)
  PROVE  p \in Nat /\ p >= o /\ p < o + Len(s) /\ IsCode(Fetch(p))
<1>1. /\ IsSeq(s) /\ Len(s) = 8 /\ A32!InstLen(inst) = 8 /\ s[1].op # "second"
      /\ s[1] = BIf(inst.c, 0)
      /\ s[2] = B(5)
      /\ s[3] = Push("x")
      /\ s[4] = Ldr("x", 2)
      /\ s[5] = Set("move", "r", "x")
      /\ s[6] = Pop("x")
      /\ s[7] = B(0)
      /\ s[8] = Data("whole", pcv)
  BY A32MOV
<1>2. Len(s) = 8 /\ s[1] = BIf(inst.c, 0) /\ s[2] = B(5) /\ s[3] = Push("x") /\ s[4] = Ldr("x", 2) /\ s[5] = Set("move", "r", "x") /\ s[6] = Pop("x") /\ s[7] = B(0)
  BY <1>1
<1>3. IsCode(s[1]) /\ IsCode(s[2]) /\ IsCode(s[3]) /\ IsCode(s[4]) /\ IsCode(s[5]) /\ IsCode(s[6]) /\ IsCode(s[7])
  BY <1>2, WordOps DEF IsCode, DataWords
<1>4. p = o \/ p = o + 1 \/ p = o + 2 \/ p = o + 3 \/ p = o + 4 \/ p = o + 5 \/ p = o + 6
  BY DEF A32Mid
<1>5. CASE p = o
  <2>1. 0 \in 0 .. 8 /\ 0 + 1 <= Len(s) /\ IsCode(s[0 + 1]) /\ p = o + 0
    BY <1>2, <1>3, <1>5, CodeWords
  <2> QED BY <2>1, CodeWithin
<1>6. CASE p = o + 1
  <2>1. 1 \in 0 .. 8 /\ 1 + 1 <= Len(s) /\ IsCode(s[1 + 1]) /\ p = o + 1
    BY <1>2, <1>3, <1>6, CodeWords
  <2> QED BY <2>1, CodeWithin
<1>7. CASE p = o + 2
  <2>1. 2 \in 0 .. 8 /\ 2 + 1 <= Len(s) /\ IsCode(s[2 + 1]) /\ p = o + 2
    BY <1>2, <1>3, <1>7, CodeWords
  <2> QED BY <2>1, CodeWithin
<1>8. CASE p = o + 3
  <2>1. 3 \in 0 .. 8 /\ 3 + 1 <= Len(s) /\ IsCode(s[3 + 1]) /\ p = o + 3
    BY <1>2, <1>3, <1>8, CodeWords
  <2> QED BY <2>1, CodeWithin
<1>9. CASE p = o + 4
  <2>1. 4 \in 0 .. 8 /\ 4 + 1 <= Len(s) /\ IsCode(s[4 + 1]) /\ p = o + 4
    BY <1>2, <1>3, <1>9, CodeWords
  <2> QED BY <2>1, CodeWithin
<1>10. CASE p = o + 5
  <2>1. 5 \in 0 .. 8 /\ 5 + 1 <= Len(s) /\ IsCode(s[5 + 1]) /\ p = o + 5
    BY <1>2, <1>3, <1>10, CodeWords
  <2> QED BY <2>1, CodeWithin
<1>11. CASE p = o + 6
  <2>1. 6 \in 0 .. 8 /\ 6 + 1 <= Len(s) /\ IsCode(s[6 + 1]) /\ p = o + 6
    BY <1>2, <1>3, <1>11, CodeWords
  <2> QED BY <2>1, CodeWithin
<1> QED BY <1>4, <1>5, <1>6, <1>7, <1>8, <1>9, <1>10, <1>11

LEMMA A32MOVPCCode ==
  ASSUME NEW inst \in A32!Insts, inst.kind = "MOV_PC", NEW to, NEW inHead \in BOOLEAN, NEW s, NEW o, CodeAt(o, s),
         NEW pcv, s = A32!Rewrite(inst, to, inHead, pcv), s # << >>,
         NEW g, NEW r, NEW x, NEW y, NEW lr, NEW p, NEW rg, NEW st,
         A32Mid(inst, to, pcv, o, g, r, x, y, lr, p, rg, st)
  PROVE  p \in Nat /\ p >= o /\ p < o + Len(s) /\ IsCode(Fetch(p))
<1>1. /\ IsSeq(s) /\ Len(s) = 3 /\ A32!InstLen(inst) = 3 /\ s[1].op # "second"
      /\ s[1] = LdrIf(inst.c, "pc", 0)
      /\ s[2] = B(0)
      /\ s[3] = Data("whole", pcv)
  BY A32MOVPC
<1>2. Len(s) = 3 /\ s[1] = LdrIf(inst.c, "pc", 0) /\ s[2] = B(0)
  BY <1>1
<1>3. IsCode(s[1]) /\ IsCode(s[2])
  BY <1>2, WordOps DEF IsCode, DataWords
<1>4. p = o \/ p = o + 1
  BY DEF A32Mid
<1>5. CASE p = o
  <2>1. 0 \in 0 .. 8 /\ 0 + 1 <= Len(s) /\ IsCode(s[0 + 1]) /\ p = o + 0
    BY <1>2, <1>3, <1>5, CodeWords
  <2> QED BY <2>1, CodeWithin
<1>6. CASE p = o + 1
  <2>1. 1 \in 0 .. 8 /\ 1 + 1 <= Len(s) /\ IsCode(s[1 + 1]) /\ p = o + 1
    BY <1>2, <1>3, <1>6, CodeWords
  <2> QED BY <2>1, CodeWithin
<1> QED BY <1>4, <1>5, <1>6

LEMMA A32ADRCode ==
  ASSUME NEW inst \in A32!Insts, inst.kind = "ADR", NEW to, NEW inHead \in BOOLEAN, NEW s, NEW o, CodeAt(o, s),
         NEW pcv, s = A32!Rewrite(inst, to, inHead, pcv), s # << >>,
         NEW g, NEW r, NEW x, NEW y, NEW lr, NEW p, NEW rg, NEW st,
         A32Mid(inst, to, pcv, o, g, r, x, y, lr, p, rg, st)
  PROVE  p \in Nat /\ p >= o /\ p < o + Len(s) /\ IsCode(Fetch(p))
<1>1. /\ IsSeq(s) /\ Len(s) = 3 /\ A32!InstLen(inst) = 3 /\ s[1].op # "second"
      /\ s[1] = LdrIf(inst.c, "r", 0)
      /\ s[2] = B(0)
      /\ s[3] = Data("whole", to)
  BY A32ADR
<1>2. Len(s) = 3 /\ s[1] = LdrIf(inst.c, "r", 0) /\ s[2] = B(0)
  BY <1>1
<1>3. IsCode(s[1]) /\ IsCode(s[2])
  BY <1>2, WordOps DEF IsCode, DataWords
<1>4. p = o \/ p = o + 1
  BY DEF A32Mid
<1>5. CASE p = o
  <2>1. 0 \in 0 .. 8 /\ 0 + 1 <= Len(s) /\ IsCode(s[0 + 1]) /\ p = o + 0
    BY <1>2, <1>3, <1>5, CodeWords
  <2> QED BY <2>1, CodeWithin
<1>6. CASE p = o + 1
  <2>1. 1 \in 0 .. 8 /\ 1 + 1 <= Len(s) /\ IsCode(s[1 + 1]) /\ p = o + 1
    BY <1>2, <1>3, <1>6, CodeWords
  <2> QED BY <2>1, CodeWithin
<1> QED BY <1>4, <1>5, <1>6

LEMMA A32LDRPCCode ==
  ASSUME NEW inst \in A32!Insts, inst.kind = "LDR_PC", NEW to, NEW inHead \in BOOLEAN, NEW s, NEW o, CodeAt(o, s),
         NEW pcv, s = A32!Rewrite(inst, to, inHead, pcv), s # << >>,
         NEW g, NEW r, NEW x, NEW y, NEW lr, NEW p, NEW rg, NEW st,
         A32Mid(inst, to, pcv, o, g, r, x, y, lr, p, rg, st)
  PROVE  p \in Nat /\ p >= o /\ p < o + Len(s) /\ IsCode(Fetch(p))
<1>1. A32LDRPCWords(inst, to, s)
  BY A32LDRPC, Zenon
<1>2. Len(s) = 9 /\ s[1] = BIf(inst.c, 0) /\ s[2] = B(6) /\ s[3] = Push("x") /\ s[4] = Ldr("x", 0) /\ s[5] = B(0) /\ s[7] = Load("x", "x", inst.len) /\ s[8] = Store("x") /\ s[9] = Pop("xpc")
  BY <1>1 DEF A32LDRPCWords
<1>3. IsCode(s[1]) /\ IsCode(s[2]) /\ IsCode(s[3]) /\ IsCode(s[4]) /\ IsCode(s[5]) /\ IsCode(s[7]) /\ IsCode(s[8]) /\ IsCode(s[9])
  BY <1>2, WordOps DEF IsCode, DataWords
<1>4. p = o \/ p = o + 1 \/ p = o + 2 \/ p = o + 3 \/ p = o + 4 \/ p = o + 6 \/ p = o + 7 \/ p = o + 8
  BY DEF A32Mid
<1>5. CASE p = o
  <2>1. 0 \in 0 .. 8 /\ 0 + 1 <= Len(s) /\ IsCode(s[0 + 1]) /\ p = o + 0
    BY <1>2, <1>3, <1>5, CodeWords
  <2> QED BY <2>1, CodeWithin
<1>6. CASE p = o + 1
  <2>1. 1 \in 0 .. 8 /\ 1 + 1 <= Len(s) /\ IsCode(s[1 + 1]) /\ p = o + 1
    BY <1>2, <1>3, <1>6, CodeWords
  <2> QED BY <2>1, CodeWithin
<1>7. CASE p = o + 2
  <2>1. 2 \in 0 .. 8 /\ 2 + 1 <= Len(s) /\ IsCode(s[2 + 1]) /\ p = o + 2
    BY <1>2, <1>3, <1>7, CodeWords
  <2> QED BY <2>1, CodeWithin
<1>8. CASE p = o + 3
  <2>1. 3 \in 0 .. 8 /\ 3 + 1 <= Len(s) /\ IsCode(s[3 + 1]) /\ p = o + 3
    BY <1>2, <1>3, <1>8, CodeWords
  <2> QED BY <2>1, CodeWithin
<1>9. CASE p = o + 4
  <2>1. 4 \in 0 .. 8 /\ 4 + 1 <= Len(s) /\ IsCode(s[4 + 1]) /\ p = o + 4
    BY <1>2, <1>3, <1>9, CodeWords
  <2> QED BY <2>1, CodeWithin
<1>10. CASE p = o + 6
  <2>1. 6 \in 0 .. 8 /\ 6 + 1 <= Len(s) /\ IsCode(s[6 + 1]) /\ p = o + 6
    BY <1>2, <1>3, <1>10, CodeWords
  <2> QED BY <2>1, CodeWithin
<1>11. CASE p = o + 7
  <2>1. 7 \in 0 .. 8 /\ 7 + 1 <= Len(s) /\ IsCode(s[7 + 1]) /\ p = o + 7
    BY <1>2, <1>3, <1>11, CodeWords
  <2> QED BY <2>1, CodeWithin
<1>12. CASE p = o + 8
  <2>1. 8 \in 0 .. 8 /\ 8 + 1 <= Len(s) /\ IsCode(s[8 + 1]) /\ p = o + 8
    BY <1>2, <1>3, <1>12, CodeWords
  <2> QED BY <2>1, CodeWithin
<1> QED BY <1>4, <1>5, <1>6, <1>7, <1>8, <1>9, <1>10, <1>11, <1>12

LEMMA A32LDRCode ==
  ASSUME NEW inst \in A32!Insts, inst.kind = "LDR", NEW to, NEW inHead \in BOOLEAN, NEW s, NEW o, CodeAt(o, s),
         NEW pcv, s = A32!Rewrite(inst, to, inHead, pcv), s # << >>,
         NEW g, NEW r, NEW x, NEW y, NEW lr, NEW p, NEW rg, NEW st,
         A32Mid(inst, to, pcv, o, g, r, x, y, lr, p, rg, st)
  PROVE  p \in Nat /\ p >= o /\ p < o + Len(s) /\ IsCode(Fetch(p))
<1>1. A32LDRWords(inst, to, s)
  BY A32LDR, Zenon
<1>2. Len(s) = 6 /\ s[1] = BIf(inst.c, 0) /\ s[2] = B(3) /\ s[3] = Ldr("r", 0) /\ s[4] = B(0) /\ s[6] = Load("r", "r", inst.len)
  BY <1>1 DEF A32LDRWords
<1>3. IsCode(s[1]) /\ IsCode(s[2]) /\ IsCode(s[3]) /\ IsCode(s[4]) /\ IsCode(s[6])
  BY <1>2, WordOps DEF IsCode, DataWords
<1>4. p = o \/ p = o + 1 \/ p = o + 2 \/ p = o + 3 \/ p = o + 5
  BY DEF A32Mid
<1>5. CASE p = o
  <2>1. 0 \in 0 .. 8 /\ 0 + 1 <= Len(s) /\ IsCode(s[0 + 1]) /\ p = o + 0
    BY <1>2, <1>3, <1>5, CodeWords
  <2> QED BY <2>1, CodeWithin
<1>6. CASE p = o + 1
  <2>1. 1 \in 0 .. 8 /\ 1 + 1 <= Len(s) /\ IsCode(s[1 + 1]) /\ p = o + 1
    BY <1>2, <1>3, <1>6, CodeWords
  <2> QED BY <2>1, CodeWithin
<1>7. CASE p = o + 2
  <2>1. 2 \in 0 .. 8 /\ 2 + 1 <= Len(s) /\ IsCode(s[2 + 1]) /\ p = o + 2
    BY <1>2, <1>3, <1>7, CodeWords
  <2> QED BY <2>1, CodeWithin
<1>8. CASE p = o + 3
  <2>1. 3 \in 0 .. 8 /\ 3 + 1 <= Len(s) /\ IsCode(s[3 + 1]) /\ p = o + 3
    BY <1>2, <1>3, <1>8, CodeWords
  <2> QED BY <2>1, CodeWithin
<1>9. CASE p = o + 5
  <2>1. 5 \in 0 .. 8 /\ 5 + 1 <= Len(s) /\ IsCode(s[5 + 1]) /\ p = o + 5
    BY <1>2, <1>3, <1>9, CodeWords
  <2> QED BY <2>1, CodeWithin
<1> QED BY <1>4, <1>5, <1>6, <1>7, <1>8, <1>9

LEMMA A32LDRREGPCCode ==
  ASSUME NEW inst \in A32!Insts, inst.kind = "LDR_REG_PC", NEW to, NEW inHead \in BOOLEAN, NEW s, NEW o, CodeAt(o, s),
         NEW pcv, s = A32!Rewrite(inst, to, inHead, pcv), s # << >>,
         NEW g, NEW r, NEW x, NEW y, NEW lr, NEW p, NEW rg, NEW st,
         A32Mid(inst, to, pcv, o, g, r, x, y, lr, p, rg, st)
  PROVE  p \in Nat /\ p >= o /\ p < o + Len(s) /\ IsCode(Fetch(p))
<1>1. /\ IsSeq(s) /\ Len(s) = 9 /\ A32!InstLen(inst) = 9 /\ s[1].op # "second"
      /\ s[1] = BIf(inst.c, 0)
      /\ s[2] = B(6)
      /\ s[3] = Push("xy")
      /\ s[4] = Ldr("x", 0)
      /\ s[5] = B(0)
      /\ s[6] = Data("whole", pcv)
      /\ s[7] = Load("y", "x", inst.len)
      /\ s[8] = Store("y")
      /\ s[9] = Pop("xypc")
  BY A32LDRREGPC
<1>2. Len(s) = 9 /\ s[1] = BIf(inst.c, 0) /\ s[2] = B(6) /\ s[3] = Push("xy") /\ s[4] = Ldr("x", 0) /\ s[5] = B(0) /\ s[7] = Load("y", "x", inst.len) /\ s[8] = Store("y") /\ s[9] = Pop("xypc")
  BY <1>1
<1>3. IsCode(s[1]) /\ IsCode(s[2]) /\ IsCode(s[3]) /\ IsCode(s[4]) /\ IsCode(s[5]) /\ IsCode(s[7]) /\ IsCode(s[8]) /\ IsCode(s[9])
  BY <1>2, WordOps DEF IsCode, DataWords
<1>4. p = o \/ p = o + 1 \/ p = o + 2 \/ p = o + 3 \/ p = o + 4 \/ p = o + 6 \/ p = o + 7 \/ p = o + 8
  BY DEF A32Mid
<1>5. CASE p = o
  <2>1. 0 \in 0 .. 8 /\ 0 + 1 <= Len(s) /\ IsCode(s[0 + 1]) /\ p = o + 0
    BY <1>2, <1>3, <1>5, CodeWords
  <2> QED BY <2>1, CodeWithin
<1>6. CASE p = o + 1
  <2>1. 1 \in 0 .. 8 /\ 1 + 1 <= Len(s) /\ IsCode(s[1 + 1]) /\ p = o + 1
    BY <1>2, <1>3, <1>6, CodeWords
  <2> QED BY <2>1, CodeWithin
<1>7. CASE p = o + 2
  <2>1. 2 \in 0 .. 8 /\ 2 + 1 <= Len(s) /\ IsCode(s[2 + 1]) /\ p = o + 2
    BY <1>2, <1>3, <1>7, CodeWords
  <2> QED BY <2>1, CodeWithin
<1>8. CASE p = o + 3
  <2>1. 3 \in 0 .. 8 /\ 3 + 1 <= Len(s) /\ IsCode(s[3 + 1]) /\ p = o + 3
    BY <1>2, <1>3, <1>8, CodeWords
  <2> QED BY <2>1, CodeWithin
<1>9. CASE p = o + 4
  <2>1. 4 \in 0 .. 8 /\ 4 + 1 <= Len(s) /\ IsCode(s[4 + 1]) /\ p = o + 4
    BY <1>2, <1>3, <1>9, CodeWords
  <2> QED BY <2>1, CodeWithin
<1>10. CASE p = o + 6
  <2>1. 6 \in 0 .. 8 /\ 6 + 1 <= Len(s) /\ IsCode(s[6 + 1]) /\ p = o + 6
    BY <1>2, <1>3, <1>10, CodeWords
  <2> QED BY <2>1, CodeWithin
<1>11. CASE p = o + 7
  <2>1. 7 \in 0 .. 8 /\ 7 + 1 <= Len(s) /\ IsCode(s[7 + 1]) /\ p = o + 7
    BY <1>2, <1>3, <1>11, CodeWords
  <2> QED BY <2>1, CodeWithin
<1>12. CASE p = o + 8
  <2>1. 8 \in 0 .. 8 /\ 8 + 1 <= Len(s) /\ IsCode(s[8 + 1]) /\ p = o + 8
    BY <1>2, <1>3, <1>12, CodeWords
  <2> QED BY <2>1, CodeWithin
<1> QED BY <1>4, <1>5, <1>6, <1>7, <1>8, <1>9, <1>10, <1>11, <1>12

LEMMA A32LDRREGCode ==
  ASSUME NEW inst \in A32!Insts, inst.kind = "LDR_REG", NEW to, NEW inHead \in BOOLEAN, NEW s, NEW o, CodeAt(o, s),
         NEW pcv, s = A32!Rewrite(inst, to, inHead, pcv), s # << >>,
         NEW g, NEW r, NEW x, NEW y, NEW lr, NEW p, NEW rg, NEW st,
         A32Mid(inst, to, pcv, o, g, r, x, y, lr, p, rg, st)
  PROVE  p \in Nat /\ p >= o /\ p < o + Len(s) /\ IsCode(Fetch(p))
<1>1. /\ IsSeq(s) /\ Len(s) = 8 /\ A32!InstLen(inst) = 8 /\ s[1].op # "second"
      /\ s[1] = BIf(inst.c, 0)
      /\ s[2] = B(5)
      /\ s[3] = Push("x")
      /\ s[4] = Ldr("x", 0)
      /\ s[5] = B(0)
      /\ s[6] = Data("whole", pcv)
      /\ s[7] = Load("r", "x", inst.len)
      /\ s[8] = Pop("x")
  BY A32LDRREG
<1>2. Len(s) = 8 /\ s[1] = BIf(inst.c, 0) /\ s[2] = B(5) /\ s[3] = Push("x") /\ s[4] = Ldr("x", 0) /\ s[5] = B(0) /\ s[7] = Load("r", "x", inst.len) /\ s[8] = Pop("x")
  BY <1>1
<1>3. IsCode(s[1]) /\ IsCode(s[2]) /\ IsCode(s[3]) /\ IsCode(s[4]) /\ IsCode(s[5]) /\ IsCode(s[7]) /\ IsCode(s[8])
  BY <1>2, WordOps DEF IsCode, DataWords
<1>4. p = o \/ p = o + 1 \/ p = o + 2 \/ p = o + 3 \/ p = o + 4 \/ p = o + 6 \/ p = o + 7
  BY DEF A32Mid
<1>5. CASE p = o
  <2>1. 0 \in 0 .. 8 /\ 0 + 1 <= Len(s) /\ IsCode(s[0 + 1]) /\ p = o + 0
    BY <1>2, <1>3, <1>5, CodeWords
  <2> QED BY <2>1, CodeWithin
<1>6. CASE p = o + 1
  <2>1. 1 \in 0 .. 8 /\ 1 + 1 <= Len(s) /\ IsCode(s[1 + 1]) /\ p = o + 1
    BY <1>2, <1>3, <1>6, CodeWords
  <2> QED BY <2>1, CodeWithin
<1>7. CASE p = o + 2
  <2>1. 2 \in 0 .. 8 /\ 2 + 1 <= Len(s) /\ IsCode(s[2 + 1]) /\ p = o + 2
    BY <1>2, <1>3, <1>7, CodeWords
  <2> QED BY <2>1, CodeWithin
<1>8. CASE p = o + 3
  <2>1. 3 \in 0 .. 8 /\ 3 + 1 <= Len(s) /\ IsCode(s[3 + 1]) /\ p = o + 3
    BY <1>2, <1>3, <1>8, CodeWords
  <2> QED BY <2>1, CodeWithin
<1>9. CASE p = o + 4
  <2>1. 4 \in 0 .. 8 /\ 4 + 1 <= Len(s) /\ IsCode(s[4 + 1]) /\ p = o + 4
    BY <1>2, <1>3, <1>9, CodeWords
  <2> QED BY <2>1, CodeWithin
<1>10. CASE p = o + 6
  <2>1. 6 \in 0 .. 8 /\ 6 + 1 <= Len(s) /\ IsCode(s[6 + 1]) /\ p = o + 6
    BY <1>2, <1>3, <1>10, CodeWords
  <2> QED BY <2>1, CodeWithin
<1>11. CASE p = o + 7
  <2>1. 7 \in 0 .. 8 /\ 7 + 1 <= Len(s) /\ IsCode(s[7 + 1]) /\ p = o + 7
    BY <1>2, <1>3, <1>11, CodeWords
  <2> QED BY <2>1, CodeWithin
<1> QED BY <1>4, <1>5, <1>6, <1>7, <1>8, <1>9, <1>10, <1>11

LEMMA A32IGNOREDCode ==
  ASSUME NEW inst \in A32!Insts, inst.kind = "IGNORED", NEW to, NEW inHead \in BOOLEAN, NEW s, NEW o, CodeAt(o, s),
         NEW pcv, s = A32!Rewrite(inst, to, inHead, pcv), s # << >>,
         NEW g, NEW r, NEW x, NEW y, NEW lr, NEW p, NEW rg, NEW st,
         A32Mid(inst, to, pcv, o, g, r, x, y, lr, p, rg, st)
  PROVE  p \in Nat /\ p >= o /\ p < o + Len(s) /\ IsCode(Fetch(p))
<1>1. /\ IsSeq(s) /\ Len(s) = 1 /\ A32!InstLen(inst) = 1 /\ s[1].op # "second"
      /\ s[1] = Plain(inst)
  BY A32IGNORED
<1>2. Len(s) = 1 /\ s[1] = Plain(inst)
  BY <1>1
<1>3. IsCode(s[1])
  BY <1>2, WordOps DEF IsCode, DataWords
<1>4. p = o
  BY DEF A32Mid
<1>5. CASE p = o
  <2>1. 0 \in 0 .. 8 /\ 0 + 1 <= Len(s) /\ IsCode(s[0 + 1]) /\ p = o + 0
    BY <1>2, <1>3, <1>5, CodeWords
  <2> QED BY <2>1, CodeWithin
<1> QED BY <1>4, <1>5

LEMMA A32MidCode ==
  ASSUME NEW inst \in A32!Insts, NEW to, NEW inHead \in BOOLEAN, NEW s, NEW o, CodeAt(o, s),
         NEW pcv, s = A32!Rewrite(inst, to, inHead, pcv), s # << >>,
         NEW g, NEW r, NEW x, NEW y, NEW lr, NEW p, NEW rg, NEW st,
         A32Mid(inst, to, pcv, o, g, r, x, y, lr, p, rg, st)
  PROVE  p \in Nat /\ p >= o /\ p < o + Len(s) /\ IsCode(Fetch(p))
<1>1. inst.kind \in {"B", "BX", "BL", "BLX", "ADD_PC", "ADD", "MOV", "MOV_PC", "ADR", "LDR_PC", "LDR",
                     "LDR_REG_PC", "LDR_REG", "IGNORED"}
  BY DEF A32!Insts, A32!InstsOf
<1>2. CASE inst.kind = "B"
  BY <1>2, A32BCode
<1>3. CASE inst.kind = "BX"
  BY <1>3, A32BXCode
<1>4. CASE inst.kind = "BL"
  BY <1>4, A32BLCode
<1>5. CASE inst.kind = "BLX"
  BY <1>5, A32BLXCode
<1>6. CASE inst.kind = "ADD_PC"
  BY <1>6, A32ADDPCCode
<1>7. CASE inst.kind = "ADD"
  BY <1>7, A32ADDCode
<1>8. CASE inst.kind = "MOV"
  BY <1>8, A32MOVCode
<1>9. CASE inst.kind = "MOV_PC"
  BY <1>9, A32MOVPCCode
<1>10. CASE inst.kind = "ADR"
  BY <1>10, A32ADRCode
<1>11. CASE inst.kind = "LDR_PC"
  BY <1>11, A32LDRPCCode
<1>12. CASE inst.kind = "LDR"
  BY <1>12, A32LDRCode
<1>13. CASE inst.kind = "LDR_REG_PC"
  BY <1>13, A32LDRREGPCCode
<1>14. CASE inst.kind = "LDR_REG"
  BY <1>14, A32LDRREGCode, Z3
<1>15. CASE inst.kind = "IGNORED"
  BY <1>15, A32IGNOREDCode, Z3
<1> QED BY <1>1, <1>2, <1>3, <1>4, <1>5, <1>6, <1>7, <1>8, <1>9, <1>10, <1>11, <1>12, <1>13, <1>14, <1>15

(* The jump to an address that is stored behind it: back from the enter,   *)
(* or to the proxy.                                                        *)
JumpMid(o, to, r, x, y, lr, p, rg) ==
  \/ p = o /\ rg = Regs(r, x, y, lr)
  \/ fn.arch = "arm64" /\ p = o + 1 /\ rg = Regs(r, Address(to, Home), y, lr)

LEMMA JumpStep64 ==
  ASSUME Execute, fn.arch = "arm64", NEW o, NEW s, NEW a, NEW to, CodeAt(o, s), s = AbsoluteJump(a, to),
         NEW r, NEW x, NEW y, NEW lr, JumpMid(o, to, r, x, y, lr, ip, regs)
  PROVE  \/ ip' = o + 1 /\ thumb' = Home /\ regs' = Regs(r, Address(to, Home), y, lr)
         \/ ip' = to /\ thumb' = Home /\ regs' = Regs(r, Address(to, Home), y, lr)
<1>1. Len(s) = 4 /\ s[1] = Ldr("x", 2) /\ s[2] = Set("br", "pc", "x")
      /\ s[3] = Data("low", Address(to, FALSE)) /\ s[4] = Data("high", Address(to, FALSE))
  BY JumpWords
<1>2. Home = FALSE
  BY DEF Home
<1>3. /\ o \in Nat
      /\ Fetch(o) = Ldr("x", 2) /\ Fetch(o + 1) = Set("br", "pc", "x")
      /\ Fetch(o + 2) = Data("low", Address(to, Home)) /\ Fetch(o + 3) = Data("high", Address(to, Home))
  <2>1. /\ o \in Nat
        /\ Len(s) > 0 => Fetch(o) = s[1]
        /\ Len(s) > 1 => Fetch(o + 1) = s[2]
        /\ Len(s) > 2 => Fetch(o + 2) = s[3]
        /\ Len(s) > 3 => Fetch(o + 3) = s[4]
    BY CodeWords, Zenon
  <2>2. s[3] = Data("low", Address(to, Home)) /\ s[4] = Data("high", Address(to, Home))
    BY <1>1, <1>2, Zenon
  <2>3. Len(s) = 4 /\ s[1] = Ldr("x", 2) /\ s[2] = Set("br", "pc", "x")
    BY <1>1
  <2> QED BY <2>1, <2>2, <2>3
<1>4. Fetch(o + 1).op # "second" /\ Fetch(o + 2).op # "second"
  BY <1>3, WordOps
<1>5. BaseAt(fn.arch, o) + 2 = o + 2
  BY <1>3 DEF BaseAt, PcAt
<1>6. Stored(o + 2) = Address(to, Home)
  <2>1. o + 3 = (o + 2) + 1
    BY <1>3
  <2> QED BY <1>3, <2>1, StoredHalves
<1>7. CASE ip = o /\ regs = Regs(r, x, y, lr)
  BY <1>3, <1>4, <1>5, <1>6, <1>7, StepLdr
<1>8. CASE ip = o + 1 /\ regs = Regs(r, Address(to, Home), y, lr)
  <2>1. Address(to, Home).is = "address" /\ Address(to, Home).of = to /\ Address(to, Home).t = Home
    BY DEF Address, Value
  <2>2. o + 2 = (o + 1) + 1
    BY <1>3
  <2>3. ip' = Address(to, Home).of /\ thumb' = Address(to, Home).t
        /\ regs' = Regs(r, Address(to, Home), y, lr)
    BY <1>3, <1>4, <1>8, <2>1, <2>2, StepBr
  <2> QED BY <2>1, <2>3
<1> QED BY <1>7, <1>8 DEF JumpMid

(* In A32 one word suffices, which writes PC.                              *)
LEMMA JumpStep32 ==
  ASSUME Execute, fn.arch = "arm", NEW o, NEW s, NEW a, NEW to, CodeAt(o, s), s = AbsoluteJump(a, to),
         NEW r, NEW x, NEW y, NEW lr, JumpMid(o, to, r, x, y, lr, ip, regs)
  PROVE  ip' = to /\ thumb' = Home /\ regs' = Regs(r, x, y, lr)
<1>1. Len(s) = 2 /\ s[1] = Ldr("pc", -1) /\ s[2] = Data("whole", Address(to, FALSE))
  BY JumpWords32
<1>2. Home = FALSE /\ ip = o /\ regs = Regs(r, x, y, lr)
  BY DEF Home, JumpMid
<1>3. o \in Nat /\ Fetch(o) = Ldr("pc", -1) /\ Fetch(o + 1) = Data("whole", Address(to, FALSE))
  <2>1. /\ o \in Nat
        /\ Len(s) > 0 => Fetch(o) = s[1]
        /\ Len(s) > 1 => Fetch(o + 1) = s[2]
    BY CodeWords, Zenon
  <2>2. Len(s) > 0 /\ Len(s) > 1
    BY <1>1
  <2> QED BY <1>1, <2>1, <2>2, Zenon
<1>4. BaseAt(fn.arch, o) + -1 = o + 1
  BY <1>3 DEF BaseAt, PcAt
<1>5. Stored(BaseAt(fn.arch, o) + -1) = Address(to, FALSE)
  BY <1>3, <1>4, StoredWhole
<1>6. Address(to, FALSE).is = "address" /\ Address(to, FALSE).of = to /\ Address(to, FALSE).t = FALSE
  BY AddressFields
<1>7. regs' = regs /\ ip' = Address(to, FALSE).of /\ thumb' = Address(to, FALSE).t
  BY <1>2, <1>3, <1>5, <1>6, StepLdrTo
<1> QED BY <1>2, <1>6, <1>7

LEMMA JumpStep ==
  ASSUME Execute, fn.arch \in {"arm64", "arm"}, NEW o, NEW s, NEW a, NEW to, CodeAt(o, s), s = AbsoluteJump(a, to),
         NEW r, NEW x, NEW y, NEW lr, JumpMid(o, to, r, x, y, lr, ip, regs)
  PROVE  \/ ip' = o + 1 /\ thumb' = Home /\ fn.arch = "arm64" /\ regs' = Regs(r, Address(to, Home), y, lr)
         \/ ip' = to /\ thumb' = Home /\ \E xx : regs' = Regs(r, xx, y, lr)
<1>1. CASE fn.arch = "arm64"
  BY <1>1, JumpStep64
<1>2. CASE fn.arch = "arm"
  <2>1. ip' = to /\ thumb' = Home /\ regs' = Regs(r, x, y, lr)
    BY <1>2, JumpStep32
  <2> QED BY <2>1, Zenon
<1> QED BY <1>1, <1>2

(* The distance of the short jump survives being cut.                      *)
LEMMA ModCut ==
  ASSUME NEW m \in Nat, m > 0, NEW d \in Int, d >= -m, d < m
  PROVE  /\ d % (2 * m) \in Int /\ d % (2 * m) >= 0 /\ d % (2 * m) < 2 * m
         /\ d % (2 * m) = IF d >= 0 THEN d ELSE d + 2 * m
<1>1. CASE d >= 0
  BY <1>1
<1>2. CASE d < 0
  BY <1>2
<1> QED BY <1>1, <1>2

LEMMA JumpDistance ==
  ASSUME fn \in Functions, NEW e \in ExitsOf(fn), NEW d,
         d = (e - PcAt(fn.arch, fn.start)) % 2 ^ BranchBits
  PROVE  d \in 0 .. 2 ^ BranchBits - 1 /\ PcAt(fn.arch, fn.start) + SignExtend(d) = e
<1> DEFINE m == 2 ^ (BranchBits - 1)
           w == 2 ^ BranchBits
           here == PcAt(fn.arch, fn.start)
<1>1. m \in Nat /\ w = 2 * m /\ m >= 64 /\ RangeLow <= m /\ RangeHigh < m /\ RangeLow \in Nat /\ RangeHigh \in Nat
  BY RewriteAssumption
<1>2. here \in Nat
  BY InstSizes DEF PcAt
<1>3. e \in here - RangeLow .. here + RangeHigh
  BY DEF ExitsOf, ExitsIn
<1>4. SignExtend(d) = IF d >= m THEN d - w ELSE d
  BY DEF SignExtend
<1>a. d = (e - here) % w
  OBVIOUS
<1> HIDE DEF m, w, here
<1> DEFINE c == e - here
<1>5. c \in Int /\ c >= - m /\ c < m /\ here + c = e
  BY <1>1, <1>2, <1>3
<1>6. d = c % (2 * m)
  BY <1>1, <1>a
<1> HIDE DEF c
<1>7. d \in Int /\ d >= 0 /\ d < 2 * m /\ d = IF c >= 0 THEN c ELSE c + 2 * m
  BY <1>1, <1>5, <1>6, ModCut
<1>8. SignExtend(d) = c /\ d \in 0 .. w - 1
  BY <1>1, <1>4, <1>5, <1>7
<1> QED BY <1>5, <1>8 DEF w, here

LEMMA RelativeStep ==
  ASSUME Execute, Hooked, exit # None, ip = fn.start
  PROVE  ip' = exit /\ thumb' = Home /\ regs' = regs
<1> DEFINE d == (exit - PcAt(fn.arch, fn.start)) % 2 ^ BranchBits
<1>1. fn \in Functions /\ fn.arch \in {"arm64", "arm"} /\ exit \in ExitsOf(fn) /\ CodeAt(fn.start, patch)
  BY PatchCode DEF Hooked, HookInv
<1>2. patch = <<B(d)>>
  BY <1>1 DEF Hooked, HookInv, Jumps, RelativeJump
<1>3. Fetch(fn.start) = B(d)
  <2> HIDE DEF d
  <2>1. Len(patch) = 1 /\ patch[1] = B(d)
    BY <1>2
  <2>2. Len(patch) > 0 => Fetch(fn.start) = patch[1]
    BY <1>1, CodeWords, Zenon
  <2> QED BY <2>1, <2>2
<1>4. B(d) = BIf(FALSE, d)
  BY Unconditional
<1>5. PcAt(fn.arch, fn.start) + SignExtend(d) = exit
  BY <1>1, JumpDistance
<1> HIDE DEF d
<1>6. ip' = PcAt(fn.arch, ip) + SignExtend(d) /\ thumb' = Home /\ regs' = regs
  BY <1>3, <1>4, ExecB
<1> QED BY <1>5, <1>6

----------------------------------------------------------------------------
(* Where the thread is, and what is seen of it.                            *)
Picture(a, t, r, lr, x, y) == [at |-> a, thumb |-> t, r |-> r, lr |-> lr, x |-> x, y |-> y]

(* Nobody has called the function yet.                                     *)
Idle ==
  /\ ip = Caller /\ thumb = FALSE /\ regs = Regs(Own, Own, Own, Own) /\ via = "orig"
  /\ view = Picture(Caller, FALSE, Own, Own, Own, Own)

(* With the callers or the callees of the function, or in the rest of it.  *)
Resting(p, t, rg, v, vw) ==
  \E r, x, y, lr, vlr :
    /\ Outside(p) /\ rg = Regs(r, x, y, lr) /\ Seen(lr, vlr)
    /\ vw = Picture(p, t, r, vlr, x, y)
    /\ p = Caller => lr = Own
    /\ v = "target" => p = Caller

(* Between the call of the function and its proxy.                         *)
OnTheWay(p, t, rg, v, vw) ==
  /\ v = "target" /\ t = Home
  /\ \E vt, vr, vx, vy : vw = Picture(Caller, vt, vr, Own, vx, vy)
  /\ \E r, x, y :
       \/ p = New /\ rg = Regs(r, x, y, Own)
       \/ exit = None /\ JumpMid(fn.start, New, r, x, y, Own, p, rg)
       \/ exit # None /\ p = fn.start /\ rg = Regs(r, x, y, Own)
       \/ exit # None /\ JumpMid(exit, New, r, x, y, Own, p, rg)

(* A point in a part of the enter.                                         *)
Points(i, g, r, x, y, lr, p, rg, st) ==
  IF i <= n
  THEN IF fn.arch = "arm64" THEN A64Mid(InstAt(i), To(i), Pcv(i), PartAt(i), g, r, x, y, lr, p, rg, st)
       ELSE A32Mid(InstAt(i), To(i), Pcv(i), PartAt(i), g, r, x, y, lr, p, rg, st)
  ELSE JumpMid(PartAt(i), AddressOf(i), r, x, y, lr, p, rg)

(* In the i-th part of the enter.                                          *)
InPart(i, p, t, g, rg, st, v, vw) ==
  /\ v = "orig" /\ t = Home
  /\ \E r, x, y, lr, vlr :
       /\ Seen(lr, vlr) /\ vw = Picture(AddressOf(i), Home, r, vlr, x, y)
       /\ Points(i, g, r, x, y, lr, p, rg, st)

ThreadAt(p, t, g, rg, st, v, vw) ==
  /\ t \in BOOLEAN /\ g \in BOOLEAN /\ v \in {"target", "orig"}
  /\ \/ Resting(p, t, rg, v, vw)
     \/ OnTheWay(p, t, rg, v, vw)
     \/ \E i \in 1 .. n + 1 : InPart(i, p, t, g, rg, st, v, vw)

ThreadInv ==
  /\ flag \in BOOLEAN
  /\ pc # "hooked" => Idle
  /\ pc = "hooked" => ThreadAt(ip, thumb, flag, regs, stack, via, view)

RewriteInv == HookInv /\ fn.arch \in {"arm64", "arm"} /\ ThreadInv

LEMMA ToKept ==
  ASSUME fn' = fn, n' = n
  PROVE  \A i : To(i)' = To(i) /\ Pcv(i)' = Pcv(i)
<1> TAKE i
<1>1. InstAt(i)' = InstAt(i) /\ AddressOf(i)' = AddressOf(i)
  BY AddressKept
<1>2. Target(fn.arch, InstAt(i), AddressOf(i))' = Target(fn.arch, InstAt(i), AddressOf(i))
  BY <1>1 DEF Target, BaseAt, PcAt
<1>3. \A v : FixAddr(v)' = FixAddr(v)
  BY FixKept
<1>4. To(i)' = To(i)
  BY <1>2, <1>3, Zenon DEF To
<1>5. Pcv(i)' = Pcv(i)
  BY <1>1 DEF Pcv, PcAt
<1> QED BY <1>4, <1>5

LEMMA ThreadKept ==
  ASSUME UNCHANGED hookVars, pc = "hooked",
         ThreadAt(ip', thumb', flag', regs', stack', via', view')
  PROVE  ThreadInv'
<1>1. fn' = fn /\ pc' = pc /\ n' = n /\ exit' = exit /\ starts' = starts
  BY DEF hookVars
<1>2. \A i : PartAt(i)' = PartAt(i) /\ AddressOf(i)' = AddressOf(i) /\ InstAt(i)' = InstAt(i)
             /\ To(i)' = To(i) /\ Pcv(i)' = Pcv(i)
  BY <1>1, ToKept, AddressKept DEF PartAt
<1>3. Home' = Home
  BY <1>1 DEF Home
<1>4. \A a : Outside(a)' <=> Outside(a)
  BY <1>1, FixKept DEF Outside
<1>5. \A lr, vlr : Seen(lr, vlr)' <=> Seen(lr, vlr)
  BY <1>1, <1>2, <1>3 DEF Seen
<1>6. ThreadAt(ip, thumb, flag, regs, stack, via, view)'
  BY <1>1, <1>2, <1>3, <1>4, <1>5 DEF ThreadAt, Resting, OnTheWay, InPart, Points, JumpMid, A64Mid, A32Mid
<1> QED BY <1>1, <1>6 DEF ThreadInv, ThreadAt

LEMMA PictureFields ==
  \A a, t, r, lr, x, y :
    LET v == Picture(a, t, r, lr, x, y)
    IN v.at = a /\ v.thumb = t /\ v.r = r /\ v.lr = lr /\ v.x = x /\ v.y = y
BY DEF Picture

LEMMA SeenOrigin ==
  ASSUME Hooked, NEW lr, NEW vlr, Seen(lr, vlr)
  PROVE  [lr EXCEPT !.of = Origin(@)] = vlr
<1>1. CASE lr = Own /\ vlr = Own
  <2>1. Own.of = 0
    BY DEF Own, Value
  <2>2. Origin(0) = 0
    <3>1. Len(buf) \in Nat /\ Enter \in Nat /\ Enter > 0
      BY HookedFacts
    <3>2. ~ In(0, Enter, buf)
      BY <3>1 DEF In
    <3> QED BY <3>2, Zenon DEF Origin
  <2>3. [Own EXCEPT !.of = 0] = Own
    BY DEF Own, Value
  <2> QED BY <1>1, <2>1, <2>2, <2>3, Zenon
<1>2. ASSUME NEW i \in 1 .. n + 1, lr = Address(PartAt(i), Home), vlr = Address(AddressOf(i), Home)
      PROVE  [lr EXCEPT !.of = Origin(@)] = vlr
  <2>1. Origin(PartAt(i)) = AddressOf(i)
    BY AtPart
  <2>2. lr.of = PartAt(i)
    BY <1>2 DEF Address, Value
  <2>3. [lr EXCEPT !.of = AddressOf(i)] = vlr
    BY <1>2 DEF Address, Value
  <2> QED BY <2>1, <2>2, <2>3, Zenon
<1> QED BY <1>1, <1>2 DEF Seen

LEMMA LookIs ==
  ASSUME Hooked, Look, AtBoundary(ip'),
         NEW b, Origin(ip') = b, NEW t, thumb' = t,
         NEW r, NEW x, NEW y, NEW lr, NEW vlr, regs' = Regs(r, x, y, lr), Seen(lr, vlr)
  PROVE  view' = Picture(b, t, r, vlr, x, y)
<1>1. [lr EXCEPT !.of = Origin(@)] = vlr
  BY SeenOrigin
<1>2. regs'.r = r /\ regs'.x = x /\ regs'.y = y /\ regs'.lr = lr
  BY DEF Regs
<1>3. view' = [at |-> Origin(ip'), thumb |-> thumb', r |-> regs'.r,
                lr |-> [regs'.lr EXCEPT !.of = Origin(@)], x |-> regs'.x, y |-> regs'.y]
  BY Zenon DEF Look
<1> QED BY <1>1, <1>2, <1>3, Zenon DEF Picture

(* Callers are outside.                                                    *)
LEMMA CallerOutside ==
  ASSUME HookInv
  PROVE  ~ InHead(Caller) /\ (Hooked => Outside(Caller))
<1>1. fn \in Functions /\ Caller \in Nat /\ n \in Nat
  <2>1. backup = 0 => n = 0
    BY DEF HookInv
  <2>2. backup # 0 => n \in Nat
    BY HeadSpan
  <2> QED BY <2>1, <2>2, RewriteAssumption DEF HookInv
<1>2. ~ InHead(Caller)
  <2>1. CASE backup = 0
    <3>1. n = 0
      BY <2>1 DEF HookInv
    <3>2. AddressOf(1) = fn.start /\ fn.start \in Nat
      BY <1>1, AddressNext, InstSizes
    <3>3. AddressOf(n + 1) = AddressOf(1)
      BY <3>1
    <3> QED BY <1>1, <3>2, <3>3 DEF InHead
  <2>2. CASE backup # 0
    <3>1. AddressOf(n + 1) \in Nat /\ AddressOf(n + 1) <= End(fn) + 1 /\ End(fn) \in Nat /\ End(fn) + 8 < Caller
      BY <2>2, HeadSpan
    <3> QED BY <1>1, <3>1 DEF InHead
  <2> QED BY <2>1, <2>2
<1>3. ASSUME Hooked
      PROVE  Outside(Caller)
  <2>1. exit # None => exit \in ExitsOf(fn)
    BY DEF HookInv
  <2>2. ExitLen(fn.arch) \in {2, 4}
    BY <1>1, <1>3, BackupLens DEF Hooked
  <2>3. exit # None => exit \in Nat /\ exit + ExitLen(fn.arch) < Caller
    BY <1>1, <2>1, ExitsLie
  <2>4. exit # None => Caller >= exit + ExitLen(fn.arch)
    BY <1>1, <2>2, <2>3
  <2>5. Caller \in 0 .. Caller
    BY <1>1
  <2> QED BY <1>2, <2>4, <2>5 DEF Outside
<1> QED BY <1>2, <1>3

(* A thread that is idle executes nothing of the hook.                     *)
LEMMA IdleRuns ==
  ASSUME HookInv, fn.arch \in {"arm64", "arm"}, pc # "hooked"
  PROVE  Fetch(Caller) = Nothing
<1>1. fn \in Functions /\ Caller \in Nat /\ Enter \in Nat /\ Caller < Enter /\ patch = << >>
      /\ (exit # None => exit \in ExitsOf(fn)) /\ Pointee \in Nat
  BY RewriteAssumption DEF HookInv
<1>2. ~ In(Caller, fn.start, patch)
  BY <1>1, InstSizes DEF In
<1>3. ~ In(Caller, Enter, buf)
  BY <1>1 DEF In
<1>4. ~ In(Caller, exit, ExitWords)
  <2>1. CASE exit = None
    BY <1>1, <2>1 DEF In, ExitWords, None
  <2>2. CASE exit # None
    <3>1. Len(ExitWords) = ExitLen(fn.arch) /\ ExitLen(fn.arch) \in {2, 4}
      BY <1>1, <2>2, JumpLength DEF ExitWords
    <3>2. exit \in Nat /\ exit + ExitLen(fn.arch) < Caller
      BY <1>1, <2>2, ExitsLie
    <3> QED BY <1>1, <3>1, <3>2 DEF In
  <2> QED BY <2>1, <2>2
<1> QED BY <1>2, <1>3, <1>4 DEF Fetch

LEMMA NothingRuns == Nothing.op = "none" /\ "none" \notin DataWords
BY DEF Nothing, Word, DataWords

LEMMA CodeRuns ==
  ASSUME NEW p, IsCode(Fetch(p))
  PROVE  Fetch(p).op # "none" /\ Fetch(p).op \notin DataWords
BY DEF IsCode

----------------------------------------------------------------------------
(* The steps of the abstract program.                                      *)
LEMMA ProgramInHead == HookInv => (Program!InHead <=> InHead(view.at))
<1> SUFFICES ASSUME HookInv
             PROVE  Program!InHead <=> InHead(view.at)
  OBVIOUS
<1>1. fn \in Functions
  BY DEF HookInv
<1>2. n \in Nat /\ n <= Len(fn.insts) + 1 /\ Len(fn.insts) \in Nat
  <2>1. backup = 0 => n = 0
    BY DEF HookInv
  <2>2. backup # 0 => n \in Nat /\ n <= Len(fn.insts) + 1
    BY HeadSpan
  <2> QED BY <1>1, <2>1, <2>2, InstSizes
<1>3. Program!AddressOf(n + 1) = AddressOf(n + 1)
  BY <1>1, <1>2, ProgramHead
<1>4. [fn EXCEPT !.insts = @ \o <<Padding>>].start = fn.start
  BY <1>1, PaddedFields
<1> QED BY <1>3, <1>4 DEF Program!InHead, InHead

LEMMA StutterIs ==
  ASSUME fn' = fn, n' = n, view' = view
  PROVE  UNCHANGED Program!programVars
BY DEF Program!programVars

LEMMA ElsewhereStep ==
  ASSUME HookInv, HookInv', fn' = fn, ~ InHead(view.at), ~ InHead(view.at)', view'.lr = view.lr
  PROVE  Program!Next
<1>1. ~ Program!InHead
  BY ProgramInHead
<1>2. HookInv' => (Program!InHead' <=> InHead(view.at)')
  BY ProgramInHead, PTL
<1>3. ~ Program!InHead'
  BY <1>2
<1>4. Program!Elsewhere
  BY <1>1, <1>3 DEF Program!Elsewhere
<1> QED BY <1>4 DEF Program!Next

LEMMA ReturnStep ==
  ASSUME HookInv, fn' = fn, n' = n, ~ InHead(view.at), NEW a, NEW t, view.lr = Address(a, t),
         view'.at = a, view'.thumb = t, view'.lr = Own, view'.r = view.r
  PROVE  Program!Next
<1>1. ~ Program!InHead
  BY ProgramInHead
<1>2. view.lr.is = "address" /\ view.lr.of = a /\ view.lr.t = t
  BY DEF Address, Value
<1>3. Program!Own = Own
  BY ProgramOps
<1>4. Program!Return
  BY <1>1, <1>2, <1>3 DEF Program!Return
<1> QED BY <1>4 DEF Program!Next

LEMMA CallStep ==
  ASSUME HookInv, fn' = fn, n' = n, ~ InHead(view.at), view.lr = Own,
         view'.at = fn.start, view'.thumb = Home, view'.lr = view.lr, view'.r = view.r
  PROVE  Program!Next
<1>1. ~ Program!InHead
  BY ProgramInHead
<1>2. /\ [fn EXCEPT !.insts = @ \o <<Padding>>].start = fn.start
      /\ [fn EXCEPT !.insts = @ \o <<Padding>>].arch = fn.arch
  BY PaddedFields DEF HookInv
<1>3. Program!Own = Own
  BY ProgramOps
<1>4. Program!Call
  BY <1>1, <1>2, <1>3 DEF Program!Call, Home
<1> QED BY <1>4 DEF Program!Next

LEMMA DoStep ==
  ASSUME Hooked, fn' = fn, n' = n, NEW i \in 1 .. n, NEW g \in BOOLEAN, NEW r, NEW vlr, NEW x, NEW y,
         view = Picture(AddressOf(i), Home, r, vlr, x, y),
         NEW b, NEW t, NEW r1, NEW vlr1, NEW xx,
         Program!Do(InstAt(i), AddressOf(i), g, State(r, vlr, Lost)) = State(r1, vlr1, Address(b, t)),
         xx = x \/ (fn.arch = "arm64" /\ InstAt(i).kind \in Branches),
         view' = Picture(b, t, r1, vlr1, xx, y)
  PROVE  Program!Next
<1>1. view.at = AddressOf(i) /\ view.thumb = Home /\ view.r = r /\ view.lr = vlr /\ view.x = x /\ view.y = y
  BY DEF Picture
<1>2. view'.at = b /\ view'.thumb = t /\ view'.r = r1 /\ view'.lr = vlr1 /\ view'.x = xx /\ view'.y = y
  BY DEF Picture
<1>3. HookInv /\ fn \in Functions /\ n \in Nat /\ n >= 1 /\ backup # 0 /\ fn.arch \in {"arm64", "arm"}
  BY HookedFacts, PatchLen DEF Hooked
<1>4. n <= Len(fn.insts) + 1 /\ Len(fn.insts) \in Nat
  BY <1>3, HeadSpan, InstSizes
<1>5. /\ [fn EXCEPT !.insts = @ \o <<Padding>>].arch = fn.arch
      /\ [fn EXCEPT !.insts = @ \o <<Padding>>].insts = PaddedInsts
  BY <1>3, PaddedFields
<1>6. PaddedInsts[i] = InstAt(i)
  BY <1>3, <1>4, InstAtPadded
<1>7. Program!InHead
  <2>1. AddressOf(1) = fn.start /\ AddressOf(1) <= AddressOf(i) /\ AddressOf(i) < AddressOf(n + 1)
    BY <1>3, AddressNext, AddressOrder
  <2>2. InHead(view.at)
    BY <1>1, <2>1, AddressNext, <1>3 DEF InHead
  <2> QED BY <1>3, <2>2, ProgramInHead
<1>8. Program!AddressOf(i) = AddressOf(i)
  BY <1>3, <1>4, ProgramHead
<1>9. InstAt(i).kind # "IT"
  BY <1>3, InstAtIs
<1>10. Program!Lost = Lost /\ Program!Branches = Branches
  BY ProgramOps
<1> DEFINE s == [r |-> view.r, lr |-> view.lr, to |-> Program!Lost]
           after == Program!Do(InstAt(i), view.at, g, s)
<1>11. s = State(r, vlr, Lost)
  BY <1>1, <1>10 DEF State
<1>12. after = State(r1, vlr1, Address(b, t))
  BY <1>1, <1>11, Zenon
<1>13. after.r = r1 /\ after.lr = vlr1 /\ after.to.of = b /\ after.to.t = t
  BY <1>12 DEF State, Address, Value
<1> HIDE DEF after
<1>14. /\ view.at = Program!AddressOf(i)
       /\ view'.at = after.to.of /\ view'.thumb = after.to.t /\ view'.r = after.r /\ view'.lr = after.lr
       /\ ~ (fn.arch = "arm64" /\ InstAt(i).kind \in Program!Branches) => view'.x = view.x
       /\ view'.y = view.y
  BY <1>1, <1>2, <1>8, <1>10, <1>13
<1>15. Program!Step
  <2>1. [fn EXCEPT !.insts = @ \o <<Padding>>].insts[i] = InstAt(i)
    BY <1>5, <1>6
  <2>2. view.thumb = (fn.arch = "thumb")
    BY <1>1 DEF Home
  <2>3. [fn EXCEPT !.insts = @ \o <<Padding>>]' = [fn EXCEPT !.insts = @ \o <<Padding>>]
    OBVIOUS
  <2> DEFINE inst == [fn EXCEPT !.insts = @ \o <<Padding>>].insts[i]
             out == IF inst.kind = "IT" THEN Program!DoBlock(inst, view.at, g, s)
                    ELSE Program!Do(inst, view.at, g, s)
  <2>4. inst = InstAt(i) /\ out = after
    BY <1>9, <2>1, Zenon DEF after
  <2>5. /\ view.at = Program!AddressOf(i)
        /\ view'.at = out.to.of /\ view'.thumb = out.to.t /\ view'.r = out.r /\ view'.lr = out.lr
        /\ ~ ([fn EXCEPT !.insts = @ \o <<Padding>>].arch = "arm64" /\ inst.kind \in Program!Branches)
             => view'.x = view.x
        /\ view'.y = view.y
    BY <1>5, <1>14, <2>4, Zenon
  <2>6. view.thumb = ([fn EXCEPT !.insts = @ \o <<Padding>>].arch = "thumb")
    BY <1>5, <2>2, Zenon
  <2>7. UNCHANGED <<[fn EXCEPT !.insts = @ \o <<Padding>>], n>>
    BY <2>3
  <2> QED BY <1>7, <2>5, <2>6, <2>7, Zenon DEF Program!Step
<1> QED BY <1>15 DEF Program!Next

----------------------------------------------------------------------------
(* What is at the address of a thread.                                     *)
LEMMA JumpCode ==
  ASSUME fn.arch \in {"arm64", "arm"}, NEW o, NEW s, NEW a, NEW to, CodeAt(o, s), s = AbsoluteJump(a, to),
         NEW r, NEW x, NEW y, NEW lr, NEW p, NEW rg, JumpMid(o, to, r, x, y, lr, p, rg)
  PROVE  IsCode(Fetch(p)) /\ p >= o /\ p < o + Len(s) /\ p \in Nat
<1>1. /\ o \in Nat
      /\ Len(s) > 0 => Fetch(o) = s[1]
      /\ Len(s) > 1 => Fetch(o + 1) = s[2]
  BY CodeWords, Zenon
<1>2. CASE fn.arch = "arm64"
  <2>1. Len(s) = 4 /\ s[1] = Ldr("x", 2) /\ s[2] = Set("br", "pc", "x")
    BY <1>2, JumpWords
  <2>2. IsCode(s[1]) /\ IsCode(s[2])
    BY <2>1, WordOps DEF IsCode, DataWords
  <2>3. p = o \/ p = o + 1
    BY DEF JumpMid
  <2> QED BY <1>1, <2>1, <2>2, <2>3
<1>3. CASE fn.arch = "arm"
  <2>1. Len(s) = 2 /\ s[1] = Ldr("pc", -1)
    BY <1>3, JumpWords32
  <2>2. IsCode(s[1])
    BY <2>1, WordOps DEF IsCode, DataWords
  <2>3. p = o
    BY <1>3 DEF JumpMid
  <2> QED BY <1>1, <2>1, <2>2, <2>3
<1> QED BY <1>2, <1>3

LEMMA RestingFetch ==
  ASSUME Hooked, NEW p, NEW t, NEW rg, NEW v, NEW vw, Resting(p, t, rg, v, vw)
  PROVE  Fetch(p) = Nothing /\ Outside(p)
BY OutsideFacts DEF Resting

LEMMA NewOutside ==
  ASSUME Hooked
  PROVE  Outside(New) /\ New # Caller
<1>1. HookInv /\ backup # 0 /\ fn \in Functions /\ fn.arch \in {"arm64", "arm"}
  BY PatchLen DEF Hooked, HookInv
<1>2. New \in Nat /\ Caller \in Nat /\ Caller < New
  BY HookedFacts
<1>3. AddressOf(n + 1) \in Nat /\ AddressOf(n + 1) <= End(fn) + 1 /\ End(fn) \in Nat /\ End(fn) + 8 < Caller
  BY <1>1, HeadSpan
<1>4. ~ InHead(New)
  BY <1>2, <1>3 DEF InHead
<1>5. exit # None => New >= exit + ExitLen(fn.arch)
  <2>1. exit # None => exit \in ExitsOf(fn)
    BY <1>1 DEF HookInv
  <2>2. exit # None => exit \in Nat /\ exit + ExitLen(fn.arch) < Caller
    BY <1>1, <2>1, ExitsLie
  <2>3. ExitLen(fn.arch) \in {2, 4}
    BY <1>1, BackupLens
  <2> QED BY <1>2, <2>2, <2>3
<1> QED BY <1>2, <1>4, <1>5 DEF Outside

LEMMA WayCode ==
  ASSUME Hooked, NEW p, NEW t, NEW rg, NEW v, NEW vw, OnTheWay(p, t, rg, v, vw)
  PROVE  p = New \/ (IsCode(Fetch(p)) /\ ~ (p \in Enter .. Enter + EnterSize) /\ p \in 0 .. New)
<1>1. PICK r, x, y :
       \/ p = New /\ rg = Regs(r, x, y, Own)
       \/ exit = None /\ JumpMid(fn.start, New, r, x, y, Own, p, rg)
       \/ exit # None /\ p = fn.start /\ rg = Regs(r, x, y, Own)
       \/ exit # None /\ JumpMid(exit, New, r, x, y, Own, p, rg)
  BY DEF OnTheWay
<1>2. fn.arch \in {"arm64", "arm"} /\ HookInv /\ fn \in Functions /\ backup # 0
  BY PatchLen DEF Hooked, HookInv
<1>3. CodeAt(fn.start, patch) /\ Len(patch) = backup /\ backup \in 1 .. 5
      /\ (exit # None => CodeAt(exit, ExitWords) /\ Len(ExitWords) = ExitLen(fn.arch))
      /\ ExitLen(fn.arch) \in {2, 4}
  BY <1>2, PatchCode, HeadSpan, BackupLens
<1>4. fn.start \in Nat /\ fn.start + backup <= Caller
  <2>1. /\ AddressOf(n + 1) \in Nat /\ fn.start \in Nat /\ fn.start + backup <= AddressOf(n + 1)
        /\ AddressOf(n + 1) <= End(fn) + 1 /\ End(fn) \in Nat /\ End(fn) + 8 < Caller /\ Caller \in Nat
    BY <1>2, HeadSpan
  <2> QED BY <1>3, <2>1
<1>5. Enter \in Nat /\ Caller < Enter /\ Caller \in Nat /\ New \in Nat /\ Caller < New
  BY HookedFacts
<1>6. exit # None => exit \in Nat /\ exit + ExitLen(fn.arch) < Caller
  <2>1. exit # None => exit \in ExitsOf(fn)
    BY <1>2 DEF HookInv
  <2>2. exit # None => exit \in Nat /\ exit + ExitLen(fn.arch) < Caller
    BY <1>2, <2>1, ExitsLie
  <2> QED BY <2>2
<1>7. ASSUME p \in Nat, p < Caller
      PROVE  ~ (p \in Enter .. Enter + EnterSize) /\ p \in 0 .. New
  BY <1>5, <1>7
<1>8. CASE exit = None /\ JumpMid(fn.start, New, r, x, y, Own, p, rg)
  <2>1. patch = AbsoluteJump(fn.start, New)
    BY <1>8 DEF Hooked, HookInv, Jumps
  <2>2. IsCode(Fetch(p)) /\ p >= fn.start /\ p < fn.start + Len(patch) /\ p \in Nat
    BY <1>2, <1>3, <1>8, <2>1, JumpCode
  <2>3. p < Caller
    BY <1>3, <1>4, <1>5, <2>2
  <2> QED BY <1>7, <2>2, <2>3
<1>9. CASE exit # None /\ p = fn.start
  <2>1. patch = RelativeJump(exit)
    BY <1>9 DEF Hooked, HookInv, Jumps
  <2>2. \E d : patch = <<B(d)>>
    BY <1>2, <2>1 DEF RelativeJump
  <2>3. Len(patch) > 0 => Fetch(fn.start) = patch[1]
    BY <1>3, CodeWords, Zenon
  <2>4. Fetch(p).op = "b"
    BY <1>9, <2>2, <2>3, WordOps
  <2>5. p < Caller /\ p \in Nat
    BY <1>3, <1>4, <1>5, <1>9
  <2> QED BY <1>7, <2>4, <2>5 DEF IsCode, DataWords
<1>10. CASE exit # None /\ JumpMid(exit, New, r, x, y, Own, p, rg)
  <2>1. ExitWords = AbsoluteJump(0, New)
    BY <1>10 DEF ExitWords
  <2>2. IsCode(Fetch(p)) /\ p >= exit /\ p < exit + Len(ExitWords) /\ p \in Nat
    BY <1>2, <1>3, <1>10, <2>1, JumpCode
  <2>3. p < Caller
    <3>1. Len(ExitWords) = ExitLen(fn.arch) /\ exit \in Nat /\ exit + ExitLen(fn.arch) < Caller
      BY <1>3, <1>6, <1>10, Zenon
    <3> QED BY <1>3, <1>5, <2>2, <3>1
  <2> QED BY <1>7, <2>2, <2>3
<1> QED BY <1>1, <1>8, <1>9, <1>10

LEMMA PointCode ==
  ASSUME Hooked, NEW i \in 1 .. n + 1, NEW g, NEW r, NEW x, NEW y, NEW lr, NEW p, NEW rg, NEW st,
         Points(i, g, r, x, y, lr, p, rg, st)
  PROVE  p \in Nat /\ p >= PartAt(i) /\ p < PartAt(i) + Len(WordsOf(i)) /\ IsCode(Fetch(p))
<1>1. fn.arch \in {"arm64", "arm"} /\ fn \in Functions /\ n \in Nat /\ i \in Nat \ {0}
  BY HookedFacts DEF Hooked
<1>2. CodeAt(PartAt(i), WordsOf(i)) /\ WordsOf(i) # << >>
  BY PartCode, Parts, Zenon
<1>3. CASE i <= n
  <2>1. i \in 1 .. n
    BY <1>1, <1>3
  <2>2. AimsAtHead(i) \in BOOLEAN
    BY <1>1, <2>1, WordsOfInst
  <2>3. CASE fn.arch = "arm64"
    <3>1. WordsOf(i) = A64!Rewrite(InstAt(i), To(i), AimsAtHead(i)) /\ InstAt(i) \in A64!Insts
      BY <1>1, <2>1, <2>3, WordsOfInst, InstAtIs
    <3>2. A64Mid(InstAt(i), To(i), Pcv(i), PartAt(i), g, r, x, y, lr, p, rg, st)
      BY <1>3, <2>3 DEF Points
    <3> QED BY <1>2, <2>2, <3>1, <3>2, A64MidCode
  <2>4. CASE fn.arch = "arm"
    <3>1. WordsOf(i) = A32!Rewrite(InstAt(i), To(i), AimsAtHead(i), Pcv(i)) /\ InstAt(i) \in A32!Insts
      BY <1>1, <2>1, <2>4, WordsOfInst, InstAtIs
    <3>2. A32Mid(InstAt(i), To(i), Pcv(i), PartAt(i), g, r, x, y, lr, p, rg, st)
      BY <1>3, <2>4 DEF Points
    <3> QED BY <1>2, <2>2, <3>1, <3>2, A32MidCode
  <2> QED BY <1>1, <2>3, <2>4
<1>4. CASE ~ (i <= n)
  <2>1. i = n + 1
    BY <1>1, <1>4
  <2>2. WordsOf(i) = AbsoluteJump(0, AddressOf(i))
    BY <1>4, <2>1 DEF WordsOf
  <2>3. JumpMid(PartAt(i), AddressOf(i), r, x, y, lr, p, rg)
    BY <1>4 DEF Points
  <2> QED BY <1>1, <1>2, <2>2, <2>3, JumpCode
<1> QED BY <1>3, <1>4

(* A thread that is not in code of the hook.                               *)
LEMMA WhereIsThread ==
  ASSUME Hooked, ThreadAt(ip, thumb, flag, regs, stack, via, view), ~ Running
  PROVE  Resting(ip, thumb, regs, via, view) \/ (ip = New /\ OnTheWay(ip, thumb, regs, via, view))
<1>1. ~ IsCode(Fetch(ip))
  BY DEF Running, IsCode
<1>2. ASSUME NEW i \in 1 .. n + 1, InPart(i, ip, thumb, flag, regs, stack, via, view)
      PROVE  FALSE
  <2>1. PICK r, x, y, lr : Points(i, flag, r, x, y, lr, ip, regs, stack)
    BY <1>2 DEF InPart
  <2> QED BY <1>1, <2>1, PointCode
<1>3. OnTheWay(ip, thumb, regs, via, view) => ip = New
  BY <1>1, WayCode
<1> QED BY <1>2, <1>3 DEF ThreadAt

LEMMA EnterIsFirst ==
  ASSUME Hooked
  PROVE  /\ 1 \in 1 .. n + 1 /\ PartAt(1) = Enter /\ AddressOf(1) = fn.start
         /\ fn.start \in Nat
<1>1. n \in Nat /\ n >= 1 /\ Layout /\ Len(starts) = n + 1 /\ fn \in Functions /\ Enter \in Nat
  BY HookedFacts
<1>2. starts # << >>
  BY <1>1
<1>3. starts[1] = 0
  BY <1>1, <1>2 DEF Layout
<1>4. PartAt(1) = Enter
  BY <1>1, <1>3 DEF PartAt
<1>5. AddressOf(1) = fn.start /\ fn.start \in Nat
  BY <1>1, AddressNext, InstSizes
<1>6. 1 \in 1 .. n + 1
  BY <1>1
<1> QED BY <1>4, <1>5, <1>6

LEMMA JumpTo ==
  ASSUME NEW a, NEW t, Jump(Address(a, t))
  PROVE  ip' = a /\ thumb' = t
<1>1. Address(a, t).is = "address" /\ Address(a, t).of = a /\ Address(a, t).t = t
  BY DEF Address, Value
<1> QED BY <1>1 DEF Jump

(* What every step of a thread in a hooked function keeps.                 *)
Keeps ==
  /\ ThreadAt(ip', thumb', flag', regs', stack', via', view')
  /\ Program!Next \/ UNCHANGED Program!programVars

LEMMA CallTargetKeeps ==
  ASSUME Hooked, ThreadAt(ip, thumb, flag, regs, stack, via, view), CallTarget
  PROVE  Keeps
<1>1. ip = Caller /\ Jump(Address(fn.start, Home)) /\ via' = "target"
      /\ fn' = fn /\ n' = n /\ regs' = regs /\ stack' = stack /\ flag' = flag /\ view' = view
  BY DEF CallTarget, hookVars
<1>2. ip' = fn.start /\ thumb' = Home
  BY <1>1, JumpTo
<1>3. ~ Running
  <2>1. Outside(Caller)
    BY CallerOutside DEF Hooked
  <2> QED BY <1>1, <2>1, OutsideFacts, NothingRuns DEF Running
<1>4. Resting(ip, thumb, regs, via, view)
  BY <1>1, <1>3, WhereIsThread, NewOutside
<1>5. PICK r, x, y, lr, vlr :
        /\ regs = Regs(r, x, y, lr) /\ Seen(lr, vlr) /\ view = Picture(ip, thumb, r, vlr, x, y)
        /\ ip = Caller => lr = Own
  BY <1>4, Zenon DEF Resting
<1>6. lr = Own
  BY <1>1, <1>5
<1>7. vlr = Own
  BY <1>5, <1>6 DEF Seen, Own, Address, Value
<1>8. JumpMid(fn.start, New, r, x, y, Own, ip', regs')
  BY <1>1, <1>2, <1>5, <1>6, Zenon DEF JumpMid
<1>9. OnTheWay(ip', thumb', regs', via', view')
  <2>1. view' = Picture(Caller, thumb, r, Own, x, y)
    BY <1>1, <1>5, <1>7, Zenon
  <2>2. exit = None \/ exit # None
    OBVIOUS
  <2>3. ip' = fn.start /\ regs' = Regs(r, x, y, Own)
    BY <1>1, <1>2, <1>5, <1>6, Zenon
  <2> QED BY <1>1, <1>2, <1>8, <2>1, <2>2, <2>3, Zenon DEF OnTheWay
<1>10. thumb' \in BOOLEAN /\ flag' \in BOOLEAN /\ via' \in {"target", "orig"}
  BY <1>1, <1>2 DEF ThreadAt, Home
<1> QED BY <1>1, <1>9, <1>10, StutterIs DEF Keeps, ThreadAt

LEMMA CallOrigKeeps ==
  ASSUME Hooked, ThreadAt(ip, thumb, flag, regs, stack, via, view), CallOrig
  PROVE  Keeps
<1>1. ip = Caller /\ Jump(Address(Enter, Home)) /\ via' = "orig" /\ flag' \in BOOLEAN
      /\ fn' = fn /\ n' = n /\ regs' = regs /\ stack' = stack /\ Look
  BY DEF CallOrig, hookVars
<1>2. ip' = PartAt(1) /\ thumb' = Home /\ 1 \in 1 .. n + 1 /\ AddressOf(1) = fn.start
  BY <1>1, JumpTo, EnterIsFirst
<1>3. ~ Running
  <2>1. Outside(Caller)
    BY CallerOutside DEF Hooked
  <2> QED BY <1>1, <2>1, OutsideFacts, NothingRuns DEF Running
<1>4. Resting(ip, thumb, regs, via, view)
  BY <1>1, <1>3, WhereIsThread, NewOutside
<1>5. PICK r, x, y, lr, vlr :
        /\ regs = Regs(r, x, y, lr) /\ Seen(lr, vlr) /\ view = Picture(ip, thumb, r, vlr, x, y)
        /\ ip = Caller => lr = Own
  BY <1>4, Zenon DEF Resting
<1>6. lr = Own
  BY <1>1, <1>5
<1>7. vlr = Own
  BY <1>5, <1>6 DEF Seen, Own, Address, Value
<1>8. regs' = Regs(r, x, y, lr)
  BY <1>1, <1>5
<1>9. AtBoundary(ip') /\ Origin(ip') = AddressOf(1)
  BY <1>2, AtPart
<1>10. view' = Picture(AddressOf(1), Home, r, vlr, x, y)
  BY <1>1, <1>2, <1>5, <1>8, <1>9, LookIs
<1>11. Points(1, flag', r, x, y, lr, ip', regs', stack')
  BY <1>2, <1>8 DEF Points, A64Mid, A32Mid, JumpMid
<1>12. InPart(1, ip', thumb', flag', regs', stack', via', view')
  BY <1>1, <1>2, <1>5, <1>10, <1>11, Zenon DEF InPart
<1>13. ThreadAt(ip', thumb', flag', regs', stack', via', view')
  BY <1>1, <1>2, <1>12 DEF ThreadAt, Home
<1>14. view.at = Caller /\ view.lr = Own /\ view.r = r
  BY <1>1, <1>5, <1>7 DEF Picture
<1>15. view'.at = fn.start /\ view'.thumb = Home /\ view'.lr = Own /\ view'.r = r
  BY <1>2, <1>7, <1>10 DEF Picture
<1>16. HookInv /\ ~ InHead(view.at)
  BY <1>14, CallerOutside DEF Hooked
<1>17. Program!Next
  BY <1>1, <1>14, <1>15, <1>16, CallStep
<1> QED BY <1>13, <1>17 DEF Keeps

LEMMA ReturnToHeadKeeps ==
  ASSUME Hooked, ThreadAt(ip, thumb, flag, regs, stack, via, view), ReturnToHead
  PROVE  Keeps
<1>1. ~ Running /\ regs.lr.is = "address" /\ Jump(regs.lr) /\ regs' = [Fresh EXCEPT !.r = regs.r]
      /\ flag' \in BOOLEAN /\ fn' = fn /\ n' = n /\ via' = via /\ stack' = stack /\ Look
  BY DEF ReturnToHead, hookVars
<1>2. Resting(ip, thumb, regs, via, view)
  <2>1. OnTheWay(ip, thumb, regs, via, view) /\ ip = New => regs.lr = Own
    <3> SUFFICES ASSUME OnTheWay(ip, thumb, regs, via, view), ip = New
                 PROVE  regs.lr = Own
      OBVIOUS
    <3>1. PICK r, x, y :
       \/ ip = New /\ regs = Regs(r, x, y, Own)
       \/ exit = None /\ JumpMid(fn.start, New, r, x, y, Own, ip, regs)
       \/ exit # None /\ ip = fn.start /\ regs = Regs(r, x, y, Own)
       \/ exit # None /\ JumpMid(exit, New, r, x, y, Own, ip, regs)
      BY Zenon DEF OnTheWay
    <3> QED BY <3>1 DEF JumpMid, Regs
  <2>2. Own.is # "address"
    BY DEF Own, Value
  <2> QED BY <1>1, <2>1, <2>2, WhereIsThread
<1>3. PICK r, x, y, lr, vlr :
        /\ regs = Regs(r, x, y, lr) /\ Seen(lr, vlr) /\ view = Picture(ip, thumb, r, vlr, x, y)
        /\ ip = Caller => lr = Own /\ Outside(ip)
        /\ via = "target" => ip = Caller
        /\ Outside(ip)
  BY <1>2, Zenon DEF Resting
<1>4. regs.lr = lr /\ regs.r = r
  BY <1>3 DEF Regs
<1>5. lr # Own
  BY <1>1, <1>4 DEF Own, Value
<1>6. PICK i \in 1 .. n + 1 : lr = Address(PartAt(i), Home) /\ vlr = Address(AddressOf(i), Home)
  BY <1>3, <1>5 DEF Seen
<1>7. ip' = PartAt(i) /\ thumb' = Home
  BY <1>1, <1>4, <1>6, JumpTo
<1>8. regs' = Regs(r, Own, Own, Own)
  BY <1>1, <1>4 DEF Fresh, Regs
<1>9. AtBoundary(ip') /\ Origin(ip') = AddressOf(i)
  BY <1>7, AtPart
<1>10. Seen(Own, Own)
  BY DEF Seen
<1>11. view' = Picture(AddressOf(i), Home, r, Own, Own, Own)
  BY <1>1, <1>7, <1>8, <1>9, <1>10, LookIs
<1>12. Points(i, flag', r, Own, Own, Own, ip', regs', stack')
  BY <1>7, <1>8 DEF Points, A64Mid, A32Mid, JumpMid
<1>13. via' = "orig"
  <2>1. via \in {"target", "orig"}
    BY DEF ThreadAt
  <2> QED BY <1>1, <1>3, <1>5, <2>1
<1>14. InPart(i, ip', thumb', flag', regs', stack', via', view')
  BY <1>7, <1>10, <1>11, <1>12, <1>13, Zenon DEF InPart
<1>15. ThreadAt(ip', thumb', flag', regs', stack', via', view')
  BY <1>1, <1>7, <1>13, <1>14 DEF ThreadAt, Home
<1>16. view.at = ip /\ view.lr = Address(AddressOf(i), Home) /\ view.r = r
  BY <1>3, <1>6 DEF Picture
<1>17. view'.at = AddressOf(i) /\ view'.thumb = Home /\ view'.lr = Own /\ view'.r = r
  BY <1>11 DEF Picture
<1>18. HookInv /\ ~ InHead(view.at)
  BY <1>3, <1>16 DEF Hooked, Outside
<1>19. Program!Next
  BY <1>1, <1>16, <1>17, <1>18, ReturnStep
<1> QED BY <1>15, <1>19 DEF Keeps

LEMMA CallerNotHead == HookInv /\ view.at = Caller => ~ InHead(view.at)
BY CallerOutside

LEMMA ReturnToCallerKeeps ==
  ASSUME Hooked, ThreadAt(ip, thumb, flag, regs, stack, via, view), ReturnToCaller
  PROVE  Keeps
<1>1. ~ Running /\ regs.lr = Own /\ Jump(Address(Caller, FALSE)) /\ regs' = Fresh
      /\ flag' = flag /\ fn' = fn /\ n' = n /\ via' = via /\ stack' = stack /\ Look /\ UNCHANGED hookVars
  BY DEF ReturnToCaller, hookVars
<1>2. ip' = Caller /\ thumb' = FALSE
  BY <1>1, JumpTo
<1>3. ~ InHead(view.at) /\ view.lr = Own
  <2>1. CASE Resting(ip, thumb, regs, via, view)
    <3>1. PICK r, x, y, lr, vlr :
            /\ Outside(ip) /\ regs = Regs(r, x, y, lr) /\ Seen(lr, vlr)
            /\ view = Picture(ip, thumb, r, vlr, x, y)
      BY <2>1, Zenon DEF Resting
    <3>2. lr = Own
      BY <1>1, <3>1 DEF Regs
    <3>3. vlr = Own
      BY <3>1, <3>2 DEF Seen, Own, Address, Value
    <3> QED BY <3>1, <3>3 DEF Picture, Outside
  <2>2. CASE OnTheWay(ip, thumb, regs, via, view)
    <3>1. PICK vt, vr, vx, vy : view = Picture(Caller, vt, vr, Own, vx, vy)
      BY <2>2 DEF OnTheWay
    <3>2. view.at = Caller /\ view.lr = Own
      BY <3>1 DEF Picture
    <3> QED BY <3>2, CallerOutside DEF Hooked
  <2> QED BY <1>1, <2>1, <2>2, WhereIsThread
<1>4. regs' = Regs(Own, Own, Own, Own)
  BY <1>1 DEF Fresh, Regs
<1>5. Outside(Caller) /\ AtBoundary(Caller) /\ Origin(Caller) = Caller
  <2>1. Outside(Caller)
    BY CallerOutside DEF Hooked
  <2> QED BY <2>1, OutsideFacts
<1>6. Seen(Own, Own)
  BY DEF Seen
<1>7. AtBoundary(ip') /\ Origin(ip') = Caller
  BY <1>2, <1>5
<1>8. view' = Picture(Caller, FALSE, Own, Own, Own, Own)
  BY <1>1, <1>2, <1>4, <1>6, <1>7, LookIs
<1>9. Resting(ip', thumb', regs', via', view')
  BY <1>2, <1>4, <1>5, <1>6, <1>8, Zenon DEF Resting
<1>10. ThreadAt(ip', thumb', flag', regs', stack', via', view')
  BY <1>1, <1>2, <1>9 DEF ThreadAt
<1>11. HookInv /\ HookInv'
  BY <1>1, HookInvKept DEF Hooked
<1>12. view'.at = Caller /\ view'.lr = Own
  BY <1>8 DEF Picture
<1>13. HookInv' /\ (view.at = Caller)' => ~ InHead(view.at)'
  BY CallerNotHead, PTL
<1>14. Program!Next
  BY <1>1, <1>3, <1>11, <1>12, <1>13, ElsewhereStep
<1> QED BY <1>10, <1>14 DEF Keeps

(* What Execute does besides.                                              *)
LEMMA ExecuteRest ==
  ASSUME Execute
  PROVE  /\ Running /\ UNCHANGED hookVars /\ fn' = fn /\ n' = n /\ via' = via
         /\ flag' \in IF AtBoundary(ip') THEN BOOLEAN ELSE {flag}
         /\ via = "orig" => Look
         /\ via # "orig" => view' = view
BY DEF Execute, hookVars

LEMMA ExecuteOnTheWay ==
  ASSUME Hooked, ThreadAt(ip, thumb, flag, regs, stack, via, view), Execute,
         OnTheWay(ip, thumb, regs, via, view)
  PROVE  Keeps
<1>1. /\ Running /\ fn' = fn /\ n' = n /\ via' = via /\ flag \in BOOLEAN
      /\ flag' \in IF AtBoundary(ip') THEN BOOLEAN ELSE {flag}
  BY ExecuteRest DEF ThreadAt
<1>2. via = "target" /\ view' = view
  BY ExecuteRest DEF OnTheWay
<1>3. flag' \in BOOLEAN
  BY <1>1
<1>4. PICK r, x, y :
       \/ ip = New /\ regs = Regs(r, x, y, Own)
       \/ exit = None /\ JumpMid(fn.start, New, r, x, y, Own, ip, regs)
       \/ exit # None /\ ip = fn.start /\ regs = Regs(r, x, y, Own)
       \/ exit # None /\ JumpMid(exit, New, r, x, y, Own, ip, regs)
  BY Zenon DEF OnTheWay
<1>5. ip # New
  BY <1>1, NewOutside, OutsideFacts, NothingRuns DEF Running
<1>6. fn.arch \in {"arm64", "arm"} /\ CodeAt(fn.start, patch) /\ (exit # None => CodeAt(exit, ExitWords))
      /\ patch = Jumps(exit)
  BY PatchCode DEF Hooked, HookInv
<1> DEFINE Way(o) == \E r1, x1, y1 :
       \/ ip' = New /\ regs' = Regs(r1, x1, y1, Own)
       \/ exit = None /\ JumpMid(fn.start, New, r1, x1, y1, Own, ip', regs')
       \/ exit # None /\ ip' = fn.start /\ regs' = Regs(r1, x1, y1, Own)
       \/ exit # None /\ JumpMid(exit, New, r1, x1, y1, Own, ip', regs')
<1>7. thumb' = Home /\ Way(0)
  <2>1. CASE exit = None /\ JumpMid(fn.start, New, r, x, y, Own, ip, regs)
    <3>1. patch = AbsoluteJump(fn.start, New)
      BY <1>6, <2>1 DEF Jumps
    <3>2. \/ ip' = fn.start + 1 /\ thumb' = Home /\ fn.arch = "arm64" /\ regs' = Regs(r, Address(New, Home), y, Own)
          \/ ip' = New /\ thumb' = Home /\ \E xx : regs' = Regs(r, xx, y, Own)
      BY <1>6, <2>1, <3>1, JumpStep
    <3>3. ip' = fn.start + 1 /\ fn.arch = "arm64" /\ regs' = Regs(r, Address(New, Home), y, Own)
            => JumpMid(fn.start, New, r, x, y, Own, ip', regs')
      BY Zenon DEF JumpMid
    <3> QED BY <2>1, <3>2, <3>3, Zenon
  <2>2. CASE exit # None /\ ip = fn.start /\ regs = Regs(r, x, y, Own)
    <3>1. ip' = exit /\ thumb' = Home /\ regs' = Regs(r, x, y, Own)
      BY <2>2, RelativeStep
    <3>2. JumpMid(exit, New, r, x, y, Own, ip', regs')
      BY <3>1, Zenon DEF JumpMid
    <3> QED BY <2>2, <3>1, <3>2, Zenon
  <2>3. CASE exit # None /\ JumpMid(exit, New, r, x, y, Own, ip, regs)
    <3>1. ExitWords = AbsoluteJump(0, New)
      BY <2>3 DEF ExitWords
    <3>2. \/ ip' = exit + 1 /\ thumb' = Home /\ fn.arch = "arm64" /\ regs' = Regs(r, Address(New, Home), y, Own)
          \/ ip' = New /\ thumb' = Home /\ \E xx : regs' = Regs(r, xx, y, Own)
      BY <1>6, <2>3, <3>1, JumpStep
    <3>3. ip' = exit + 1 /\ fn.arch = "arm64" /\ regs' = Regs(r, Address(New, Home), y, Own)
            => JumpMid(exit, New, r, x, y, Own, ip', regs')
      BY Zenon DEF JumpMid
    <3> QED BY <2>3, <3>2, <3>3, Zenon
  <2> QED BY <1>4, <1>5, <2>1, <2>2, <2>3
<1>8. OnTheWay(ip', thumb', regs', via', view')
  <2>1. \E vt, vr, vx, vy : view' = Picture(Caller, vt, vr, Own, vx, vy)
    BY <1>2, Zenon DEF OnTheWay
  <2> QED BY <1>1, <1>2, <1>7, <2>1, Zenon DEF OnTheWay
<1>9. thumb' \in BOOLEAN /\ via' \in {"target", "orig"}
  BY <1>1, <1>2, <1>7 DEF Home
<1>10. ThreadAt(ip', thumb', flag', regs', stack', via', view')
  BY <1>3, <1>8, <1>9 DEF ThreadAt
<1> QED BY <1>1, <1>2, <1>10, StutterIs DEF Keeps

LEMMA FixFields ==
  \A v : FixAddr(v).is = v.is /\ FixAddr(v).t = v.t
<1> TAKE v
<1> DEFINE offset[k \in 0 .. n] ==
             IF k = 0 THEN 0
             ELSE offset[k - 1] + IF AddressOf(k) < v.of THEN InstLen(InstAt(k)) ELSE 0
<1>1. FixAddr(v) = IF InHead(v.of) THEN [v EXCEPT !.of = Enter + offset[n]] ELSE v
  BY Zenon DEF FixAddr
<1>2. \A a : [v EXCEPT !.of = a].is = v.is /\ [v EXCEPT !.of = a].t = v.t
  OBVIOUS
<1> QED BY <1>1, <1>2, Zenon

LEMMA ToIsAddress ==
  ASSUME fn.arch \in {"arm64", "arm"}, NEW i
  PROVE  To(i).is = "address"
<1>1. Target(fn.arch, InstAt(i), AddressOf(i)).is = "address"
  BY DEF Target, Address, Value
<1>2. FixAddr(Target(fn.arch, InstAt(i), AddressOf(i))).is = Target(fn.arch, InstAt(i), AddressOf(i)).is
  BY FixFields
<1> QED BY <1>1, <1>2 DEF To

(* A point inside a part: nothing is seen of it.                           *)
LEMMA StaysInPart ==
  ASSUME Hooked, ThreadAt(ip, thumb, flag, regs, stack, via, view), Execute,
         NEW i \in 1 .. n + 1, NEW r, NEW x, NEW y, NEW lr, NEW vlr,
         Seen(lr, vlr), view = Picture(AddressOf(i), Home, r, vlr, x, y), via = "orig",
         thumb' = Home, ip' \in Int, ip' > PartAt(i), ip' < PartAt(i) + Len(WordsOf(i)),
         Points(i, flag, r, x, y, lr, ip', regs', stack')
  PROVE  Keeps
<1>1. ~ AtBoundary(ip')
  BY InsidePart
<1>2. /\ fn' = fn /\ n' = n /\ via' = via /\ flag \in BOOLEAN
      /\ flag' \in IF AtBoundary(ip') THEN BOOLEAN ELSE {flag}
      /\ Look
  BY ExecuteRest DEF ThreadAt
<1>3. flag' = flag
  BY <1>1, <1>2
<1>4. view' = view
  BY <1>1, <1>2 DEF Look
<1>5. Points(i, flag', r, x, y, lr, ip', regs', stack')
  BY <1>3, Zenon
<1>6. InPart(i, ip', thumb', flag', regs', stack', via', view')
  <2>1. view' = Picture(AddressOf(i), Home, r, vlr, x, y) /\ via' = "orig"
    BY <1>2, <1>4
  <2> QED BY <1>5, <2>1, Zenon DEF InPart
<1>7. ThreadAt(ip', thumb', flag', regs', stack', via', view')
  BY <1>2, <1>3, <1>6 DEF ThreadAt, Home
<1> QED BY <1>2, <1>4, <1>7, StutterIs DEF Keeps

(* The end of a rewritten instruction: at another part, or outside.        *)
LEMMA LandsSomewhere ==
  ASSUME Hooked, Execute, via = "orig",
         NEW r, NEW x, NEW y, NEW lr, NEW vlr, regs' = Regs(r, x, y, lr), Seen(lr, vlr),
         NEW b, Lands(ip', thumb', b), thumb' \in BOOLEAN
  PROVE  /\ ThreadAt(ip', thumb', flag', regs', stack', via', view')
         /\ view' = Picture(b, thumb', r, vlr, x, y)
<1>1. /\ fn' = fn /\ n' = n /\ via' = "orig" /\ Look
      /\ flag' \in IF AtBoundary(ip') THEN BOOLEAN ELSE {flag}
  BY ExecuteRest
<1>2. ASSUME NEW m \in 1 .. n + 1, ip' = PartAt(m), thumb' = Home, b = AddressOf(m)
      PROVE  /\ ThreadAt(ip', thumb', flag', regs', stack', via', view')
             /\ view' = Picture(b, thumb', r, vlr, x, y)
  <2>1. AtBoundary(ip') /\ Origin(ip') = b
    BY <1>2, AtPart
  <2>2. view' = Picture(b, thumb', r, vlr, x, y)
    BY <1>1, <2>1, LookIs
  <2>3. flag' \in BOOLEAN
    BY <1>1, <2>1
  <2>4. Points(m, flag', r, x, y, lr, ip', regs', stack')
    BY <1>2 DEF Points, A64Mid, A32Mid, JumpMid
  <2>5. view' = Picture(AddressOf(m), Home, r, vlr, x, y)
    BY <1>2, <2>2, Zenon
  <2>6. InPart(m, ip', thumb', flag', regs', stack', via', view')
    BY <1>1, <1>2, <2>4, <2>5, Zenon DEF InPart
  <2> QED BY <1>1, <2>2, <2>3, <2>6 DEF ThreadAt
<1>3. ASSUME Outside(ip'), b = ip', ip' # Caller
      PROVE  /\ ThreadAt(ip', thumb', flag', regs', stack', via', view')
             /\ view' = Picture(b, thumb', r, vlr, x, y)
  <2>1. AtBoundary(ip') /\ Origin(ip') = b
    BY <1>3, OutsideFacts
  <2>2. view' = Picture(b, thumb', r, vlr, x, y)
    BY <1>1, <2>1, LookIs
  <2>3. flag' \in BOOLEAN
    BY <1>1, <2>1
  <2>4. Resting(ip', thumb', regs', via', view')
    <3>1. view' = Picture(ip', thumb', r, vlr, x, y)
      BY <1>3, <2>2, Zenon
    <3>2. via' # "target"
      BY <1>1
    <3> QED BY <1>3, <3>1, <3>2, Zenon DEF Resting
  <2> QED BY <1>1, <2>2, <2>3, <2>4 DEF ThreadAt
<1> QED BY <1>2, <1>3, Zenon DEF Lands

(* One step in a part leads to another point of it or to its end.          *)
LEMMA PartStep ==
  ASSUME Hooked, Execute, flag \in BOOLEAN, NEW i \in 1 .. n, NEW r, NEW x, NEW y, NEW lr,
         Points(i, flag, r, x, y, lr, ip, regs, stack)
  PROVE  \/ /\ Points(i, flag, r, x, y, lr, ip', regs', stack')
            /\ thumb' = Home /\ ip' > PartAt(i) /\ ip' < PartAt(i) + Len(WordsOf(i))
         \/ Done(InstAt(i), To(i), Pcv(i), flag, PartAt(i) + Len(WordsOf(i)), r, x, y, lr, ip', thumb', regs')
<1> DEFINE inst == InstAt(i)
           to == To(i)
           pcv == Pcv(i)
           inHead == AimsAtHead(i)
           s == WordsOf(i)
           o == PartAt(i)
           next == ip' > o /\ ip' < o + Len(s)
           done == Done(inst, to, pcv, flag, o + Len(s), r, x, y, lr, ip', thumb', regs')
<1>2. fn.arch \in {"arm64", "arm"} /\ fn \in Functions /\ n \in Nat /\ i \in Nat \ {0} /\ i \in 1 .. n + 1 /\ i <= n
  BY HookedFacts DEF Hooked
<1>3. /\ fn.arch = "arm64" => inst \in A64!Insts
      /\ fn.arch = "arm" => inst \in A32!Insts
  BY <1>2, InstAtIs
<1>4. /\ fn.arch = "arm64" => s = A64!Rewrite(inst, to, inHead)
      /\ fn.arch = "arm" => s = A32!Rewrite(inst, to, inHead, pcv)
      /\ inHead \in BOOLEAN
  BY <1>2, WordsOfInst
<1>5. CodeAt(o, s) /\ s # << >>
  BY <1>2, PartCode, Parts, Zenon
<1>6. to.is = "address"
  BY <1>2, ToIsAddress
<1>7. /\ inst.kind \in {"LDR", "VLDR", "LDR_PC"} => LoadsWell(to, inst.len)
      /\ inst.kind \in {"LDR_REG", "LDR_REG_PC"} => LoadsWell(pcv, inst.len)
  BY LiteralKept, PcKept
<1>8. IsPc(pcv)
  <2> DEFINE a == PcAt(fn.arch, AddressOf(i))
  <2>1. pcv = Address(a, FALSE)
    BY DEF Pcv
  <2> HIDE DEF a
  <2>2. pcv.of = a
    BY <2>1, AddressFields
  <2>3. pcv = Address(pcv.of, FALSE)
    BY <2>1, <2>2, Zenon
  <2> QED BY <2>3, Zenon DEF IsPc
<1> HIDE DEF inst, to, pcv, inHead, s, o, done
<1>9. CASE fn.arch = "arm64"
  <2>1. A64Now(inst, to, pcv, o, r, x, y, lr)
    BY <1>2, <1>9, Zenon DEF Points, A64Now, inst, to, pcv, o
  <2>2. inst.kind \in {"LDR", "VLDR"} => Loaded(to, inst.len) = Content(to.of, inst.len)
    BY <1>7 DEF LoadsWell
  <2>3. \/ A64Next(inst, to, pcv, o, r, x, y, lr) /\ thumb' = Home /\ next
        \/ done
    BY <1>3, <1>4, <1>5, <1>6, <1>9, <2>1, <2>2, A64Step DEF done
  <2>4. A64Next(inst, to, pcv, o, r, x, y, lr) => Points(i, flag, r, x, y, lr, ip', regs', stack')
    BY <1>2, <1>9, Zenon DEF Points, A64Next, inst, to, pcv, o
  <2> QED BY <2>3, <2>4 DEF inst, to, pcv, o, s, done
<1>10. CASE fn.arch = "arm"
  <2>0. fn.arch # "arm64"
    BY <1>10
  <2>1. A32Now(inst, to, pcv, o, r, x, y, lr)
    BY <1>2, <2>0, Zenon DEF Points, A32Now, inst, to, pcv, o
  <2>2. /\ inst.kind \in {"LDR_PC", "LDR"} => LoadsWell(to, inst.len)
        /\ inst.kind \in {"LDR_REG_PC", "LDR_REG"} => LoadsWell(pcv, inst.len)
    BY <1>7
  <2>3. \/ A32Next(inst, to, pcv, o, r, x, y, lr) /\ thumb' = Home /\ next
        \/ done
    BY <1>3, <1>4, <1>5, <1>6, <1>8, <1>10, <2>1, <2>2, A32Step DEF done
  <2>4. A32Next(inst, to, pcv, o, r, x, y, lr) => Points(i, flag, r, x, y, lr, ip', regs', stack')
    BY <1>2, <2>0, Zenon DEF Points, A32Next, inst, to, pcv, o
  <2> QED BY <2>3, <2>4 DEF inst, to, pcv, o, s, done
<1> QED BY <1>2, <1>9, <1>10

LEMMA DoneThumb ==
  ASSUME Hooked, NEW i \in 1 .. n, NEW g, NEW e, NEW r, NEW x, NEW y, NEW lr, NEW p, NEW t, NEW rg,
         Done(InstAt(i), To(i), Pcv(i), g, e, r, x, y, lr, p, t, rg)
  PROVE  t \in BOOLEAN
<1>1. i \in Nat \ {0} /\ fn \in Functions /\ fn.arch \in {"arm64", "arm"}
  BY HookedFacts DEF Hooked
<1>2. Home \in BOOLEAN
  BY DEF Home
<1>3. To(i).t \in BOOLEAN
  <2>1. FixAddr(Target(fn.arch, InstAt(i), AddressOf(i))).t = Target(fn.arch, InstAt(i), AddressOf(i)).t
    BY FixFields
  <2>2. Target(fn.arch, InstAt(i), AddressOf(i)).t \in BOOLEAN
    BY DEF Target, Address, Value
  <2> QED BY <2>1, <2>2 DEF To
<1>4. Pcv(i).t = FALSE /\ Address(Pointee, FALSE).t = FALSE /\ \A a : Address(a, Home).t = Home
  BY AddressFields DEF Pcv
<1>5. InstAt(i).kind \in {"IGNORED", "B", "B_COND", "BL", "ADR", "LDR", "PLD", "VLDR", "CBZ", "BX", "BLX",
                         "ADD", "ADD_PC", "MOV", "MOV_PC", "LDR_PC", "LDR_REG", "LDR_REG_PC"}
  BY <1>1, InstAtIs DEF A64!Insts, A64!InstsOf, A32!Insts, A32!InstsOf
<1>6. t = Home \/ t = To(i).t \/ t = Pcv(i).t \/ t = Address(Pointee, FALSE).t
      \/ \E a : t = Address(a, Home).t
  BY <1>5 DEF Done
<1> QED BY <1>2, <1>3, <1>4, <1>6

LEMMA ExecuteInst ==
  ASSUME Hooked, ThreadAt(ip, thumb, flag, regs, stack, via, view), Execute,
         NEW i \in 1 .. n, InPart(i, ip, thumb, flag, regs, stack, via, view)
  PROVE  Keeps
<1> DEFINE inst == InstAt(i)
           s == WordsOf(i)
           o == PartAt(i)
<1>1. PICK r, x, y, lr, vlr :
        /\ Seen(lr, vlr) /\ view = Picture(AddressOf(i), Home, r, vlr, x, y)
        /\ Points(i, flag, r, x, y, lr, ip, regs, stack)
        /\ via = "orig" /\ thumb = Home
  BY Zenon DEF InPart
<1>2. fn.arch \in {"arm64", "arm"} /\ fn \in Functions /\ n \in Nat /\ i \in Nat \ {0} /\ i \in 1 .. n + 1 /\ i <= n
      /\ flag \in BOOLEAN
  BY HookedFacts DEF Hooked, ThreadAt
<1>9. o \in Nat /\ Len(s) \in Nat /\ o + Len(s) = PartAt(i + 1)
  BY <1>2, Parts
<1>10. \/ /\ Points(i, flag, r, x, y, lr, ip', regs', stack')
          /\ thumb' = Home /\ ip' > o /\ ip' < o + Len(s)
       \/ Done(inst, To(i), Pcv(i), flag, o + Len(s), r, x, y, lr, ip', thumb', regs')
  BY <1>1, <1>2, PartStep
<1> HIDE DEF inst, s, o
<1>11. CASE /\ Points(i, flag, r, x, y, lr, ip', regs', stack')
            /\ thumb' = Home /\ ip' > o /\ ip' < o + Len(s)
  <2>2. ip' \in Int
    <3>1. ip' \in Nat
      BY <1>2, <1>11, PointCode
    <3> QED BY <3>1
  <2> QED BY <1>1, <1>2, <1>11, <2>2, StaysInPart DEF s, o
<1>12. CASE Done(inst, To(i), Pcv(i), flag, o + Len(s), r, x, y, lr, ip', thumb', regs')
  <2>1. Done(InstAt(i), To(i), Pcv(i), flag, PartAt(i + 1), r, x, y, lr, ip', thumb', regs')
    BY <1>9, <1>12, Zenon DEF inst
  <2>2. PICK r1, xx, lr1, vlr1, b :
           /\ regs' = Regs(r1, xx, y, lr1) /\ Seen(lr1, vlr1)
           /\ xx = x \/ (fn.arch = "arm64" /\ InstAt(i).kind \in Branches)
           /\ Lands(ip', thumb', b)
           /\ Program!Do(InstAt(i), AddressOf(i), flag, State(r, vlr, Lost)) = State(r1, vlr1, Address(b, thumb'))
    BY <1>1, <1>2, <2>1, DoneLands
  <2>3. thumb' \in BOOLEAN
    BY <2>1, DoneThumb
  <2>4. /\ ThreadAt(ip', thumb', flag', regs', stack', via', view')
        /\ view' = Picture(b, thumb', r1, vlr1, xx, y)
    BY <1>1, <2>2, <2>3, LandsSomewhere
  <2>5. fn' = fn /\ n' = n
    BY ExecuteRest
  <2>6. Program!Next
    BY <1>1, <1>2, <2>2, <2>4, <2>5, DoStep
  <2> QED BY <2>4, <2>6 DEF Keeps
<1> QED BY <1>10, <1>11, <1>12

LEMMA EndNotHead == HookInv /\ view.at = AddressOf(n + 1) => ~ InHead(view.at)
<1> SUFFICES ASSUME HookInv, view.at = AddressOf(n + 1)
             PROVE  ~ InHead(view.at)
  OBVIOUS
<1>1. fn \in Functions
  BY DEF HookInv
<1>2. n \in Nat
  <2>1. backup = 0 => n = 0
    BY DEF HookInv
  <2>2. backup # 0 => n \in Nat
    BY HeadSpan
  <2> QED BY <2>1, <2>2
<1>3. AddressOf(n + 1) \in Nat
  BY <1>1, <1>2, AddressNext
<1> QED BY <1>3 DEF InHead

LEMMA EndOutside ==
  ASSUME Hooked
  PROVE  Outside(AddressOf(n + 1)) /\ AddressOf(n + 1) # Caller
<1>1. HookInv /\ backup # 0 /\ fn \in Functions /\ fn.arch \in {"arm64", "arm"}
  BY PatchLen DEF Hooked, HookInv
<1>2. AddressOf(n + 1) \in Nat /\ fn.start \in Nat /\ fn.start + backup <= AddressOf(n + 1)
      /\ AddressOf(n + 1) <= End(fn) + 1 /\ End(fn) \in Nat /\ End(fn) + 8 < Caller
      /\ Caller \in Nat /\ backup \in 1 .. 5
  BY <1>1, HeadSpan
<1>3. ~ InHead(AddressOf(n + 1))
  BY <1>2 DEF InHead
<1>4. exit # None => AddressOf(n + 1) < exit \/ AddressOf(n + 1) >= exit + ExitLen(fn.arch)
  <2>1. exit # None => exit \in ExitsOf(fn)
    BY <1>1 DEF HookInv
  <2>2. exit # None =>
          exit \in Nat /\ (exit + ExitLen(fn.arch) <= fn.start \/ exit > End(fn) + 8)
    BY <1>1, <2>1, ExitsLie
  <2>3. ExitLen(fn.arch) \in {2, 4}
    BY <1>1, BackupLens
  <2> QED BY <1>2, <2>2, <2>3
<1>5. AddressOf(n + 1) \in 0 .. Caller /\ AddressOf(n + 1) # Caller
  BY <1>2
<1> QED BY <1>3, <1>4, <1>5 DEF Outside

LEMMA ExecuteJump ==
  ASSUME Hooked, ThreadAt(ip, thumb, flag, regs, stack, via, view), Execute,
         InPart(n + 1, ip, thumb, flag, regs, stack, via, view)
  PROVE  Keeps
<1> DEFINE i == n + 1
           s == WordsOf(i)
           o == PartAt(i)
           to == AddressOf(i)
<1>1. PICK r, x, y, lr, vlr :
        /\ Seen(lr, vlr) /\ view = Picture(AddressOf(i), Home, r, vlr, x, y)
        /\ Points(i, flag, r, x, y, lr, ip, regs, stack)
        /\ via = "orig" /\ thumb = Home
  BY Zenon DEF InPart
<1>2. fn.arch \in {"arm64", "arm"} /\ fn \in Functions /\ n \in Nat /\ i \in 1 .. n + 1 /\ ~ (i <= n)
  BY HookedFacts DEF Hooked
<1>3. s = AbsoluteJump(0, to)
  BY <1>2 DEF WordsOf
<1>4. CodeAt(o, s) /\ o \in Nat
  BY <1>2, PartCode, Parts, Zenon
<1>6. JumpMid(o, to, r, x, y, lr, ip, regs)
  BY <1>1, <1>2 DEF Points
<1>7. \/ ip' = o + 1 /\ thumb' = Home /\ fn.arch = "arm64" /\ regs' = Regs(r, Address(to, Home), y, lr)
      \/ ip' = to /\ thumb' = Home /\ \E xx : regs' = Regs(r, xx, y, lr)
  BY <1>2, <1>3, <1>4, <1>6, JumpStep
<1>8. CASE ip' = o + 1 /\ thumb' = Home /\ fn.arch = "arm64" /\ regs' = Regs(r, Address(to, Home), y, lr)
  <2>1. Points(i, flag, r, x, y, lr, ip', regs', stack')
    BY <1>2, <1>8 DEF Points, JumpMid
  <2>2. ip' \in Int /\ ip' > o /\ ip' < o + Len(s)
    <3>1. ip' = o + 1 /\ o \in Nat /\ Len(s) = 4
      BY <1>3, <1>4, <1>8, JumpWords
    <3> HIDE DEF o, s
    <3> QED BY <3>1
  <2> QED BY <1>1, <1>2, <1>8, <2>1, <2>2, StaysInPart
<1>9. CASE ip' = to /\ thumb' = Home /\ \E xx : regs' = Regs(r, xx, y, lr)
  <2>0. PICK xx : regs' = Regs(r, xx, y, lr)
    BY <1>9
  <2>1. Lands(ip', thumb', to) /\ thumb' \in BOOLEAN
    BY <1>9, EndOutside DEF Lands, Home
  <2>2. /\ ThreadAt(ip', thumb', flag', regs', stack', via', view')
        /\ view' = Picture(to, thumb', r, vlr, xx, y)
    BY <1>1, <2>0, <2>1, LandsSomewhere
  <2>3. fn' = fn /\ n' = n /\ UNCHANGED hookVars
    BY ExecuteRest
  <2>4. HookInv /\ HookInv'
    BY <2>3, HookInvKept DEF Hooked
  <2>5. view.at = to /\ view.lr = vlr /\ view'.at = to /\ view'.lr = vlr
    BY <1>1, <2>2 DEF Picture
  <2>6. HookInv' /\ (view.at = AddressOf(n + 1))' => ~ InHead(view.at)'
    BY EndNotHead, PTL
  <2>7. AddressOf(n + 1)' = AddressOf(n + 1)
    BY <2>3 DEF AddressOf, InstAt
  <2>8. ~ InHead(view.at)'
    BY <2>4, <2>5, <2>6, <2>7
  <2>9. ~ InHead(view.at)
    BY <2>4, <2>5, EndNotHead
  <2>10. Program!Next
    BY <2>3, <2>4, <2>5, <2>8, <2>9, ElsewhereStep
  <2> QED BY <2>2, <2>10 DEF Keeps
<1> QED BY <1>7, <1>8, <1>9

(* A thread that may be anywhere.                                          *)
LEMMA ThreadKeeps ==
  ASSUME Hooked, ThreadAt(ip, thumb, flag, regs, stack, via, view),
         CallTarget \/ CallOrig \/ Execute \/ ReturnToHead \/ ReturnToCaller
  PROVE  Keeps /\ UNCHANGED hookVars
<1>1. CASE CallTarget
  BY <1>1, CallTargetKeeps DEF CallTarget
<1>2. CASE CallOrig
  BY <1>2, CallOrigKeeps DEF CallOrig
<1>3. CASE ReturnToHead
  BY <1>3, ReturnToHeadKeeps DEF ReturnToHead
<1>4. CASE ReturnToCaller
  BY <1>4, ReturnToCallerKeeps DEF ReturnToCaller
<1>5. CASE Execute
  <2>1. CASE Resting(ip, thumb, regs, via, view)
    BY <1>5, <2>1, RestingFetch, NothingRuns, ExecuteRest DEF Running
  <2>2. CASE OnTheWay(ip, thumb, regs, via, view)
    BY <1>5, <2>2, ExecuteOnTheWay, ExecuteRest
  <2>3. ASSUME NEW i \in 1 .. n + 1, InPart(i, ip, thumb, flag, regs, stack, via, view)
        PROVE  Keeps
    <3>1. i \in 1 .. n \/ i = n + 1
      BY HookedFacts
    <3> QED BY <1>5, <2>3, <3>1, ExecuteInst, ExecuteJump
  <2> QED BY <1>5, <2>1, <2>2, <2>3, ExecuteRest DEF ThreadAt
<1> QED BY <1>1, <1>2, <1>3, <1>4, <1>5

LEMMA IdleRests == Hooked /\ Idle /\ flag \in BOOLEAN => ThreadAt(ip, thumb, flag, regs, stack, via, view)
<1> SUFFICES ASSUME Hooked, Idle, flag \in BOOLEAN
             PROVE  ThreadAt(ip, thumb, flag, regs, stack, via, view)
  OBVIOUS
<1>1. ip = Caller /\ thumb = FALSE /\ regs = Regs(Own, Own, Own, Own) /\ via = "orig"
      /\ view = Picture(Caller, FALSE, Own, Own, Own, Own)
  BY DEF Idle
<1>2. Outside(Caller)
  BY CallerOutside DEF Hooked
<1>3. Seen(Own, Own)
  BY DEF Seen
<1>4. via # "target"
  BY <1>1
<1>5. Resting(ip, thumb, regs, via, view)
  BY <1>1, <1>2, <1>3, <1>4, Zenon DEF Resting
<1> QED BY <1>1, <1>5 DEF ThreadAt

LEMMA RewriteInvInit == Init /\ fn.arch # "thumb" => RewriteInv /\ ~ Program!InHead
<1> SUFFICES ASSUME Init, fn.arch # "thumb"
             PROVE  RewriteInv /\ ~ Program!InHead
  OBVIOUS
<1>1. HookInv
  BY HookInvInit
<1>2. fn.arch \in {"arm64", "arm"} /\ pc # "hooked" /\ flag = FALSE
  <2>1. fn \in Functions /\ pc # "hooked" /\ flag = FALSE
    BY DEF Init
  <2>2. fn.arch \in {"arm64", "arm", "thumb"}
    BY <2>1, InstSizes
  <2> QED BY <2>1, <2>2
<1>3. Idle /\ view.at = Caller
  BY DEF Init, Idle, Fresh, Regs, Picture
<1>4. ~ Program!InHead
  BY <1>1, <1>3, CallerNotHead, ProgramInHead
<1> QED BY <1>1, <1>2, <1>3, <1>4 DEF RewriteInv, ThreadInv

LEMMA RewriteInvNext == RewriteInv /\ [Next]_vars => RewriteInv' /\ [Program!Next]_(Program!programVars)
<1> SUFFICES ASSUME RewriteInv, [Next]_vars
             PROVE  RewriteInv' /\ [Program!Next]_(Program!programVars)
  OBVIOUS
<1>1. HookInv /\ fn.arch \in {"arm64", "arm"} /\ ThreadInv /\ HookInv'
  BY HookInvNext DEF RewriteInv
<1>2. fn' = fn
  BY DEF Next, vars, hookVars, HookWithExit, HookWithoutExit, RewriteInst, JumpBack, Patch, GiveUp,
         CallTarget, CallOrig, Execute, ReturnToHead, ReturnToCaller
<1>3. CASE UNCHANGED <<cpuVars, view>> /\ pc # "hooked"
  <2>1. Idle /\ flag \in BOOLEAN /\ ip' = ip /\ thumb' = thumb /\ regs' = regs /\ flag' = flag /\ via' = via
        /\ view' = view /\ stack' = stack
    BY <1>1, <1>3 DEF ThreadInv, cpuVars
  <2>2. Idle'
    BY <2>1 DEF Idle, Regs, Picture
  <2>3. Hooked' /\ Idle' /\ (flag \in BOOLEAN)' => ThreadAt(ip, thumb, flag, regs, stack, via, view)'
    BY IdleRests, PTL
  <2>4. pc' = "hooked" => Hooked'
    BY <1>1, <1>2 DEF Hooked
  <2>5. ThreadInv'
    BY <2>1, <2>2, <2>3, <2>4 DEF ThreadInv
  <2>6. view.at = Caller /\ view'.at = Caller
    BY <2>1 DEF Idle, Picture
  <2>7. HookInv' /\ (view.at = Caller)' => ~ InHead(view.at)'
    BY CallerNotHead, PTL
  <2>8. ~ InHead(view.at) /\ ~ InHead(view.at)'
    BY <1>1, <2>6, <2>7, CallerNotHead
  <2>9. Program!Next
    BY <1>1, <1>2, <2>1, <2>8, ElsewhereStep
  <2> QED BY <1>1, <1>2, <2>5, <2>9 DEF RewriteInv
<1>4. CASE UNCHANGED vars
  <2>1. /\ fn' = fn /\ n' = n /\ view' = view /\ UNCHANGED hookVars /\ pc' = pc
        /\ ip' = ip /\ thumb' = thumb /\ flag' = flag /\ regs' = regs /\ stack' = stack /\ via' = via
    BY <1>4 DEF vars, hookVars, cpuVars
  <2>2. CASE pc = "hooked"
    <3>1. ThreadAt(ip', thumb', flag', regs', stack', via', view')
      <4>1. ThreadAt(ip, thumb, flag, regs, stack, via, view)
        BY <1>1, <2>2 DEF ThreadInv
      <4> QED BY <2>1, <4>1
    <3>2. ThreadInv'
      BY <2>1, <2>2, <3>1, ThreadKept
    <3> QED BY <1>1, <1>2, <2>1, <3>2, StutterIs DEF RewriteInv
  <2>3. CASE pc # "hooked"
    BY <1>3, <2>1, <2>3 DEF cpuVars
  <2> QED BY <2>2, <2>3
<1>5. CASE pc = "hooked" /\ ~ UNCHANGED vars
  <2>1. Hooked /\ ThreadAt(ip, thumb, flag, regs, stack, via, view)
    BY <1>1, <1>5 DEF Hooked, ThreadInv
  <2>2. CallTarget \/ CallOrig \/ Execute \/ ReturnToHead \/ ReturnToCaller
    BY <1>5 DEF Next, HookWithExit, HookWithoutExit, RewriteInst, JumpBack, Patch, GiveUp
  <2>3. Keeps /\ UNCHANGED hookVars
    BY <2>1, <2>2, ThreadKeeps
  <2>4. ThreadInv'
    BY <1>5, <2>3, ThreadKept DEF Keeps
  <2> QED BY <1>1, <1>2, <2>3, <2>4 DEF RewriteInv, Keeps
<1>6. CASE pc # "hooked" /\ ~ UNCHANGED vars
  <2>1. Idle
    BY <1>1, <1>6 DEF ThreadInv
  <2>2. ~ Running
    BY <1>1, <1>6, <2>1, IdleRuns, NothingRuns DEF Idle, Running
  <2>3. regs.lr = Own /\ ip = Caller
    BY <2>1 DEF Idle, Regs
  <2>4. ~ Execute /\ ~ ReturnToHead /\ ~ ReturnToCaller /\ ~ CallTarget /\ ~ CallOrig
    BY <1>6, <2>2, <2>3 DEF Execute, ReturnToHead, ReturnToCaller, CallTarget, CallOrig, Own, Value
  <2>5. UNCHANGED <<cpuVars, view>>
    BY <1>6, <2>4 DEF Next, HookWithExit, HookWithoutExit, RewriteInst, JumpBack, Patch, GiveUp
  <2> QED BY <1>3, <1>6, <2>5
<1> QED BY <1>4, <1>5, <1>6

----------------------------------------------------------------------------
(* What the invariant says of a thread, wherever it is.                    *)
LEMMA Somewhere ==
  ASSUME RewriteInv
  PROVE  /\ ip \in 0 .. New /\ thumb \in BOOLEAN /\ flag \in BOOLEAN /\ via \in {"target", "orig"}
         /\ \E r, x, y, lr : regs = Regs(r, x, y, lr)
         /\ Fetch(ip).op \notin DataWords
         /\ ip \in Enter .. Enter + EnterSize => Running
         /\ Running => thumb = Home
         /\ via = "target" /\ ~ Running => ip = Caller \/ (ip = New /\ thumb = Home)
<1>1. HookInv /\ fn.arch \in {"arm64", "arm"} /\ ThreadInv
  BY DEF RewriteInv
<1>2. /\ Caller \in Nat /\ Pointee \in Nat /\ Enter \in Nat /\ EnterSize \in Nat /\ New \in Nat
      /\ Caller < Pointee /\ Pointee < Enter /\ Enter + EnterSize < New
  BY RewriteAssumption
<1>3. CASE pc # "hooked"
  <2>1. Idle /\ flag \in BOOLEAN
    BY <1>1, <1>3 DEF ThreadInv
  <2>2. ip = Caller /\ thumb = FALSE /\ regs = Regs(Own, Own, Own, Own) /\ via = "orig"
    BY <2>1 DEF Idle
  <2>3. Fetch(ip).op = "none" /\ "none" \notin DataWords /\ ~ Running
    BY <1>1, <1>3, <2>2, IdleRuns, NothingRuns DEF Running
  <2>4. ~ (ip \in Enter .. Enter + EnterSize) /\ ip \in 0 .. New
    BY <1>2, <2>2
  <2>5. \E r, x, y, lr : regs = Regs(r, x, y, lr)
    BY <2>2, Zenon
  <2> QED BY <2>1, <2>2, <2>3, <2>4, <2>5
<1>4. CASE pc = "hooked"
  <2>1. Hooked /\ ThreadAt(ip, thumb, flag, regs, stack, via, view)
    BY <1>1, <1>4 DEF Hooked, ThreadInv
  <2>2. thumb \in BOOLEAN /\ flag \in BOOLEAN /\ via \in {"target", "orig"}
    BY <2>1 DEF ThreadAt
  <2>3. ASSUME Outside(ip)
        PROVE  ip \in 0 .. New /\ ~ Running /\ ~ (ip \in Enter .. Enter + EnterSize)
               /\ Fetch(ip).op \notin DataWords
    <3>1. ip \in Nat /\ ip <= New /\ Fetch(ip) = Nothing /\ ~ (ip \in Enter .. Enter + EnterSize)
      BY <2>1, <2>3, OutsideFacts
    <3>2. Fetch(ip).op = "none" /\ Fetch(ip).op \notin DataWords
      BY <3>1, NothingRuns
    <3> QED BY <1>2, <3>1, <3>2 DEF Running
  <2>4. CASE Resting(ip, thumb, regs, via, view)
    <3>1. Outside(ip) /\ (via = "target" => ip = Caller)
      BY <2>4 DEF Resting
    <3>2. \E r, x, y, lr : regs = Regs(r, x, y, lr)
      BY <2>4, Zenon DEF Resting
    <3> QED BY <2>2, <2>3, <3>1, <3>2
  <2>5. CASE OnTheWay(ip, thumb, regs, via, view)
    <3>1. thumb = Home
      BY <2>5 DEF OnTheWay
    <3>2. \E r, x, y, lr : regs = Regs(r, x, y, lr)
      BY <2>5 DEF OnTheWay, JumpMid
    <3>3. CASE ip = New
      <4>1. Outside(ip)
        BY <2>1, <3>3, NewOutside
      <4> QED BY <2>2, <2>3, <3>1, <3>2, <3>3, <4>1
    <3>4. CASE IsCode(Fetch(ip)) /\ ~ (ip \in Enter .. Enter + EnterSize) /\ ip \in 0 .. New
      <4>1. Running /\ Fetch(ip).op \notin DataWords
        BY <3>4 DEF IsCode, Running
      <4> QED BY <2>2, <3>1, <3>2, <3>4, <4>1
    <3> QED BY <2>1, <2>5, <3>3, <3>4, WayCode
  <2>6. ASSUME NEW i \in 1 .. n + 1, InPart(i, ip, thumb, flag, regs, stack, via, view)
        PROVE  /\ ip \in 0 .. New /\ Running /\ Fetch(ip).op \notin DataWords
               /\ thumb = Home /\ \E r, x, y, lr : regs = Regs(r, x, y, lr)
    <3>1. PICK r, x, y, lr : Points(i, flag, r, x, y, lr, ip, regs, stack) /\ thumb = Home
      BY <2>6, Zenon DEF InPart
    <3>2. ip \in Nat /\ ip >= PartAt(i) /\ ip < PartAt(i) + Len(WordsOf(i)) /\ IsCode(Fetch(ip))
      BY <2>1, <3>1, PointCode
    <3>3. PartAt(i) + Len(WordsOf(i)) <= Enter + Len(buf) /\ PartAt(i) \in Nat /\ Len(WordsOf(i)) \in Nat
      BY <2>1, Parts
    <3>4. Len(buf) \in Nat /\ Len(buf) <= EnterSize
      BY <2>1, HookedFacts
    <3>5. ip \in 0 .. New
      BY <1>2, <3>2, <3>3, <3>4
    <3>6. \E r1, x1, y1, lr1 : regs = Regs(r1, x1, y1, lr1)
      BY <3>1 DEF Points, A64Mid, A32Mid, JumpMid
    <3> QED BY <3>1, <3>2, <3>5, <3>6 DEF IsCode, Running
  <2> QED BY <2>1, <2>2, <2>4, <2>5, <2>6 DEF ThreadAt
<1> QED BY <1>3, <1>4

LEMMA PatchFits ==
  ASSUME HookInv
  PROVE  /\ patch # << >> => Len(patch) = backup
         /\ \A i \in DOMAIN patch : patch[i].op = "b" => patch[i].arg \in 0 .. 2 ^ BranchBits - 1
<1>1. fn \in Functions /\ fn.arch \in {"arm64", "arm", "thumb"} /\ patch = IF pc = "hooked" THEN Jumps(exit) ELSE << >>
  BY InstSizes DEF HookInv
<1>2. patch # << >> => Len(patch) = backup
  BY <1>1, PatchLen
<1>3. CASE pc # "hooked"
  BY <1>1, <1>2, <1>3
<1>4. CASE pc = "hooked" /\ exit # None
  <2> DEFINE d == (exit - PcAt(fn.arch, fn.start)) % 2 ^ BranchBits
  <2>1. patch = IF fn.arch = "thumb" THEN <<B(d), Second>> ELSE <<B(d)>>
    BY <1>1, <1>4 DEF Jumps, RelativeJump, Wide
  <2>2. exit \in ExitsOf(fn)
    BY <1>4 DEF HookInv
  <2>3. d \in 0 .. 2 ^ BranchBits - 1
    BY <1>1, <2>2, JumpDistance
  <2> DEFINE w == B(d)
  <2>4. w.arg = d /\ Second.op # "b"
    BY WordOps DEF B, Word
  <2>5. patch = IF fn.arch = "thumb" THEN <<w, Second>> ELSE <<w>>
    BY <2>1
  <2> HIDE DEF d, w
  <2>6. \A i \in DOMAIN patch : patch[i] = w \/ patch[i] = Second
    <3>1. CASE fn.arch = "thumb"
      <4>1. patch = <<w, Second>>
        BY <2>5, <3>1
      <4> QED BY <4>1
    <3>2. CASE fn.arch # "thumb"
      <4>1. patch = <<w>>
        BY <2>5, <3>2
      <4> QED BY <4>1
    <3> QED BY <3>1, <3>2
  <2> QED BY <1>2, <2>3, <2>4, <2>6
<1>5. CASE pc = "hooked" /\ exit = None
  <2>1. patch = AbsoluteJump(fn.start, New)
    BY <1>1, <1>5 DEF Jumps
  <2> DEFINE v == Address(New, FALSE)
             a == fn.start
             to == New
  <2>2. v = Address(to, FALSE) /\ patch = AbsoluteJump(a, to)
    BY <2>1
  <2> HIDE DEF v, a, to
  <2>3. ASSUME fn.arch = "arm64"
        PROVE  \A i \in DOMAIN patch : patch[i].op # "b"
    <3>1. IsSeq(patch) /\ Len(patch) = 4 /\ patch[1] = Ldr("x", 2) /\ patch[2] = Set("br", "pc", "x")
          /\ patch[3] = Data("low", v) /\ patch[4] = Data("high", v)
      BY <2>2, <2>3, JumpWords
    <3>2. DOMAIN patch = 1 .. 4
      BY <3>1 DEF IsSeq
    <3>3. patch[1].op # "b" /\ patch[2].op # "b" /\ patch[3].op # "b" /\ patch[4].op # "b"
      BY <3>1, WordOps
    <3> QED BY <3>2, <3>3
  <2>4. ASSUME fn.arch = "arm"
        PROVE  \A i \in DOMAIN patch : patch[i].op # "b"
    <3>1. IsSeq(patch) /\ Len(patch) = 2 /\ patch[1] = Ldr("pc", -1) /\ patch[2] = Data("whole", v)
      BY <2>2, <2>4, JumpWords32
    <3>2. DOMAIN patch = 1 .. 2
      BY <3>1 DEF IsSeq
    <3>3. patch[1].op # "b" /\ patch[2].op # "b"
      BY <3>1, WordOps
    <3> QED BY <3>2, <3>3
  <2>6. ASSUME fn.arch = "thumb"
        PROVE  \A i \in DOMAIN patch : patch[i].op # "b"
    <3>1. IsSeq(patch) /\ \A i \in 1 .. Len(patch) : patch[i].op # "b"
      BY <2>2, <2>6, JumpWordsThumb
    <3> QED BY <3>1 DEF IsSeq
  <2>5. \A i \in DOMAIN patch : patch[i].op # "b"
    BY <1>1, <2>3, <2>4, <2>6
  <2> QED BY <1>2, <2>5
<1> QED BY <1>3, <1>4, <1>5

LEMMA LengthsFollow == HookInv => LengthsAgree
<1> SUFFICES ASSUME HookInv, NEW i \in DOMAIN starts, i <= n
             PROVE  starts[i] + InstLen(InstAt(i)) = IF i < Len(starts) THEN starts[i + 1] ELSE Len(buf)
  BY DEF LengthsAgree
<1>1. fn \in Functions /\ Layout /\ starts \in Seq(Nat)
  BY DEF HookInv, Layout
<1>2. n \in Nat
  <2>1. CASE backup = 0
    BY <2>1 DEF HookInv
  <2>2. CASE backup # 0
    BY <2>2, HeadSpan DEF HookInv
  <2> QED BY <2>1, <2>2
<1>3. i \in 1 .. Len(starts) /\ i \in 1 .. n
  BY <1>1, <1>2
<1>4. WordsOf(i) # << >> /\ starts[i] + Len(WordsOf(i)) = IF i < Len(starts) THEN starts[i + 1] ELSE Len(buf)
  BY <1>1, <1>3 DEF Layout, Laid
<1>5. Len(WordsOf(i)) = InstLen(InstAt(i))
  BY <1>1, <1>2, <1>3, <1>4, PartWords
<1> QED BY <1>4, <1>5

LEMMA HookingFollows == HookInv => HookingOK
<1> SUFFICES ASSUME HookInv
             PROVE  HookingOK
  OBVIOUS
<1>1. fn \in Functions /\ Layout
  BY DEF HookInv
<1>2. pc \in {"begin", "again", "rewrite", "patch", "hooked", "failed"}
      /\ backup \in {0, WithExit, WithoutExit} /\ exit \in ExitsOf(fn) \cup {None}
  BY <1>1 DEF HookInv
<1>3. n \in 0 .. backup
  <2>1. CASE backup = 0
    BY <1>1, <2>1 DEF HookInv
  <2>2. CASE backup # 0
    <3>1. n \in Nat /\ n >= 1 /\ n <= backup /\ backup \in 1 .. 5
      BY <1>1, <2>2, HeadSpan
    <3> QED BY <3>1
  <2> QED BY <2>1, <2>2
<1>4. Len(buf) * UnitSize <= EnterSize
  BY <1>1, EnterIsLarge
<1>5. Len(starts) <= n + 1 /\ \A i \in DOMAIN starts : starts[i] \in 0 .. Len(buf)
  <2>1. starts \in Seq(Nat) /\ Len(starts) <= n + 1 /\ n \in Nat
    BY <1>1, <1>2, <1>3, BackupLens DEF Layout
  <2>2. DOMAIN starts = 1 .. Len(starts)
    BY <2>1
  <2>3. /\ Len(buf) \in Nat
        /\ \A i \in 1 .. Len(starts) :
             /\ starts[i] \in Nat /\ Len(WordsOf(i)) \in Nat /\ Len(WordsOf(i)) >= 1
             /\ starts[i] + Len(WordsOf(i)) <= Len(buf)
    BY <1>1, <2>1, StartsInOrder
  <2>4. \A i \in 1 .. Len(starts) : starts[i] \in 0 .. Len(buf)
    BY <2>3
  <2> QED BY <2>1, <2>2, <2>4
<1>6. /\ patch # << >> => Len(patch) = backup
      /\ \A i \in DOMAIN patch : patch[i].op = "b" => patch[i].arg \in 0 .. 2 ^ BranchBits - 1
  BY PatchFits
<1>7. LengthsAgree
  BY LengthsFollow
<1> QED BY <1>2, <1>3, <1>4, <1>5, <1>6, <1>7 DEF HookingOK

LEMMA TypeFollows == RewriteInv => TypeOK
<1> SUFFICES ASSUME RewriteInv
             PROVE  TypeOK
  OBVIOUS
<1>1. HookingOK
  BY HookingFollows DEF RewriteInv
<1>2. ip \in 0 .. New /\ thumb \in BOOLEAN /\ flag \in BOOLEAN /\ via \in {"target", "orig"}
      /\ \E r, x, y, lr : regs = Regs(r, x, y, lr)
  BY Somewhere
<1>3. DOMAIN regs = {"r", "x", "y", "lr"}
  BY <1>2 DEF Regs
<1> QED BY <1>1, <1>2, <1>3 DEF TypeOK

LEMMA CodeFollows == RewriteInv => OnlyCodeRuns /\ EntryReachesNew
<1> SUFFICES ASSUME RewriteInv
             PROVE  OnlyCodeRuns /\ EntryReachesNew
  OBVIOUS
<1>1. ip # Crash
  <2>1. ip \in 0 .. New
    BY Somewhere
  <2> QED BY <2>1, RewriteAssumption DEF Crash
<1> QED BY <1>1, Somewhere DEF OnlyCodeRuns, EntryReachesNew

----------------------------------------------------------------------------
(* Until here about any step; now about the behaviours.  First the hooking *)
(* itself, for every function of every instruction set.                    *)

(* HookInv holds: at each step of sh_inst_hook(), and whichever of them    *)
(* fails, the enter holds the rewriting of the instructions that are done, *)
(* one behind the other, and of the head nothing or all is overwritten.    *)
THEOREM HookingInvariant == Spec => []HookInv
<1>1. Init => HookInv
  BY HookInvInit
<1>2. HookInv /\ [Next]_vars => HookInv'
  BY HookInvNext
<1> QED BY <1>1, <1>2, PTL DEF Spec

(* What sh_a64_fix_addr(), sh_a32_fix_addr() and sh_txx_fix_addr() compute *)
(* an address from is right: every instruction, an IT block as well, is    *)
(* rewritten to as many words as it was said to be before.                 *)
THEOREM HookingLengths == Spec => []LengthsAgree
BY HookingInvariant, LengthsFollow, PTL

(* The enter of SH_ENTER_SZ bytes is large enough for what the code writes *)
(* to it, the overwritten words are as many as were backed up, and the     *)
(* distance of the short jump fits its field, in Thumb as elsewhere.       *)
THEOREM HookingSizes == Spec => []HookingOK
BY HookingInvariant, HookingFollows, PTL

(* Now a thread in what was hooked, for every function of arm64 or A32.    *)
(* The execution of a Thumb function stays with TLC.                       *)

(* RewriteInv holds: at each step of sh_inst_hook() the enter holds the    *)
(* rewriting of the instructions that are done, and a thread in it is at a *)
(* word of one of them with the registers that it should have there.       *)
THEOREM RewriteInvariant == Spec /\ fn.arch # "thumb" => []RewriteInv
<1>1. Init /\ fn.arch # "thumb" => RewriteInv
  BY RewriteInvInit
<1>2. RewriteInv /\ [Next]_vars => RewriteInv'
  BY RewriteInvNext
<1> QED BY <1>1, <1>2, PTL DEF Spec

(* The rewritten head does what the head did: a thread that calls the      *)
(* function through its enter sees the same branches, values, calls and    *)
(* returns as before sh_inst_hook().                                       *)
THEOREM RewriteImplements == Spec /\ fn.arch # "thumb" => ImplementsProgram
<1>1. Init /\ fn.arch # "thumb" => RewriteInv /\ ~ Program!InHead
  BY RewriteInvInit
<1>2. RewriteInv /\ [Next]_vars => RewriteInv' /\ [Program!Next]_(Program!programVars)
  BY RewriteInvNext
<1> QED BY <1>1, <1>2, PTL DEF Spec, ImplementsProgram, Program!Spec

(* Types of ShRewrite; with them, that the enter is large enough for what  *)
(* the code writes to it, that the overwritten words are as many as were   *)
(* backed up, and that the distance of the short jump fits its field.      *)
THEOREM RewriteTypeOK == Spec /\ fn.arch # "thumb" => []TypeOK
BY RewriteInvariant, TypeFollows, PTL

(* No thread executes the data that sh_a64_rewrite() and sh_a32_rewrite()  *)
(* put between the instructions, or anything behind the enter.             *)
THEOREM RewriteCodeRuns == Spec /\ fn.arch # "thumb" => []OnlyCodeRuns
BY RewriteInvariant, CodeFollows, PTL

(* Whoever calls the hooked function gets to the proxy, through the exit   *)
(* or by the long jump.                                                    *)
THEOREM RewriteReachesNew == Spec /\ fn.arch # "thumb" => []EntryReachesNew
BY RewriteInvariant, CodeFollows, PTL
===============================================================================
