------------------------------- MODULE ShThumb -------------------------------
(***************************************************************************)
(* The rewriting of Thumb instructions (arch/arm/sh_t16.c, sh_t32.c, and   *)
(* the IT blocks of arch/arm/sh_inst.c).  Whatever is written has a whole  *)
(* number of words, so that the addresses in it are aligned.               *)
(***************************************************************************)
EXTENDS ShWords

(* What sh_t16_get_type() and sh_t32_get_type() tell apart; in an IT block *)
(* there are one to four instructions, of which only the last may branch,  *)
(* and none that has a condition of its own or is a table branch.          *)
Insts16 ==
  InstsOf({"IGNORED", "B", "B_COND", "BX", "ADD", "MOV", "ADR", "LDR", "CBZ"}, {1}, {FALSE})
Insts32 ==
  InstsOf({"IGNORED", "B", "B_COND", "BL", "BLX", "ADR", "LDR", "LDR_PC", "PLD", "TB", "VLDR"},
          {2}, {FALSE})

IsBlock(block) ==
  LET last == Len(block.insts)
  IN /\ last \in 1 .. 4 /\ Len(block.then) = last
     /\ block.size = 1 + SizeBefore(block.insts, last + 1)
     /\ \A k \in 1 .. last : /\ block.insts[k].kind \notin {"B_COND", "CBZ", "TB"}
                            /\ k < last => block.insts[k].kind \notin Branches

Insts ==
  Insts16 \cup Insts32
  \cup {block \in [kind : {"IT"}, size : 2 .. 9, insts : Seq(Insts16 \cup Insts32), then : Seq(BOOLEAN)] :
          IsBlock(block)}

(* sh_t16_get_rewrite_inst_len()                                           *)
InstLen16(inst) ==
  CASE inst.kind = "IGNORED" -> 2
    [] inst.kind \in {"B", "BX", "ADR"} -> 4
    [] inst.kind \in {"B_COND", "MOV", "LDR", "CBZ"} -> 6
    [] inst.kind = "ADD" -> 8

(* sh_t32_get_rewrite_inst_len()                                           *)
InstLen32(inst) ==
  CASE inst.kind = "IGNORED" -> 2
    [] inst.kind = "B" -> 4
    [] inst.kind \in {"B_COND", "BL", "BLX", "ADR"} -> 6
    [] inst.kind = "LDR" -> 8
    [] inst.kind = "PLD" -> 10
    [] inst.kind \in {"LDR_PC", "VLDR"} -> 12
    [] inst.kind = "TB" -> 16

InstLenOne(inst) == IF inst.size = 1 THEN InstLen16(inst) ELSE InstLen32(inst)

(* sh_inst_get_thumb_rewrite_info(): an IT block has two jumps more.       *)
InstLen(inst) ==
  IF inst.kind # "IT" THEN InstLenOne(inst)
  ELSE LET sum[k \in 0 .. Len(inst.insts)] ==
             IF k = 0 THEN 4 ELSE sum[k - 1] + InstLenOne(inst.insts[k])
       IN sum[Len(inst.insts)]

JumpTo(value) == Wide(Ldr("pc", 0)) \o Halves(value)

(* sh_t16_rewrite_b()                                                      *)
RewriteB16(inst, to) ==
  (IF inst.kind = "B_COND" THEN <<BIf(TRUE, 0), B(3)>> ELSE << >>) \o JumpTo(to)

(* sh_t16_rewrite_cb()                                                     *)
RewriteCb(to) == <<BIf(TRUE, 0), B(3)>> \o JumpTo(to)

(* sh_t32_rewrite_b()                                                      *)
RewriteB32(inst, to) ==
  (CASE inst.kind = "B_COND" -> <<BIf(TRUE, 0), B(3)>>
     [] inst.kind \in {"BL", "BLX"} -> Wide(Link(FALSE, 4))
     [] inst.kind = "B" -> << >>)
  \o JumpTo(to)

(* sh_t16_rewrite_add()                                                    *)
RewriteAdd(pc) ==
  <<Push("x"), Ldr("x", 4), Set("sum", "r", "x"), Pop("x"), B(2), Nop>> \o Halves(pc)

(* sh_t16_rewrite_mov()                                                    *)
RewriteMov(pc) == Wide(Ldr("r", 2)) \o <<B(2), Nop>> \o Halves(pc)

(* sh_t16_rewrite_adr(), and sh_t16_rewrite_ldr(), which begins like it    *)
RewriteAdr16(to) == <<Ldr("r", 0), B(1)>> \o Halves(to)
RewriteLdr16(inst, to) == RewriteAdr16(to) \o <<Load("r", "r", inst.len), Nop>>

(* sh_t32_rewrite_adr()                                                    *)
RewriteAdr32(to) == Wide(Ldr("r", 2)) \o <<B(2), Nop>> \o Halves(to)

(* sh_t32_rewrite_ldr()                                                    *)
RewriteLdr32(inst, to) ==
  IF inst.kind = "LDR_PC"
  THEN <<Push("x"), Nop>> \o Wide(Ldr("x", 2)) \o <<B(2), Nop>> \o Halves(to)
       \o Wide(Load("x", "x", inst.len)) \o <<Store("x"), Pop("xpc")>>
  ELSE RewriteAdr32(to) \o Wide(Load("r", "r", inst.len))

(* sh_t32_rewrite_pl()                                                     *)
RewritePl(to) ==
  <<Push("x"), Nop>> \o Wide(Ldr("x", 4)) \o Wide(Nop) \o <<Pop("x"), B(1)>> \o Halves(to)

(* sh_t32_rewrite_tb()                                                     *)
RewriteTb(pc) ==
  <<Push("xy"), Nop>> \o Wide(Ldr("x", 10)) \o Wide(Nop) \o <<Nop, Nop>>
  \o Wide(Set("index", "x", "x")) \o <<Set("thumb", "x", "x"), Store("x"), Pop("xypc"), Nop>>
  \o Halves(pc)

(* sh_t32_rewrite_vldr()                                                   *)
RewriteVldr(inst, to) ==
  <<Push("x"), Nop>> \o Wide(Ldr("x", 2)) \o <<B(2), Nop>> \o Halves(to)
  \o Wide(Load("r", "x", inst.len)) \o <<Pop("x"), Nop>>

(* sh_t16_rewrite()                                                        *)
Rewrite16(inst, to, inHead, pc) ==
  CASE inst.kind \in {"B", "B_COND", "BX"} -> RewriteB16(inst, to)
    [] inst.kind = "CBZ" -> RewriteCb(to)
    [] inst.kind = "ADD" -> RewriteAdd(pc)
    [] inst.kind = "MOV" -> RewriteMov(pc)
    [] inst.kind = "ADR" -> IF inHead THEN << >> ELSE RewriteAdr16(to)
    [] inst.kind = "LDR" -> IF inHead THEN << >> ELSE RewriteLdr16(inst, to)
    [] inst.kind = "IGNORED" -> <<Plain(inst), Nop>>

(* sh_t32_rewrite(); a table branch must be the last instruction.          *)
Rewrite32(inst, to, inHead, pc, last) ==
  CASE inst.kind \in {"B", "B_COND", "BL", "BLX"} -> RewriteB32(inst, to)
    [] inst.kind = "ADR" -> IF inHead THEN << >> ELSE RewriteAdr32(to)
    [] inst.kind \in {"LDR", "LDR_PC"} -> IF inHead THEN << >> ELSE RewriteLdr32(inst, to)
    [] inst.kind = "PLD" -> RewritePl(to)
    [] inst.kind = "TB" -> IF last THEN RewriteTb(pc) ELSE << >>
    [] inst.kind = "VLDR" -> IF inHead THEN << >> ELSE RewriteVldr(inst, to)
    [] inst.kind = "IGNORED" -> Wide(Plain(inst))

Rewrite(inst, to, inHead, pc, last) ==
  IF inst.size = 1 THEN Rewrite16(inst, to, inHead, pc) ELSE Rewrite32(inst, to, inHead, pc, last)

(* The IT block: a jump to the THEN part, the ELSE part and a jump over    *)
(* the THEN part, the THEN part (sh_inst_hook_thumb_rewrite() and          *)
(* sh_t16_rewrite_it_else() and _then()).  parts is what the instructions  *)
(* are rewritten to, in their order.                                       *)
Joined(parts, then, on) ==
  LET join[k \in 0 .. Len(parts)] ==
        IF k = 0 THEN << >> ELSE join[k - 1] \o (IF then[k] = on THEN parts[k] ELSE << >>)
  IN join[Len(parts)]

RewriteIt(parts, then) ==
  LET else == Joined(parts, then, FALSE)
      thn  == Joined(parts, then, TRUE)
  IN <<BIf(TRUE, 2 + Len(else)), Nop>> \o else \o <<B(Len(thn)), Nop>> \o thn

(* sh_t32_absolute_jump(): at an odd halfword, behind a NOP.               *)
AbsoluteJump(aligned, value) ==
  (IF aligned THEN << >> ELSE <<Nop>>) \o Wide(Ldr("pc", 0)) \o Halves(value)
===============================================================================
