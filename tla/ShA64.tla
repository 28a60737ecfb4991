-------------------------------- MODULE ShA64 --------------------------------
(***************************************************************************)
(* The rewriting of arm64 instructions (arch/arm64/sh_a64.c).  x is X17.   *)
(* to is the address that is referred to, where it lies now; inHead tells  *)
(* that it was in the head.  An empty sequence: it cannot be done.         *)
(***************************************************************************)
EXTENDS ShWords

(* What sh_a64_get_type() tells apart; of kinds that are rewritten alike,  *)
(* one.                                                                    *)
Insts ==
  InstsOf({"IGNORED", "B", "B_COND", "BL", "ADR", "LDR", "PLD", "VLDR", "CBZ"}, {1}, {FALSE})

(* sh_a64_get_rewrite_inst_len()                                           *)
InstLen(inst) ==
  CASE inst.kind = "IGNORED" -> 1
    [] inst.kind = "ADR" -> 4
    [] inst.kind \in {"B", "BL", "LDR"} -> 5
    [] inst.kind = "CBZ" -> 6
    [] inst.kind \in {"B_COND", "PLD", "VLDR"} -> 7

(* Mutant: a conditional branch that is not taken goes on too early.       *)
RewriteBShort(inst, to) ==
  (IF inst.kind = "B_COND" THEN <<BIf(TRUE, 2), B(5)>> ELSE << >>)
  \o <<Ldr("x", 2), B(3)>> \o Halves(to)
  \o <<Set(IF inst.kind = "BL" THEN "blr" ELSE "br", "pc", "x")>>

(* sh_a64_rewrite_b()                                                      *)
RewriteB(inst, to) ==
  (IF inst.kind = "B_COND" THEN <<BIf(TRUE, 2), B(6)>> ELSE << >>)
  \o <<Ldr("x", 2), B(3)>> \o Halves(to)
  \o <<Set(IF inst.kind = "BL" THEN "blr" ELSE "br", "pc", "x")>>

(* sh_a64_rewrite_adr()                                                    *)
RewriteAdr(to, inHead) ==
  IF inHead THEN << >> ELSE <<Ldr("r", 2), B(3)>> \o Halves(to)

(* sh_a64_rewrite_ldr(): a prefetch may refer to the head.                 *)
RewriteLdr(inst, to, inHead) ==
  IF inHead /\ inst.kind # "PLD" THEN << >>
  ELSE IF inst.kind = "LDR"
  THEN <<Ldr("r", 3), Load("r", "r", inst.len), B(3)>> \o Halves(to)
  ELSE <<Push("x"), Ldr("x", 4),
         IF inst.kind = "PLD" THEN Nop ELSE Load("r", "x", inst.len),
         Pop("x"), B(3)>> \o Halves(to)

(* sh_a64_rewrite_cb(), and sh_a64_rewrite_tb(), which writes the same.    *)
RewriteCb(to) == <<BIf(TRUE, 2), B(5), Ldr("x", 2), Set("br", "pc", "x")>> \o Halves(to)

(* sh_a64_rewrite()                                                        *)
Rewrite(inst, to, inHead) ==
  CASE inst.kind \in {"B", "B_COND", "BL"} -> RewriteB(inst, to)
    [] inst.kind = "ADR" -> RewriteAdr(to, inHead)
    [] inst.kind \in {"LDR", "PLD", "VLDR"} -> RewriteLdr(inst, to, inHead)
    [] inst.kind = "CBZ" -> RewriteCb(to)
    [] inst.kind = "IGNORED" -> <<Plain(inst)>>

(* sh_a64_absolute_jump_with_br() and sh_a64_absolute_jump_with_ret()      *)
AbsoluteJump(a) == <<Ldr("x", 2), Set("br", "pc", "x")>> \o Halves(Address(a, FALSE))
===============================================================================
