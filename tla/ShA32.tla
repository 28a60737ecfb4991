-------------------------------- MODULE ShA32 --------------------------------
(***************************************************************************)
(* The rewriting of A32 instructions (arch/arm/sh_a32.c), all of which may *)
(* be conditional.  x and y are registers the instruction does not use;    *)
(* what PC is there is in pc.                                              *)
(***************************************************************************)
EXTENDS ShWords

(* What sh_a32_get_type() tells apart                                      *)
Insts ==
  InstsOf({"IGNORED", "B", "BX", "BL", "BLX", "ADD", "ADD_PC", "ADR", "MOV", "MOV_PC", "LDR", "LDR_PC",
           "LDR_REG", "LDR_REG_PC"}, {1}, BOOLEAN)

(* sh_a32_get_rewrite_inst_len()                                           *)
InstLen(inst) ==
  CASE inst.kind = "IGNORED" -> 1
    [] inst.kind \in {"B", "BX", "ADR", "MOV_PC"} -> 3
    [] inst.kind \in {"BL", "BLX"} -> 4
    [] inst.kind = "LDR" -> 6
    [] inst.kind \in {"ADD", "ADD_PC", "MOV", "LDR_REG"} -> 8
    [] inst.kind \in {"LDR_PC", "LDR_REG_PC"} -> 9

(* sh_a32_rewrite_b()                                                      *)
RewriteB(inst, to) ==
  (IF inst.kind \in {"BL", "BLX"} THEN <<Link(inst.c, 2)>> ELSE << >>)
  \o <<LdrIf(inst.c, "pc", 0), B(0)>> \o Whole(to)

(* sh_a32_rewrite_add_or_sub()                                             *)
RewriteAdd(inst, pc) ==
  IF inst.kind = "ADD_PC"
  THEN <<BIf(inst.c, 0), B(5), Push("xy"), Ldr("x", 2), Set("index", "y", "x"), Store("y"),
         Pop("xypc")>> \o Whole(pc)
  ELSE <<BIf(inst.c, 0), B(5), Push("x"), Ldr("x", 2), Set("sum", "r", "x"), Pop("x"), B(0)>>
       \o Whole(pc)

(* sh_a32_rewrite_mov()                                                    *)
RewriteMov(inst, pc) ==
  IF inst.kind = "MOV_PC"
  THEN <<LdrIf(inst.c, "pc", 0), B(0)>> \o Whole(pc)
  ELSE <<BIf(inst.c, 0), B(5), Push("x"), Ldr("x", 2), Set("move", "r", "x"), Pop("x"), B(0)>>
       \o Whole(pc)

(* sh_a32_rewrite_adr()                                                    *)
RewriteAdr(inst, to, inHead) ==
  IF inHead THEN << >> ELSE <<LdrIf(inst.c, "r", 0), B(0)>> \o Whole(to)

(* sh_a32_rewrite_ldr_lit()                                                *)
RewriteLdrLit(inst, to, inHead) ==
  IF inHead THEN << >>
  ELSE IF inst.kind = "LDR_PC"
  THEN <<BIf(inst.c, 0), B(6), Push("x"), Ldr("x", 0), B(0)>> \o Whole(to)
       \o <<Load("x", "x", inst.len), Store("x"), Pop("xpc")>>
  ELSE <<BIf(inst.c, 0), B(3), Ldr("r", 0), B(0)>> \o Whole(to) \o <<Load("r", "r", inst.len)>>

(* sh_a32_rewrite_ldr_reg(): the address is PC and a register.             *)
RewriteLdrReg(inst, pc) ==
  IF inst.kind = "LDR_REG_PC"
  THEN <<BIf(inst.c, 0), B(6), Push("xy"), Ldr("x", 0), B(0)>> \o Whole(pc)
       \o <<Load("y", "x", inst.len), Store("y"), Pop("xypc")>>
  ELSE <<BIf(inst.c, 0), B(5), Push("x"), Ldr("x", 0), B(0)>> \o Whole(pc)
       \o <<Load("r", "x", inst.len), Pop("x")>>

(* sh_a32_rewrite()                                                        *)
Rewrite(inst, to, inHead, pc) ==
  CASE inst.kind \in {"B", "BX", "BL", "BLX"} -> RewriteB(inst, to)
    [] inst.kind \in {"ADD", "ADD_PC"} -> RewriteAdd(inst, pc)
    [] inst.kind \in {"MOV", "MOV_PC"} -> RewriteMov(inst, pc)
    [] inst.kind = "ADR" -> RewriteAdr(inst, to, inHead)
    [] inst.kind \in {"LDR", "LDR_PC"} -> RewriteLdrLit(inst, to, inHead)
    [] inst.kind \in {"LDR_REG", "LDR_REG_PC"} -> RewriteLdrReg(inst, pc)
    [] inst.kind = "IGNORED" -> <<Plain(inst)>>

(* sh_a32_absolute_jump()                                                  *)
AbsoluteJump(a) == <<Ldr("pc", -1)>> \o Whole(Address(a, FALSE))
===============================================================================
