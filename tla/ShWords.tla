------------------------------- MODULE ShWords -------------------------------
(***************************************************************************)
(* The instructions that the head of a function consists of, and the words *)
(* they are rewritten to.  An address counts the units an instruction set  *)
(* is written in: 4 bytes on arm64 and in A32, 2 bytes in Thumb.  Of what  *)
(* an instruction says only that matters that depends on where it is.      *)
(***************************************************************************)
EXTENDS Integers, Sequences

(* What a register holds: an address (t: of Thumb code), the contents of   *)
(* memory, something computed from an address or from registers alone, the *)
(* value it had before, or nothing that is known.                          *)
Value(is, of, len, t) == [is |-> is, of |-> of, len |-> len, t |-> t]
Address(a, t)         == Value("address", a, 0, t)
Content(a, len)       == Value("content", a, len, FALSE)
Sum(a)                == Value("sum", a, 0, FALSE)
Computed(what)        == Value("computed", what, 0, FALSE)
Own                   == Value("own", 0, 0, FALSE)
Lost                  == Value("lost", 0, 0, FALSE)

(* An instruction of a function: its size in units; whether it is executed *)
(* on a condition only; the distance it refers to, from where the          *)
(* processor sees its PC; how much it loads from there.                    *)
Inst(kind, size, c, imm, len) ==
  [kind |-> kind, size |-> size, c |-> c, imm |-> imm, len |-> len]

(* The instructions of these kinds and sizes, conditional or not.          *)
InstsOf(kinds, sizes, conditions) ==
  [kind : kinds, size : sizes, c : conditions, imm : Int, len : Nat]

(* An IT block of Thumb: instructions and for each whether it belongs to   *)
(* the THEN or the ELSE part.  It counts as one instruction.               *)
SizeBefore(insts, i) ==
  LET sum[k \in 0 .. i - 1] == IF k = 0 THEN 0 ELSE sum[k - 1] + insts[k].size
  IN sum[i - 1]

ITBlock(insts, then) ==
  [kind |-> "IT", size |-> 1 + SizeBefore(insts, Len(insts) + 1), insts |-> insts, then |-> then]

(* What PC reads as in the instruction at a; loads and ADR of Thumb round  *)
(* it down to a word.                                                      *)
PcAt(arch, a) == IF arch = "arm64" THEN a ELSE a + 2
BaseAt(arch, a) ==
  IF arch = "thumb" THEN PcAt(arch, a) - (PcAt(arch, a) % 2) ELSE PcAt(arch, a)

(* The kinds that go somewhere else, and those that refer to a whole word. *)
Branches == {"B", "B_COND", "BL", "BLX", "BX", "CBZ", "TB", "ADD_PC", "LDR_PC", "LDR_REG_PC"}
Rounded  == {"ADR", "LDR", "LDR_PC", "PLD", "VLDR", "BLX"}

(* The address that the instruction at a refers to, as a branch or as data.*)
Target(arch, inst, a) ==
  LET to == (IF inst.kind \in Rounded THEN BaseAt(arch, a) ELSE PcAt(arch, a)) + inst.imm
  IN CASE inst.kind \in {"B", "B_COND", "BL", "CBZ"} -> Address(to, arch = "thumb")
       [] inst.kind = "BLX" -> Address(to, arch # "thumb")
       [] OTHER -> Address(to, FALSE)

----------------------------------------------------------------------------
(* Words of machine code: the operation, the register it writes and the    *)
(* one it reads, a distance in units or a length, the condition; or a part *)
(* of an address that is stored between the instructions.                  *)
Word(op, to, from, arg, c) ==
  [op |-> op, to |-> to, from |-> from, arg |-> arg, c |-> c, v |-> Lost]

B(imm)           == Word("b", "pc", "-", imm, FALSE)
BIf(c, imm)      == Word("b", "pc", "-", imm, c)
Ldr(to, imm)     == Word("ldr", to, "pc", imm, FALSE)
LdrIf(c, to, imm) == Word("ldr", to, "pc", imm, c)
Link(c, imm)     == Word("link", "lr", "pc", imm, c)
Load(to, from, len) == Word("load", to, from, len, FALSE)
Set(op, to, from) == Word(op, to, from, 0, FALSE)
Push(regs)       == Word("push", "-", regs, 0, FALSE)
Pop(regs)        == Word("pop", regs, "-", 0, FALSE)
Store(from)      == Word("store", "-", from, 0, FALSE)   (* where Pop finds PC *)
Plain(inst)      == Word("plain", "r", "-", inst.imm, inst.c)
Nop              == Word("nop", "-", "-", 0, FALSE)
Second           == Word("second", "-", "-", 0, FALSE)   (* half of a wide one *)
Wide(w)          == <<w, Second>>

Data(op, value)  == [Word(op, "-", "-", 0, FALSE) EXCEPT !.v = value]
Halves(value)    == <<Data("low", value), Data("high", value)>>
Whole(value)     == <<Data("whole", value)>>

(* The kinds of words that are not executed.                               *)
DataWords == {"second", "low", "high", "whole"}
===============================================================================
