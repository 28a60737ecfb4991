----------------------------- MODULE HeadProgram -----------------------------
(***************************************************************************)
(* What the first instructions of a function do where the compiler has put *)
(* them: the abstract machine that the rewritten instructions implement.   *)
(* r is the register that they write, x and y are others: no instruction   *)
(* changes them, but a branch of arm64 may destroy x, X17, as it may go    *)
(* through a veneer of the linker.                                         *)
(***************************************************************************)
EXTENDS ShWords

CONSTANTS
  Pointee    (* where all function pointers in memory lead                  *)

VARIABLES
  fn,        (* the function: its instruction set, address, instructions    *)
  n,         (* how many of the instructions are the head                   *)
  at,        (* the address of what is executed next,                       *)
  thumb,     (* in which state of the processor                             *)
  r, lr, x, y

programVars == <<fn, n, at, thumb, r, lr, x, y>>

AddressOf(i) == fn.start + SizeBefore(fn.insts, i)
InHead == at >= fn.start /\ at < AddressOf(n + 1)
Here(a) == Address(a, fn.arch = "thumb")

(* What one instruction at a makes of r and lr, and where it leads; taken: *)
(* its condition holds; of a table, the second entry is taken.             *)
Where(value) == IF value.is = "content" THEN Address(Pointee, FALSE) ELSE value

Goes(s, to)      == [s EXCEPT !.to = to]
Writes(s, v, to) == [Goes(s, to) EXCEPT !.r = v]
Calls(s, to, back) == [Goes(s, to) EXCEPT !.lr = back]

Do(inst, a, taken, s) ==
  LET next   == Here(a + inst.size)
      target == Target(fn.arch, inst, a)
      pc     == PcAt(fn.arch, a)
      content == Content(target.of, inst.len)
      skips  == IF inst.kind \in {"B_COND", "CBZ"} THEN ~ taken ELSE inst.c /\ ~ taken
  IN IF skips THEN Goes(s, next)
     ELSE CASE inst.kind = "IGNORED" -> Writes(s, Computed(inst.imm), next)
            [] inst.kind \in {"B", "B_COND", "CBZ", "BX", "MOV_PC"} -> Goes(s, target)
            [] inst.kind \in {"BL", "BLX"} -> Calls(s, target, next)
            [] inst.kind \in {"ADR", "MOV"} -> Writes(s, target, next)
            [] inst.kind = "ADD" -> Writes(s, Sum(pc), next)
            [] inst.kind \in {"LDR", "VLDR", "LDR_REG"} -> Writes(s, content, next)
            [] inst.kind \in {"LDR_PC", "LDR_REG_PC"} -> Goes(s, Where(content))
            [] inst.kind \in {"TB", "ADD_PC"} -> Goes(s, Here(pc + IF taken THEN 4 ELSE 0))
            [] inst.kind = "PLD" -> Goes(s, next)

(* An IT block: the THEN or the ELSE instructions, of which only the last  *)
(* of the block may branch.                                                *)
DoBlock(block, a, taken, s) ==
  LET last == Len(block.insts)
      after[k \in 0 .. last] ==
        IF k = 0 THEN s
        ELSE IF block.then[k] # taken THEN after[k - 1]
        ELSE Do(block.insts[k], a + 1 + SizeBefore(block.insts, k), FALSE, after[k - 1])
  IN IF block.then[last] = taken THEN after[last]
     ELSE Goes(after[last], Here(a + block.size))

Step ==
  /\ InHead /\ thumb = (fn.arch = "thumb")
  /\ \E i \in 1 .. n, taken \in BOOLEAN :
       /\ at = AddressOf(i)
       /\ LET inst == fn.insts[i]
              s == [r |-> r, lr |-> lr, to |-> Lost]
              after == IF inst.kind = "IT" THEN DoBlock(inst, at, taken, s)
                       ELSE Do(inst, at, taken, s)
          IN /\ at' = after.to.of /\ thumb' = after.to.t
             /\ r' = after.r /\ lr' = after.lr
             /\ ~ (fn.arch = "arm64" /\ inst.kind \in Branches) => x' = x
             /\ y' = y
  /\ UNCHANGED <<fn, n>>

(* Outside of the head, and staying there: whatever the callers and the    *)
(* callees of the function do, but LR is theirs to keep.  Before anybody   *)
(* calls the function the head may be chosen.                              *)
Elsewhere ==
  /\ ~ InHead /\ ~ InHead'
  /\ UNCHANGED <<fn, lr>>

(* What the head called returns.                                           *)
Return ==
  /\ ~ InHead /\ lr.is = "address"
  /\ at' = lr.of /\ thumb' = lr.t
  /\ lr' = Own
  /\ UNCHANGED <<fn, n, r>>

Call ==
  /\ ~ InHead /\ lr = Own
  /\ at' = fn.start /\ thumb' = (fn.arch = "thumb")
  /\ UNCHANGED <<fn, n, r, lr>>

Next == Step \/ Elsewhere \/ Return \/ Call

Spec == ~ InHead /\ [][Next]_programVars
===============================================================================
