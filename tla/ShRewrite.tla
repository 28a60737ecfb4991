------------------------------ MODULE ShRewrite ------------------------------
(***************************************************************************)
(* Hooking one function (arch/arm64/sh_inst.c, arch/arm/sh_inst.c): its    *)
(* head is overwritten with a jump, and rewritten so that it does the same *)
(* in an enter, another piece of memory far away.  The module builds the   *)
(* enter and then executes it, word by word, so that a jump by a wrong     *)
(* distance, into the addresses between the instructions, or to an         *)
(* instruction that is no longer there, shows.                             *)
(***************************************************************************)
EXTENDS ShWords

CONSTANTS
  Functions,    (* the functions: arch, start, insts                        *)
  Enter, New,   (* addresses of the enter and of the proxy                  *)
  Caller, Pointee,  (* where callers are, and function pointers lead        *)
  EnterSize,    (* SH_ENTER_SZ, in bytes                                    *)
  BranchBits,   (* the width of the distance of a short jump                *)
  RangeLow, RangeHigh   (* SH_INST_A64_B_RANGE_LOW and _HIGH, and the others*)

None == 0

A64   == INSTANCE ShA64
A32   == INSTANCE ShA32
Thumb == INSTANCE ShThumb

(* The functions that are hooked: what the decoders know of an instruction, *)
(* and what compilers guarantee.                                           *)
Insts(arch) ==
  CASE arch = "arm64" -> A64!Insts
    [] arch = "arm"   -> A32!Insts
    [] arch = "thumb" -> Thumb!Insts

Place(f, i) == f.start + SizeBefore(f.insts, i)
End(f)      == Place(f, Len(f.insts) + 1)

(* A function that ends in front of a word, in Thumb, is followed by two   *)
(* bytes of padding that may be overwritten as well.                       *)
PaddedEnd(f) == IF f.arch = "thumb" /\ End(f) % 2 = 1 THEN End(f) + 1 ELSE End(f)

(* The outermost exits of the range that sh_exit_alloc() is given; an exit *)
(* is aligned to 8 bytes, on arm64 to 16.                                  *)
ExitLen(arch) == IF arch = "arm" THEN 2 ELSE 4
ExitsIn(arch, first, last) ==
  {a \in first .. last :
     a % ExitLen(arch) = 0 /\ (a - ExitLen(arch) < first \/ a + ExitLen(arch) > last)}

(* Mutant: the range is as wide upwards as it is downwards.                *)
ExitsOfWide(f) ==
  ExitsIn(f.arch, PcAt(f.arch, f.start) - RangeLow, PcAt(f.arch, f.start) + RangeLow)

ExitsOf(f) ==
  ExitsIn(f.arch, PcAt(f.arch, f.start) - RangeLow, PcAt(f.arch, f.start) + RangeHigh)

(* Exits lie in gaps, where nothing is that a function refers to.          *)
IsGap(f, first, last) == \A a \in ExitsOf(f) : last < a \/ first >= a + ExitLen(f.arch)

(* A branch leads to an instruction if it leads into the function, and     *)
(* switches to the other instruction set only if it leads out of it.       *)
IsGoal(f, to) ==
  /\ to.of \in 0 .. Caller - 1 /\ IsGap(f, to.of, to.of)
  /\ to.of \in f.start .. PaddedEnd(f) - 1 =>
       /\ to.t = (f.arch = "thumb")
       /\ \E i \in 1 .. Len(f.insts) + 1 : to.of = Place(f, i)

(* What an instruction at a may refer to.  A literal that is loaded does   *)
(* not begin in front of the function and end in it.                       *)
RefersWell(f, inst, a) ==
  LET to == Target(f.arch, inst, a)
  IN /\ inst.kind \in {"B", "B_COND", "BL", "BLX", "BX", "CBZ"} => IsGoal(f, to)
     /\ inst.kind \in {"LDR", "VLDR", "LDR_PC"} => to.of >= f.start \/ to.of + inst.len <= f.start
     /\ inst.kind \in {"ADD", "ADD_PC", "MOV", "MOV_PC", "BX", "LDR_REG", "LDR_REG_PC", "TB"} => inst.imm = 0

IsFunction(f) ==
  /\ f \in [arch : {"arm64", "arm", "thumb"}, start : Nat, insts : Seq(Insts(f.arch))]
  /\ f.insts # << >>
  /\ \A i \in DOMAIN f.insts :
       LET inst == f.insts[i]
       IN IF inst.kind # "IT" THEN RefersWell(f, inst, Place(f, i))
          ELSE \A k \in DOMAIN inst.insts :
                 RefersWell(f, inst.insts[k], Place(f, i) + 1 + SizeBefore(inst.insts, k))
  /\ f.start > RangeLow /\ End(f) + 8 < Caller /\ f.start + 6 + RangeHigh < Caller
  /\ IsGap(f, f.start, End(f) + 8)

(* What follows the enter and the range of a short jump must be within its *)
(* field; the longest enter is that of a Thumb function: 13 halfwords that *)
(* become 8 each, and a jump.                                              *)
ASSUME RewriteAssumption ==
  /\ \A f \in Functions : IsFunction(f)
  /\ {Caller, Pointee, Enter, New, EnterSize, RangeLow, RangeHigh} \subseteq Nat
  /\ Caller < Pointee /\ Pointee < Enter /\ Enter + EnterSize < New
  /\ Enter % 2 = 0 /\ EnterSize >= 216
  /\ BranchBits \in Nat /\ 2 ^ (BranchBits - 1) \in Nat
  /\ 2 ^ BranchBits = 2 * 2 ^ (BranchBits - 1)
  /\ 2 ^ (BranchBits - 1) >= 64
  /\ RangeLow <= 2 ^ (BranchBits - 1) /\ RangeHigh < 2 ^ (BranchBits - 1)

VARIABLES
  fn,        (* the function                                                *)
  pc,        (* how far the hooking is                                      *)
  backup,    (* backup_len                                                  *)
  n,         (* the instructions that have that length, or more             *)
  exit,      (* exit_addr                                                   *)
  buf,       (* the words of the enter that are written                     *)
  starts,    (* where the rewritten instructions begin in them              *)
  patch,     (* the words that overwrite the head                           *)
  ip, thumb, (* a thread: its PC, the state of the processor,               *)
  regs,      (* its registers, what it has pushed,                          *)
  stack,
  flag,      (* whether the condition of the next instruction holds,        *)
  via,       (* and whether it called the function or its "orig"            *)
  view       (* history: what it looks like between two instructions of the *)
             (* original function                                           *)

hookVars == <<fn, pc, backup, n, exit, buf, starts, patch>>
cpuVars  == <<ip, thumb, regs, stack, flag, via>>
vars     == <<hookVars, cpuVars, view>>

----------------------------------------------------------------------------
(* The head.                                                               *)
Padding == Inst("IGNORED", 1, FALSE, 0, 0)
InstAt(i) == IF i <= Len(fn.insts) THEN fn.insts[i] ELSE Padding

UnitSize == IF fn.arch = "thumb" THEN 2 ELSE 4

IsLongEnough(len) == fn.start + len <= PaddedEnd(fn)

InstLen(inst) ==
  CASE fn.arch = "arm64" -> A64!InstLen(inst)
    [] fn.arch = "arm"   -> A32!InstLen(inst)
    [] fn.arch = "thumb" -> Thumb!InstLen(inst)

AddressOf(i) ==
  LET sum[k \in 0 .. i - 1] == IF k = 0 THEN fn.start ELSE sum[k - 1] + InstAt(k).size
  IN sum[i - 1]

(* The instructions a backup of this length touches.                       *)
HeadOf(len) == CHOOSE i \in 1 .. len : AddressOf(i) < fn.start + len /\ AddressOf(i + 1) >= fn.start + len

(* sh_a64_is_addr_need_fix(), sh_a32_..., sh_txx_...                       *)
InHead(a) == a >= fn.start /\ a < AddressOf(n + 1)

(* sh_a64_fix_addr(), sh_a32_..., sh_txx_...: the place of an instruction  *)
(* of the head in the enter, from the lengths of those before it.          *)

(* Mutant: the lengths of the instructions up to and with it.              *)
FixAddrLate(value) ==
  LET offset[k \in 0 .. n] ==
        IF k = 0 THEN 0
        ELSE offset[k - 1] + IF AddressOf(k) <= value.of THEN InstLen(InstAt(k)) ELSE 0
  IN IF InHead(value.of) THEN [value EXCEPT !.of = Enter + offset[n]] ELSE value

FixAddr(value) ==
  LET offset[k \in 0 .. n] ==
        IF k = 0 THEN 0
        ELSE offset[k - 1] + IF AddressOf(k) < value.of THEN InstLen(InstAt(k)) ELSE 0
  IN IF InHead(value.of) THEN [value EXCEPT !.of = Enter + offset[n]] ELSE value

RewriteOne(inst, a) ==
  LET target == Target(fn.arch, inst, a)
      to     == FixAddr(target)
      inHead == InHead(target.of)
      pcThere == Address(PcAt(fn.arch, a), FALSE)
  IN CASE fn.arch = "arm64" -> A64!Rewrite(inst, to, inHead)
       [] fn.arch = "arm"   -> A32!Rewrite(inst, to, inHead, pcThere)
       [] fn.arch = "thumb" ->
            Thumb!Rewrite(inst, to, inHead, pcThere, a + inst.size = AddressOf(n + 1))

Rewrite(inst, a) ==
  IF inst.kind # "IT" THEN RewriteOne(inst, a)
  ELSE LET parts == [k \in DOMAIN inst.insts |->
                       RewriteOne(inst.insts[k], a + 1 + SizeBefore(inst.insts, k))]
       IN IF \E k \in DOMAIN parts : parts[k] = << >> THEN << >>
          ELSE Thumb!RewriteIt(parts, inst.then)

AbsoluteJump(a, to) ==
  CASE fn.arch = "arm64" -> A64!AbsoluteJump(to)
    [] fn.arch = "arm"   -> A32!AbsoluteJump(to)
    [] fn.arch = "thumb" -> Thumb!AbsoluteJump(a % 2 = 0, Address(to, TRUE))

(* Mutant: the distance is not cut to its width.                           *)
RelativeJumpLong(a) == <<B(a - PcAt(fn.arch, fn.start))>> \o (IF fn.arch = "thumb" THEN <<Second>> ELSE << >>)

(* sh_a64_relative_jump(), sh_a32_..., sh_t32_...: the distance is cut to  *)
(* the width of its field.                                                 *)
RelativeJump(a) ==
  LET jump == B((a - PcAt(fn.arch, fn.start)) % 2 ^ BranchBits)
  IN IF fn.arch = "thumb" THEN Wide(jump) ELSE <<jump>>

SignExtend(imm) == IF imm >= 2 ^ (BranchBits - 1) THEN imm - 2 ^ BranchBits ELSE imm

----------------------------------------------------------------------------
(* sh_inst_hook(): with an exit first; if anything fails, without one, for *)
(* more instructions, in the same enter.                                   *)
Begin(len) ==
  /\ backup' = len
  /\ n' = HeadOf(len)
  /\ buf' = << >>
  /\ starts' = << >>
  /\ pc' = "rewrite"

WithExit    == IF fn.arch = "thumb" THEN 2 ELSE 1
WithoutExit == CASE fn.arch = "arm64" -> 4
                 [] fn.arch = "arm"   -> 2
                 [] fn.arch = "thumb" -> IF fn.start % 2 = 0 THEN 4 ELSE 5

HookWithExit ==
  /\ pc = "begin"
  /\ IsLongEnough(WithExit)
  /\ exit' \in ExitsOf(fn)
  /\ Begin(WithExit)
  /\ UNCHANGED <<fn, patch, cpuVars, view>>

HookWithoutExit ==
  /\ pc \in {"begin", "again"}
  /\ exit' = None
  /\ IF IsLongEnough(WithoutExit)
     THEN Begin(WithoutExit)
     ELSE pc' = "failed" /\ UNCHANGED <<backup, n, buf, starts>>
  /\ UNCHANGED <<fn, patch, cpuVars, view>>

(* sh_inst_hook_rewrite(), sh_inst_hook_thumb_rewrite() and                *)
(* sh_inst_hook_arm_rewrite(), one instruction at a time.                  *)
Failed == pc' = IF exit # None THEN "again" ELSE "failed"

RewriteInst ==
  /\ pc = "rewrite" /\ Len(starts) < n
  /\ LET i     == Len(starts) + 1
         words == Rewrite(InstAt(i), AddressOf(i))
     IN IF words = << >>
        THEN Failed /\ UNCHANGED <<buf, starts>>
        ELSE /\ buf' = buf \o words
             /\ starts' = Append(starts, Len(buf))
             /\ UNCHANGED pc
  /\ UNCHANGED <<fn, backup, n, exit, patch, cpuVars, view>>

JumpBack ==
  /\ pc = "rewrite" /\ Len(starts) = n
  /\ buf' = buf \o AbsoluteJump(0, AddressOf(n + 1))
  /\ starts' = Append(starts, Len(buf))
  /\ pc' = "patch"
  /\ UNCHANGED <<fn, backup, n, exit, patch, cpuVars, view>>

Patch ==
  /\ pc = "patch"
  /\ patch' = IF exit # None THEN RelativeJump(exit) ELSE AbsoluteJump(fn.start, New)
  /\ pc' = "hooked"
  /\ UNCHANGED <<fn, backup, n, exit, buf, starts, cpuVars, view>>

(* An mprotect() fails, or a signal is caught.                             *)
GiveUp ==
  /\ pc \in {"rewrite", "patch"}
  /\ Failed
  /\ UNCHANGED <<fn, backup, n, exit, buf, starts, patch, cpuVars, view>>

----------------------------------------------------------------------------
(* A thread in the head, in the exit or in the enter.                      *)
In(a, first, words) == a >= first /\ a < first + Len(words)

ExitWords == IF exit = None THEN << >> ELSE AbsoluteJump(0, New)

Nothing == Word("none", "-", "-", 0, FALSE)

Fetch(a) ==
  CASE In(a, fn.start, patch)   -> patch[a - fn.start + 1]
    [] In(a, Enter, buf)        -> buf[a - Enter + 1]
    [] In(a, exit, ExitWords)   -> ExitWords[a - exit + 1]
    [] OTHER                    -> Nothing

Running == Fetch(ip).op # "none"

(* What is loaded from between the instructions.                           *)
Stored(a) ==
  LET first == Fetch(a)
  IN IF first.op = "whole" \/ (first.op = "low" /\ Fetch(a + 1).op = "high") THEN first.v
     ELSE Lost

(* What is loaded from an address elsewhere, unless it is overwritten.     *)
Loaded(from, len) ==
  IF from.is = "address" /\ \A a \in from.of .. from.of + len - 1 : ~ In(a, fn.start, patch)
  THEN Content(from.of, len) ELSE Lost

Crash == -1
Home  == fn.arch = "thumb"

(* Between two rewritten instructions, the thread is at the one that comes *)
(* next, as is what returns to the jump over the THEN part of an IT block; *)
(* outside, it is where it is.                                             *)
Boundaries == {Enter + starts[i] : i \in DOMAIN starts}

IsNext(i, a) == Enter + starts[i] >= a /\ \A k \in 1 .. i - 1 : Enter + starts[k] < a
Origin(a) ==
  IF In(a, Enter, buf) THEN AddressOf(CHOOSE i \in DOMAIN starts : IsNext(i, a)) ELSE a

AtBoundary(a) == In(a, Enter, buf) => a \in Boundaries

Look ==
  view' = IF ~ AtBoundary(ip') THEN view
          ELSE [at |-> Origin(ip'), thumb |-> thumb', r |-> regs'.r,
                lr |-> [regs'.lr EXCEPT !.of = Origin(@)], x |-> regs'.x, y |-> regs'.y]

(* The effect of the word at ip: the registers, and the next address.      *)
Literal(w) == Stored(BaseAt(fn.arch, ip) + w.arg)

Result(w) ==
  CASE w.op = "plain" -> Computed(w.arg)
    [] w.op = "ldr"   -> Literal(w)
    [] w.op = "load"  -> Loaded(regs[w.from], w.arg)
    [] w.op = "move"  -> regs[w.from]
    [] w.op = "sum"   -> Sum(regs[w.from].of)
    [] w.op = "index" -> [regs[w.from] EXCEPT !.of = @ + IF flag THEN 4 ELSE 0]
    [] w.op = "thumb" -> [regs[w.from] EXCEPT !.t = TRUE]
    [] w.op = "link"  -> Address(BaseAt(fn.arch, ip) + w.arg, Home)

After == Address(ip + IF Fetch(ip + 1).op = "second" THEN 2 ELSE 1, Home)

Goal(w) ==
  CASE w.op \in DataWords -> Lost
    [] w.op = "b" -> Address(PcAt(fn.arch, ip) + SignExtend(w.arg), Home)
    [] w.op = "ldr" /\ w.to = "pc" -> Literal(w)
    [] w.op \in {"br", "blr"} -> regs.x
    [] w.op = "pop" /\ w.to \in {"xpc", "xypc"} -> stack.pc
    [] OTHER -> After

Jump(value) ==
  /\ ip' = CASE value.is = "address" -> value.of
             [] value.is = "content" -> Pointee
             [] OTHER -> Crash
  /\ thumb' = value.t

Execute ==
  LET w  == Fetch(ip)
      on == ~ w.c \/ flag
  IN /\ Running /\ thumb = Home
     /\ Jump(IF on THEN Goal(w) ELSE After)
     /\ regs' =
          CASE w.op = "pop" -> [regs EXCEPT !.x = stack.x,
                                            !.y = IF w.to = "xypc" THEN stack.y ELSE @]
            [] w.op # "pop" /\ w.to \in {"r", "x", "y", "lr"} -> IF on THEN [regs EXCEPT ![w.to] = Result(w)] ELSE regs
            [] w.op = "blr" -> [regs EXCEPT !.lr = After]
            [] OTHER -> regs
     /\ stack' =
          CASE w.op = "push" -> [x |-> regs.x, y |-> IF w.from = "xy" THEN regs.y ELSE Lost,
                                 pc |-> Lost]
            [] w.op = "store" -> [stack EXCEPT !.pc = regs[w.from]]
            [] OTHER -> stack
     /\ flag' \in IF AtBoundary(ip') THEN BOOLEAN ELSE {flag}
     /\ IF via = "orig" THEN Look ELSE UNCHANGED view
     /\ UNCHANGED <<hookVars, via>>

Fresh == [r |-> Own, x |-> Own, y |-> Own, lr |-> Own]

(* The function is called, or, by its proxy, the original function.        *)
CallTarget ==
  /\ pc = "hooked" /\ ip = Caller
  /\ Jump(Address(fn.start, Home))
  /\ via' = "target"
  /\ UNCHANGED <<hookVars, regs, stack, flag, view>>

CallOrig ==
  /\ pc = "hooked" /\ ip = Caller
  /\ Jump(Address(Enter, Home))
  /\ via' = "orig"
  /\ flag' \in BOOLEAN
  /\ UNCHANGED <<hookVars, regs, stack>>
  /\ Look

(* What was called returns to the head, or the function to its caller.     *)
ReturnToHead ==
  /\ ~ Running /\ regs.lr.is = "address"
  /\ Jump(regs.lr)
  /\ regs' = [Fresh EXCEPT !.r = regs.r]
  /\ flag' \in BOOLEAN
  /\ UNCHANGED <<hookVars, stack, via>>
  /\ Look

ReturnToCaller ==
  /\ ~ Running /\ regs.lr = Own /\ ip \notin {Caller, Crash}
  /\ Jump(Address(Caller, FALSE))
  /\ regs' = Fresh
  /\ UNCHANGED <<hookVars, stack, flag, via>>
  /\ Look

Init ==
  /\ fn \in Functions
  /\ pc = "begin" /\ backup = 0 /\ n = 0 /\ exit = None
  /\ buf = << >> /\ starts = << >> /\ patch = << >>
  /\ ip = Caller /\ thumb = FALSE /\ regs = Fresh /\ flag = FALSE /\ via = "orig"
  /\ stack = [x |-> Lost, y |-> Lost, pc |-> Lost]
  /\ view = [at |-> Caller, thumb |-> FALSE, r |-> Own, lr |-> Own, x |-> Own, y |-> Own]

Next ==
  \/ HookWithExit \/ HookWithoutExit \/ RewriteInst \/ JumpBack \/ Patch \/ GiveUp
  \/ CallTarget \/ CallOrig \/ Execute \/ ReturnToHead \/ ReturnToCaller

Spec == Init /\ [][Next]_vars

----------------------------------------------------------------------------
(* The rewritten instructions are as long as those say who computed where  *)
(* they begin before any was written: sh_a64_get_rewrite_inst_len(), ...,  *)
(* for an IT block sh_inst_get_thumb_rewrite_info().                       *)
LengthsAgree ==
  \A i \in DOMAIN starts : i <= n =>
    starts[i] + InstLen(InstAt(i)) = IF i < Len(starts) THEN starts[i + 1] ELSE Len(buf)

(* Whatever sh_inst_hook() has done so far, the enter is large enough for  *)
(* it, what is overwritten is what was saved, and the distance of the      *)
(* short jump fits its field.                                              *)
HookingOK ==
  /\ pc \in {"begin", "again", "rewrite", "patch", "hooked", "failed"}
  /\ backup \in {0, WithExit, WithoutExit} /\ n \in 0 .. backup
  /\ exit \in ExitsOf(fn) \cup {None}
  /\ Len(buf) * UnitSize <= EnterSize
  /\ Len(starts) <= n + 1 /\ \A i \in DOMAIN starts : starts[i] \in 0 .. Len(buf)
  /\ LengthsAgree
  /\ patch # << >> => Len(patch) = backup
  /\ \A i \in DOMAIN patch : patch[i].op = "b" => patch[i].arg \in 0 .. 2 ^ BranchBits - 1

(* Types of the state, and HookingOK.                                      *)
TypeOK ==
  /\ HookingOK
  /\ ip \in 0 .. New \cup {Crash}
  /\ {thumb, flag} \subseteq BOOLEAN
  /\ via \in {"target", "orig"}
  /\ DOMAIN regs = {"r", "x", "y", "lr"}

(* A thread never executes the addresses that lie between the rewritten    *)
(* instructions, nor half an instruction, never runs out of the enter, and *)
(* is never in the wrong state of the processor.                           *)
OnlyCodeRuns ==
  /\ ip # Crash
  /\ Fetch(ip).op \notin DataWords
  /\ ip \in Enter .. Enter + EnterSize => Running
  /\ Running => thumb = Home

(* Whoever calls the function after it was hooked gets to the proxy.       *)
EntryReachesNew ==
  via = "target" /\ ~ Running => ip = Caller \/ (ip = New /\ thumb = Home)

(* The function as it was, of which view is a picture.                     *)
Program == INSTANCE HeadProgram WITH
  fn <- [fn EXCEPT !.insts = @ \o <<Padding>>],
  at <- view.at, thumb <- view.thumb, r <- view.r, lr <- view.lr, x <- view.x, y <- view.y

(* Whoever calls the original function through the enter sees what the     *)
(* function did before it was hooked: the same branches, taken or not, the *)
(* same values loaded and computed, calls that return to the right place,  *)
(* all other registers as they were - and so for every head that is        *)
(* accepted for rewriting.                                                 *)
ImplementsProgram == Program!Spec
===============================================================================
