-------------------------------- MODULE ShExit --------------------------------
(***************************************************************************)
(* The exits of ShadowHook (sh_exit.c), and the protection against signals *)
(* they are written under (common/bytesig.c).  A hook that overwrites one  *)
(* instruction of a function with a short jump needs a long jump, its      *)
(* exit, near by: in a page of the allocator of ShTrampo (out of the       *)
(* library), or, if there is none in reach, in memory that the function's  *)
(* ELF file leaves unused between its segments (in the library).  There is *)
(* no list of these exits: a place is free if its memory is zero, and a    *)
(* gap that may hold other bytes is filled with zeros once, which a guard  *)
(* instruction at its start remembers.                                     *)
(*                                                                         *)
(* An address counts 8 bytes; an exit takes two, as on arm64.              *)
(***************************************************************************)
EXTENDS Integers, Sequences, FiniteSets

CONSTANTS
  Threads,    (* threads that hook and unhook                               *)
  Hooks,      (* functions to hook                                          *)
  PcOf,       (* per hook: the address of the function                      *)
  Files,      (* ELF files that may be loaded                               *)
  LayoutOf,   (* per file: its LOAD segments in order (start, fileEnd and   *)
              (* end of what the file and the memory hold; x, r: executable,*)
              (* readable), and whether the kernel loads it                 *)
  Size,       (* addresses 0 .. Size - 1 exist                              *)
  PageSize,
  RangeLow, RangeHigh,   (* SH_INST_A64_B_RANGE_LOW and _HIGH               *)
  MaxAddr,    (* UINTPTR_MAX                                                *)
  GapsCap,    (* SH_EXIT_GAPS_CAP                                           *)
  Shields,    (* BYTESIG_PROTECTED_THREADS_MAX                              *)
  Faults,     (* the calls of mprotect that may fail                        *)
  None, Out   (* no exit; an exit out of the library                        *)

ExitLen == 2
Blocks == {"alloc", "free", "rewrite"}

ASSUME ExitAssumption ==
  /\ PageSize \in Nat \ {0} /\ Size \in Nat \ {0}
  /\ PageSize % ExitLen = 0 /\ Size % PageSize = 0
  /\ PcOf \in [Hooks -> 0 .. Size - 1]
  /\ RangeLow \in Nat /\ RangeHigh \in Nat /\ MaxAddr \in Nat
  /\ DOMAIN LayoutOf = Files
  /\ GapsCap \in Nat \ {0} /\ Shields \in Nat \ {0}
  /\ Faults \subseteq {"fill", "slot", "jump", "free"}
  /\ None \notin Threads \cup Files \cup [t : Threads, block : Blocks]
  /\ {None, Out} \cap Int = {} /\ None # Out
  /\ Hooks \cap {"data", "junk", "zero", "flag"} = {}

VARIABLES
  elf,     (* the file that is loaded, or None                              *)
  mem,     (* per address: "data" of a segment, which may happen to be      *)
           (* zero, "junk" from the file, "zero", the guard "flag", or the  *)
           (* hook whose exit it belongs to                                 *)
  prot,    (* per page: "none", "r" (readable), "x" (only executable) or    *)
           (* "rwx"                                                         *)
  exit,    (* per hook: exit_addr, Out, or None                             *)
  hooked,  (* the hooks that are in effect                                  *)
  lock,    (* sh_exit_lock                                                  *)
  tids,    (* sig->tids and sig->jbufs: per slot the thread, and which of   *)
           (* its blocks the jump buffer belongs to                         *)
  th       (* per thread: where it is                                       *)

vars == <<elf, mem, prot, exit, hooked, lock, tids, th>>

Idle == [pc |-> "idle"]
At(t, pc) == th[t].pc = pc
Goto(t, pc) == th' = [th EXCEPT ![t].pc = pc]
Busy(h) == \E t \in Threads : ~ At(t, "idle") /\ th[t].h = h
Addrs == 0 .. Size - 1

(* The outcomes of a call that may fail.                                   *)
Succeeds(call) == IF call \in Faults THEN BOOLEAN ELSE {TRUE}

----------------------------------------------------------------------------
(* Gaps.                                                                   *)
Largest(a, b)  == IF a > b THEN a ELSE b
Smallest(a, b) == IF a < b THEN a ELSE b
AlignStart(a, size) == a - (a % size)
AlignEnd(a, size)   == AlignStart(a + size - 1, size)
PageStart(a) == AlignStart(a, PageSize)
PageEnd(a)   == AlignEnd(a, PageSize)
Page(a)      == a \div PageSize

(* The dynamic linker maps LOAD segments in the order of their addresses,  *)
(* and each in pages of its own.                                           *)
ASSUME LayoutAssumption ==
  \A file \in Files :
    LET segs == LayoutOf[file].segs
    IN /\ LayoutOf[file].byKernel \in BOOLEAN
       /\ segs \in Seq([start : Nat, fileEnd : Nat, end : Nat, x : BOOLEAN, r : BOOLEAN])
       /\ \A i \in DOMAIN segs :
            /\ segs[i].start < segs[i].end /\ segs[i].fileEnd <= segs[i].end
            /\ PageEnd(segs[i].end) <= Size
            /\ \A j \in DOMAIN segs : i < j => PageEnd(segs[i].end) <= PageStart(segs[j].start)

(* The gap behind the i-th segment.  The kernel need not have mapped what  *)
(* lies behind the last page of a segment.  Behind code: the tail of its   *)
(* last page and the pages up to the next segment.  Behind zero-initialised*)
(* data that has pages of its own: likewise, but these are zero.  Behind   *)
(* anything else: only whole pages.                                        *)
NoGap == [start |-> 0, end |-> 0, fill |-> FALSE, readable |-> FALSE]

Gap(layout, i) ==
  LET seg     == layout.segs[i]
      pageEnd == PageEnd(seg.end)
      next    == IF layout.byKernel \/ i = Len(layout.segs) THEN pageEnd
                 ELSE PageStart(layout.segs[i + 1].start)
      tail    == [start |-> AlignEnd(seg.end, 2), end |-> next, fill |-> seg.x,
                  readable |-> seg.r /\ pageEnd = next]
  IN IF seg.x \/ pageEnd > PageEnd(seg.fileEnd) THEN tail
     ELSE IF next > pageEnd
     THEN [start |-> pageEnd, end |-> next, fill |-> TRUE, readable |-> FALSE]
     ELSE NoGap

IsGap(g) == g.end > g.start + (IF g.fill THEN 2 ELSE 0)

GapsIn(layout) ==
  LET before == {i \in DOMAIN layout.segs : IsGap(Gap(layout, i))}
  IN [n \in 1 .. Cardinality(before) |->
        Gap(layout, CHOOSE i \in before : Cardinality({j \in before : j <= i}) = n)]

(* Mutant: all gaps are collected, whatever the room for them.             *)
GapsOfAll == [file \in Files |-> GapsIn(LayoutOf[file])]

GapsOf == [file \in Files |-> SubSeq(GapsIn(LayoutOf[file]), 1,
                                     Smallest(Len(GapsIn(LayoutOf[file])), GapsCap))]

Gaps == GapsOf[elf]

(* Mutant: the place may begin below the range of the short jump.          *)
PlacesFromStart(g, pc) ==
  LET first == AlignEnd(g.start, ExitLen)
      last  == AlignStart(Smallest(g.end - ExitLen, pc + RangeHigh), ExitLen)
  IN {a \in first .. last : (a - first) % ExitLen = 0}

(* Mutant: the end of a gap is taken for its last place.                   *)
PlacesToEnd(g, pc) ==
  LET first == AlignEnd(IF pc >= RangeLow THEN Largest(g.start, pc - RangeLow) ELSE g.start, ExitLen)
      last  == AlignStart(Smallest(g.end, pc + RangeHigh), ExitLen)
  IN {a \in first .. last : (a - first) % ExitLen = 0}

(* The places for exits in a gap that a short jump at pc reaches.          *)
Places(g, pc) ==
  LET first == AlignEnd(IF pc >= RangeLow THEN Largest(g.start, pc - RangeLow)
                        ELSE g.start, ExitLen)
      last  == AlignStart(IF RangeHigh <= MaxAddr - pc
                          THEN Smallest(g.end - ExitLen, pc + RangeHigh)
                          ELSE g.end, ExitLen)
  IN {a \in first .. last : (a - first) % ExitLen = 0}

Units(a, len) == a .. a + len - 1
Readable(a)   == prot[Page(a)] \in {"r", "rwx"}
Unlock(pages) == [q \in DOMAIN prot |-> IF q \in pages THEN "rwx" ELSE prot[q]]
PagesOf(a, len) == {Page(u) : u \in Units(a, len)}
Write(m, a, len, what) == [u \in DOMAIN m |-> IF u \in Units(a, len) THEN what ELSE m[u]]

IsZero(a) == \A u \in Units(a, ExitLen) : mem[u] \in {"zero", "data"}

----------------------------------------------------------------------------
(* Loading the file, and closing it when nobody works on a hook in it:     *)
(* sh_exit_free_after_dlclose() gives up the exits, and the memory is gone.*)
Contents(layout, u) ==
  IF \E i \in DOMAIN layout.segs : u >= layout.segs[i].start /\ u < layout.segs[i].end
  THEN "data"
  ELSE IF \E i \in DOMAIN layout.segs :
            u >= layout.segs[i].start /\ u < PageEnd(layout.segs[i].fileEnd)
  THEN "junk" ELSE "zero"

Protection(layout, page) ==
  LET on == {i \in DOMAIN layout.segs :
               page >= Page(layout.segs[i].start) /\ page <= Page(layout.segs[i].end - 1)}
  IN IF on = {} THEN "none" ELSE IF \E i \in on : layout.segs[i].r THEN "r" ELSE "x"

Load ==
  /\ elf = None
  /\ \E file \in Files :
       /\ elf' = file
       /\ mem' = [u \in Addrs |-> Contents(LayoutOf[file], u)]
       /\ prot' = [q \in 0 .. Page(Size - 1) |-> Protection(LayoutOf[file], q)]
  /\ UNCHANGED <<exit, hooked, lock, tids, th>>

Unload ==
  /\ elf # None
  /\ \A t \in Threads : At(t, "idle")
  /\ elf' = None
  /\ mem' = [u \in Addrs |-> "zero"]
  /\ prot' = [q \in DOMAIN prot |-> "none"]
  /\ exit' = [h \in Hooks |-> None]
  /\ hooked' = {}
  /\ UNCHANGED <<lock, tids, th>>

Init ==
  /\ elf = None
  /\ mem = [u \in Addrs |-> "zero"]
  /\ prot = [q \in 0 .. Page(Size - 1) |-> "none"]
  /\ exit = [h \in Hooks |-> None]
  /\ hooked = {}
  /\ lock = None
  /\ tids = [i \in 1 .. Shields |-> None]
  /\ th = [t \in Threads |-> Idle]

----------------------------------------------------------------------------
(* sh_inst_hook_with_exit(): sh_exit_alloc() tries out of the library      *)
(* first, then in it; sh_inst_unhook(): sh_exit_free() by the type.        *)
Doing(pc, h, block) == [pc |-> pc, h |-> h, block |-> block, gap |-> 1,
                         place |-> 0]

HookCall(t, h) ==
  /\ At(t, "idle") /\ ~ Busy(h) /\ elf # None /\ h \notin hooked
  /\ \/ /\ exit' = [exit EXCEPT ![h] = Out]
        /\ th' = [th EXCEPT ![t] = Doing("jump", h, "rewrite")]
     \/ /\ th' = [th EXCEPT ![t] = Doing("lock", h, "alloc")]
        /\ UNCHANGED exit
  /\ UNCHANGED <<elf, mem, prot, hooked, lock, tids>>

UnhookCall(t, h) ==
  /\ At(t, "idle") /\ ~ Busy(h) /\ h \in hooked
  /\ hooked' = hooked \ {h}
  /\ IF exit[h] = Out
     THEN exit' = [exit EXCEPT ![h] = None] /\ UNCHANGED th
     ELSE /\ th' = [th EXCEPT ![t] = Doing("lock", h, "free")]
          /\ UNCHANGED exit
  /\ UNCHANGED <<elf, mem, prot, lock, tids>>

(* Mutant: in-library exits are handled without the lock.                  *)
LockNothing(t) ==
  /\ At(t, "lock")
  /\ Goto(t, "protect")
  /\ UNCHANGED <<elf, mem, prot, exit, hooked, lock, tids>>

Lock(t) ==
  /\ At(t, "lock") /\ lock = None
  /\ lock' = t
  /\ Goto(t, "protect")
  /\ UNCHANGED <<elf, mem, prot, exit, hooked, tids>>

(* Before the instructions are rewritten, in a protected block as well, the*)
(* function's page must be made writable; if that fails, or anything       *)
(* later, the exit is freed again.                                         *)
Undo(t) ==
  LET h == th[t].h
  IN IF exit[h] = Out
     THEN /\ exit' = [exit EXCEPT ![h] = None]
          /\ th' = [th EXCEPT ![t] = Idle]
     ELSE /\ th' = [th EXCEPT ![t] = Doing("lock", h, "free")]
          /\ UNCHANGED exit

Jump(t) ==
  /\ At(t, "jump")
  /\ \E ok \in Succeeds("jump") :
       IF ok
       THEN /\ prot' = Unlock({Page(PcOf[th[t].h])})
            /\ Goto(t, "protect")
            /\ UNCHANGED exit
       ELSE Undo(t) /\ UNCHANGED prot
  /\ UNCHANGED <<elf, mem, hooked, lock, tids>>

(* SH_SIG_TRY: bytesig_protect().  A thread that has a slot keeps it as it *)
(* is; else it spins until a slot is free.                                 *)
SlotsOf(t) == {i \in 1 .. Shields : tids[i] # None /\ tids[i].t = t}

Protect(t) ==
  /\ At(t, "protect")
  /\ \/ SlotsOf(t) # {} /\ UNCHANGED tids
     \/ /\ SlotsOf(t) = {}
        /\ \E i \in 1 .. Shields :
             /\ tids[i] = None /\ \A j \in 1 .. i - 1 : tids[j] # None
             /\ tids' = [tids EXCEPT ![i] = [t |-> t, block |-> th[t].block]]
  /\ Goto(t, CASE th[t].block = "alloc" -> "fill" [] th[t].block = "free" -> "clear"
              [] th[t].block = "rewrite" -> "rewrite")
  /\ UNCHANGED <<elf, mem, prot, exit, hooked, lock>>

(* A signal in the protected block jumps to where its slot says: to the    *)
(* catch block, if that is the block the thread is in.  The catch block    *)
(* takes the same way out as the end of the try block, with an error.      *)
Signal(t) ==
  Goto(t, IF \E i \in SlotsOf(t) : tids[i].block = th[t].block THEN "unprotect" ELSE "crash")

(* sh_exit_fill_zero() for the next gap.  If mprotect() fails the function *)
(* returns from inside the try block.                                      *)
Fill(t) ==
  LET g     == Gaps[th[t].gap]
      opens == g.readable => mem[g.start] # "flag"   (* calls mprotect() *)
  IN /\ At(t, "fill") /\ th[t].gap <= Len(Gaps)
     /\ IF ~ g.fill
        THEN Goto(t, "place") /\ UNCHANGED <<mem, prot>>
        ELSE \E ok \in IF opens THEN Succeeds("fill") ELSE {TRUE} :
             IF ~ ok
             THEN th' = [th EXCEPT ![t] = Idle] /\ UNCHANGED <<mem, prot>>
             ELSE /\ prot' = IF opens THEN Unlock(PagesOf(g.start, g.end - g.start)) ELSE prot
                  /\ mem' = IF mem[g.start] = "flag" THEN mem
                            ELSE [Write(mem, g.start, g.end - g.start, "zero")
                                    EXCEPT ![g.start] = "flag"]
                  /\ Goto(t, "place")
     /\ UNCHANGED <<elf, exit, hooked, lock, tids>>

(* sh_exit_try_alloc_in_library(): read on to the first place that is      *)
(* zero, and then write the exit there.                                    *)

(* Mutant: a gap without a place is tried again.                           *)
NextGapAgain(t) == Goto(t, "fill")

NextGap(t) == th' = [th EXCEPT ![t].pc = "fill", ![t].gap = @ + 1]

Place(t) ==
  LET ends  == {a \in Places(Gaps[th[t].gap], PcOf[th[t].h]) : ~ Readable(a) \/ IsZero(a)}
      place == CHOOSE a \in ends : \A b \in ends : a <= b
  IN /\ At(t, "place")
     /\ IF ends = {} THEN NextGap(t)
        ELSE IF ~ Readable(place) THEN Signal(t)
        ELSE th' = [th EXCEPT ![t].pc = "write", ![t].place = place]
     /\ UNCHANGED <<elf, mem, prot, exit, hooked, lock, tids>>

WriteExit(t) ==
  LET h     == th[t].h
      place == th[t].place
  IN /\ At(t, "write")
     /\ \E ok \in Succeeds("slot") :
          IF ok
          THEN /\ prot' = Unlock(PagesOf(place, ExitLen))
               /\ mem' = Write(mem, place, ExitLen, h)
               /\ exit' = [exit EXCEPT ![h] = place]
               /\ Goto(t, "unprotect")
          ELSE NextGap(t) /\ UNCHANGED <<mem, prot, exit>>
     /\ UNCHANGED <<elf, hooked, lock, tids>>

NoMoreGaps(t) ==
  /\ At(t, "fill") /\ th[t].gap > Len(Gaps)
  /\ Goto(t, "unprotect")
  /\ UNCHANGED <<elf, mem, prot, exit, hooked, lock, tids>>

(* sh_exit_free_in_library(): put zeros in place of the exit, unless       *)
(* something else is there.                                                *)
Clear(t) ==
  LET h == th[t].h
      a == exit[h]
  IN /\ At(t, "clear")
     /\ IF ~ Readable(a)
        THEN Signal(t) /\ UNCHANGED <<mem, prot>>
        ELSE /\ \E ok \in Succeeds("free") :
                IF ok /\ \A u \in Units(a, ExitLen) : mem[u] = h
                THEN /\ prot' = Unlock({Page(a)})
                     /\ mem' = Write(mem, a, ExitLen, "zero")
                ELSE UNCHANGED <<mem, prot>>
             /\ Goto(t, "unprotect")
     /\ exit' = [exit EXCEPT ![h] = None]
     /\ UNCHANGED <<elf, hooked, lock, tids>>

(* The rewriting; what it reads is a page that was made readable.          *)
Rewrite(t) ==
  /\ At(t, "rewrite")
  /\ IF Readable(PcOf[th[t].h]) THEN Goto(t, "unprotect") ELSE Signal(t)
  /\ UNCHANGED <<elf, mem, prot, exit, hooked, lock, tids>>

Unprotected(t) == Goto(t, IF th[t].block = "rewrite" THEN "patch" ELSE "unlock")

(* Mutant: the slot is kept.                                               *)
UnprotectKeeps(t) ==
  /\ At(t, "unprotect")
  /\ Unprotected(t)
  /\ UNCHANGED <<elf, mem, prot, exit, hooked, lock, tids>>

(* SH_SIG_EXIT, or the start of the catch block: bytesig_unprotect().      *)
Unprotect(t) ==
  /\ At(t, "unprotect")
  /\ tids' = [i \in DOMAIN tids |-> IF i \in SlotsOf(t) THEN None ELSE tids[i]]
  /\ Unprotected(t)
  /\ UNCHANGED <<elf, mem, prot, exit, hooked, lock>>

(* The short jump is in place, or something has failed.                    *)
Patch(t) ==
  /\ At(t, "patch")
  /\ \E ok \in Succeeds("jump") :
       IF ok
       THEN /\ hooked' = hooked \cup {th[t].h}
            /\ th' = [th EXCEPT ![t] = Idle]
            /\ UNCHANGED exit
       ELSE Undo(t) /\ UNCHANGED hooked
  /\ UNCHANGED <<elf, mem, prot, lock, tids>>

UnlockExit(t) ==
  LET h == th[t].h
  IN /\ At(t, "unlock")
     /\ lock' = None
     /\ th' = [th EXCEPT ![t] = IF th[t].block = "alloc" /\ exit[h] # None
                                THEN Doing("jump", h, "rewrite") ELSE Idle]
     /\ UNCHANGED <<elf, mem, prot, exit, hooked, tids>>

(* What a thread does without waiting for another one, other than for a    *)
(* slot of bytesig.c.                                                      *)
GoesOn(t) ==
  \/ Jump(t) \/ Protect(t) \/ Fill(t) \/ Place(t) \/ WriteExit(t) \/ NoMoreGaps(t) \/ Clear(t)
  \/ Rewrite(t) \/ Unprotect(t) \/ Patch(t) \/ UnlockExit(t)

Next ==
  \/ Load \/ Unload
  \/ \E t \in Threads :
       \/ \E h \in Hooks : HookCall(t, h) \/ UnhookCall(t, h)
       \/ Lock(t) \/ GoesOn(t)

Spec == Init /\ [][Next]_vars

(* Whoever holds the lock goes on.                                         *)
FairSpec == Spec /\ \A t \in Threads : WF_vars(GoesOn(t))

----------------------------------------------------------------------------
ProtectedPcs == {"fill", "place", "write", "clear", "rewrite", "unprotect"}
Pcs == ProtectedPcs \cup {"lock", "protect", "unlock", "jump", "patch", "crash"}

(* Types of the state.                                                     *)
TypeOK ==
  /\ elf \in Files \cup {None}
  /\ mem \in [Addrs -> {"data", "junk", "zero", "flag"} \cup Hooks]
  /\ prot \in [0 .. Page(Size - 1) -> {"none", "r", "x", "rwx"}]
  /\ exit \in [Hooks -> Addrs \cup {Out, None}]
  /\ hooked \subseteq Hooks
  /\ lock \in Threads \cup {None}
  /\ tids \in [1 .. Shields -> [t : Threads, block : Blocks] \cup {None}]
  /\ th \in [Threads -> {Idle} \cup
       [pc : Pcs, h : Hooks, block : Blocks, gap : 1 .. GapsCap + 1, place : Addrs]]

(* The short jump of a hook that is in effect, or about to be, leads to    *)
(* its exit, all of it: no later fill, allocation or release by anybody    *)
(* has touched it, although nothing but the memory itself says it is used. *)
LiveExitsAreIntact ==
  \A h \in Hooks :
    exit[h] \in Addrs => \A u \in Units(exit[h], ExitLen) : mem[u] = h

(* What the file holds in memory is never written to, neither by filling a *)
(* gap nor by an exit that begins or ends in one.                          *)
SegmentsAreUntouched ==
  elf # None =>
    \A i \in DOMAIN LayoutOf[elf].segs :
      LET seg == LayoutOf[elf].segs[i] IN \A u \in seg.start .. seg.end - 1 : mem[u] = "data"

(* The short jump reaches the exit: B: [-128M, +128M - 4] (sh_inst.c:75).  *)
ExitsAreInReach ==
  \A h \in Hooks :
    exit[h] \in Addrs => exit[h] \in PcOf[h] - RangeLow .. PcOf[h] + RangeHigh

(* A signal in a protected block finds the block's own jump buffer, and    *)
(* when no block is being executed no buffer is registered, so that no     *)
(* signal ever jumps into a frame that has returned.  That is for every    *)
(* way out of a block but one: a failing mprotect() in                     *)
(* sh_exit_fill_zero() (fault "fill") returns from inside of the block,    *)
(* and the code leaves the buffer registered.                              *)
SignalsAreCaught ==
  \A t \in Threads :
    /\ ~ At(t, "crash")
    /\ th[t].pc \in ProtectedPcs => \E i \in SlotsOf(t) : tids[i].block = th[t].block
    /\ th[t].pc \notin ProtectedPcs => SlotsOf(t) = {}

(* sh_exit_lock is given back whether the search finds a place or not, and *)
(* if writing the exit fails or a signal interrupts the search.  Not after *)
(* a failing mprotect() in sh_exit_fill_zero() (fault "fill"): it returns  *)
(* from inside of the try block, and the code keeps the lock for ever.     *)
LockIsReleased == lock # None ~> lock = None
===============================================================================
