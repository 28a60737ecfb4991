------------------------------ MODULE ShTrampo ------------------------------
(***************************************************************************)
(* The trampoline allocator of ShadowHook (common/sh_trampo.c): fixed-size *)
(* executable slots carved out of mmap'ed pages.  A freed slot is not      *)
(* reissued until more than delay_sec seconds have passed, because a       *)
(* thread may still be running inside it when its hook is removed.         *)
(*                                                                         *)
(* Everything the two functions touch is read and written under            *)
(* mgr->pages_lock, so each critical section is one action.  The time is   *)
(* sampled BEFORE the lock is taken; that sample is a step of its own, and *)
(* it may be arbitrarily stale when the critical section runs.             *)
(***************************************************************************)
EXTENDS Integers, Sequences, FiniteSets

CONSTANTS
  Threads,     (* threads that hook and unhook                              *)
  Runners,     (* threads that run through hooked functions                 *)
  PageAddrs,   (* base addresses the kernel may answer to mmap              *)
  TrampoSize,  (* mgr->trampo_size                                          *)
  PageSize,    (* sh_util_get_page_size()                                   *)
  Delay,       (* mgr->delay_sec: 2, 5 or 10 in the managers of the library *)
  Requests,    (* the (hint, range_low, range_high) triples callers pass    *)
  AddrMax,     (* UINTPTR_MAX                                               *)
  Usecs,       (* bound: instants told apart within one second              *)
  MaxSec,      (* bound: the clock stops there                              *)
  NoSlot       (* a runner outside every slot                               *)

Count == PageSize \div TrampoSize
Slots(p) == {p + TrampoSize * i : i \in 0 .. Count - 1}
AllSlots == UNION {Slots(p) : p \in PageAddrs}

ASSUME TrampoAssumption ==
  /\ PageAddrs \subseteq Nat \ {0}
  /\ TrampoSize \in Nat \ {0} /\ PageSize \in Nat /\ TrampoSize <= PageSize
  /\ \A p, q \in PageAddrs : p # q => Slots(p) \cap Slots(q) = {}
  /\ Delay \in Nat \ {0}
  /\ Requests \subseteq [hint : Nat, low : Nat, high : Nat]
     (* Only the exits have windows, and their 8 or 16 bytes fill a page.   *)
  /\ (\E r \in Requests : r.hint > 0) => Count * TrampoSize = PageSize
  /\ AddrMax \in Nat
  /\ Usecs \in Nat \ {0} /\ MaxSec \in Nat
  /\ NoSlot \notin AllSlots

VARIABLES
  pages,       (* mgr->pages, most recently mapped first                    *)
  used,        (* slots whose bit is set in page->flags                     *)
  timestamps,  (* page->timestamps, in seconds                              *)
  clock,       (* the struct timeval gettimeofday would fill in             *)
  call,        (* per thread: the call of the allocator it is inside of     *)
  held,        (* per thread: the slots it was given, with what it asked    *)
  freedAt,     (* history: when the last sh_trampo_free of a slot began     *)
  running,     (* per runner: the slot it is executing in                   *)
  aborted      (* abort() was reached                                       *)

vars == <<pages, used, timestamps, clock, call, held, freedAt, running, aborted>>

Time    == [sec : Nat, usec : Nat]
Idle    == [op |-> "idle"]
Holding == [slot : AllSlots, req : Requests]

(* More than Delay seconds lie between the instants a and b.               *)
LongAfter(b, a) ==
  \/ b.sec - a.sec > Delay
  \/ b.sec - a.sec = Delay /\ b.usec > a.usec

----------------------------------------------------------------------------
(* The address window of a request, clamped to the address space, and the  *)
(* tests of a page and of a slot against it.  hint = 0 asks for any slot.  *)
Lowest(r)  == r.hint - (IF r.low > r.hint THEN r.hint ELSE r.low)
Highest(r) == r.hint + (IF r.high > AddrMax - r.hint THEN AddrMax - r.hint ELSE r.high)

(* The exits ask for 128 MB around the hook point, or 16 MB in Thumb code: *)
(* more than a slot, even where the window is clamped.                     *)
ASSUME WindowAssumption ==
  \A r \in Requests : r.hint > 0 => Lowest(r) + TrampoSize <= Highest(r) + 1

SlotInWindow(r, s) == r.hint > 0 => Lowest(r) <= s /\ s <= Highest(r)

PageInWindow(r, p) ==
  r.hint > 0 => Lowest(r) <= p + PageSize - TrampoSize /\ p <= Highest(r)

(* Mutant: the lower end of the window is not tested.                      *)
NewPageBelowHighest(r, p) == r.hint > 0 => p <= Highest(r)

(* A fresh page is tested with one strict comparison more.                 *)
NewPageInWindow(r, p) ==
  r.hint > 0 => Lowest(r) < p + PageSize - TrampoSize /\ p <= Highest(r)

(* Mutant: delay_sec seconds in whole numbers are taken to be enough.      *)
CooledTooSoon(s, now) == now > timestamps[s] /\ now - timestamps[s] >= Delay

(* A free slot may be reissued to a caller that read the time `now`.       *)
Cooled(s, now) == now > timestamps[s] /\ now - timestamps[s] > Delay

Mapped == {pages[k] : k \in 1 .. Len(pages)}

(* Mutants: the flags, or the window, are not looked at in a page.         *)
CandidatesTaken(p, r, now) ==
  IF PageInWindow(r, p)
  THEN {s \in Slots(p) : Cooled(s, now) /\ SlotInWindow(r, s)}
  ELSE {}

CandidatesAnywhere(p, r, now) ==
  IF PageInWindow(r, p)
  THEN {s \in Slots(p) : s \notin used /\ Cooled(s, now)}
  ELSE {}

(* Mutant: the loop over the flags of a page goes one slot too far.        *)
CandidatesPastEnd(p, r, now) ==
  IF PageInWindow(r, p)
  THEN {s \in Slots(p) \cup {p + TrampoSize * Count} :
          s \notin used /\ (s \in AllSlots => Cooled(s, now)) /\ SlotInWindow(r, s)}
  ELSE {}

(* The slots of page p that sh_trampo_alloc would take for request r.      *)
Candidates(p, r, now) ==
  IF PageInWindow(r, p)
  THEN {s \in Slots(p) : s \notin used /\ Cooled(s, now) /\ SlotInWindow(r, s)}
  ELSE {}

----------------------------------------------------------------------------
Init ==
  /\ pages = <<>>
  /\ used = {}
  /\ timestamps = [s \in AllSlots |-> 0]
  /\ clock = [sec |-> Delay + 1, usec |-> 0]
  /\ call = [t \in Threads |-> Idle]
  /\ held = [t \in Threads |-> {}]
  /\ freedAt = [s \in AllSlots |-> [sec |-> 0, usec |-> 0]]
  /\ running = [x \in Runners |-> NoSlot]
  /\ aborted = FALSE

(* sh_trampo_alloc up to the lock: clamp the window, read the time.        *)
AllocStart(t, r) ==
  /\ call[t] = Idle
  /\ call' = [call EXCEPT ![t] = [op |-> "alloc", now |-> clock.sec, req |-> r]]
  /\ UNCHANGED <<pages, used, timestamps, clock, held, freedAt, running, aborted>>

Give(t, s) ==
  /\ used' = used \cup {s}
  /\ held' = [held EXCEPT ![t] = @ \cup {[slot |-> s, req |-> call[t].req]}]
  /\ call' = [call EXCEPT ![t] = Idle]

(* The scan: the first page in list order that has a candidate, and the    *)
(* lowest candidate in it.                                                 *)
AllocReuse(t) ==
  /\ call[t].op = "alloc"
  /\ \E k \in 1 .. Len(pages) :
       LET found(j) == Candidates(pages[j], call[t].req, call[t].now)
       IN /\ found(k) # {}
          /\ \A j \in 1 .. k - 1 : found(j) = {}
          /\ \E s \in found(k) :
               /\ \A u \in found(k) : s <= u
               /\ Give(t, s)
  /\ UNCHANGED <<pages, timestamps, clock, freedAt, running, aborted>>

NothingToReuse(t) ==
  \A p \in Mapped : Candidates(p, call[t].req, call[t].now) = {}

(* No candidate: a new page goes to the head of the list and gives its     *)
(* first slot inside the window; abort() if no slot lies inside it.        *)
AllocMap(t) ==
  /\ call[t].op = "alloc"
  /\ NothingToReuse(t)
  /\ \E p \in PageAddrs \ Mapped :
       LET fits == {s \in Slots(p) : SlotInWindow(call[t].req, s)}
       IN /\ NewPageInWindow(call[t].req, p)
          /\ pages' = <<p>> \o pages
          /\ timestamps' = [s \in AllSlots |-> IF s \in Slots(p) THEN 0 ELSE timestamps[s]]
          /\ aborted' = (fits = {})
          /\ IF fits = {}
             THEN UNCHANGED <<used, held, call>>
             ELSE \E s \in fits : (\A u \in fits : s <= u) /\ Give(t, s)
  /\ UNCHANGED <<clock, freedAt, running>>

(* mmap fails, answers outside the window, or calloc fails: the page is    *)
(* given back and the caller gets 0.                                       *)
AllocFail(t) ==
  /\ call[t].op = "alloc"
  /\ NothingToReuse(t)
  /\ call' = [call EXCEPT ![t] = Idle]
  /\ UNCHANGED <<pages, used, timestamps, clock, held, freedAt, running, aborted>>

(* sh_trampo_free up to the lock.  The caller has already removed the      *)
(* branch into the slot, and gives it up here; any thread may free what    *)
(* another one allocated.                                                  *)
FreeStart(t, u, h) ==
  /\ call[t] = Idle
  /\ h \in held[u]
  /\ call' = [call EXCEPT ![t] = [op |-> "free", now |-> clock.sec, slot |-> h.slot]]
  /\ held' = [held EXCEPT ![u] = @ \ {h}]
  /\ freedAt' = [freedAt EXCEPT ![h.slot] = clock]
  /\ UNCHANGED <<pages, used, timestamps, clock, running, aborted>>

FreeEnd(t) ==
  /\ call[t].op = "free"
  /\ used' = used \ {call[t].slot}
  /\ timestamps' = [timestamps EXCEPT ![call[t].slot] = call[t].now]
  /\ call' = [call EXCEPT ![t] = Idle]
  /\ UNCHANGED <<pages, clock, held, freedAt, running, aborted>>

----------------------------------------------------------------------------
(* The callers' side.  A runner gets into a slot only through the branch   *)
(* that leads to it, which is there while some thread holds the slot.      *)
Enter(x) ==
  /\ running[x] = NoSlot
  /\ \E t \in Threads : \E h \in held[t] :
       running' = [running EXCEPT ![x] = h.slot]
  /\ UNCHANGED <<pages, used, timestamps, clock, call, held, freedAt, aborted>>

Leave(x) ==
  /\ running[x] # NoSlot
  /\ running' = [running EXCEPT ![x] = NoSlot]
  /\ UNCHANGED <<pages, used, timestamps, clock, call, held, freedAt, aborted>>

Live == {h.slot : h \in UNION {held[t] : t \in Threads}}

(* Time passes.  What the delay stands for is that no thread is still      *)
(* inside a slot more than delay_sec seconds after the slot was given up.  *)
Tick ==
  /\ IF clock.usec + 1 < Usecs
     THEN clock' = [clock EXCEPT !.usec = @ + 1]
     ELSE clock' = [sec |-> clock.sec + 1, usec |-> 0]
  /\ clock'.sec <= MaxSec
  /\ \A x \in Runners : running[x] # NoSlot /\ running[x] \notin Live
                           => ~ LongAfter(clock', freedAt[running[x]])
  /\ UNCHANGED <<pages, used, timestamps, call, held, freedAt, running, aborted>>

AllocatorStep(t) ==
  /\ ~ aborted
  /\ \/ \E r \in Requests : AllocStart(t, r)
     \/ AllocReuse(t)
     \/ AllocMap(t)
     \/ AllocFail(t)
     \/ \E u \in Threads : \E h \in held[u] : FreeStart(t, u, h)
     \/ FreeEnd(t)

Next ==
  \/ \E t \in Threads : AllocatorStep(t)
  \/ \E x \in Runners : Enter(x) \/ Leave(x)
  \/ Tick

Spec == Init /\ [][Next]_vars

----------------------------------------------------------------------------
(* Types of the state.                                                     *)
TypeOK ==
  /\ pages \in Seq(PageAddrs)
  /\ used \subseteq AllSlots
  /\ timestamps \in [AllSlots -> Nat]
  /\ clock \in Time
  /\ call \in [Threads -> {Idle}
                 \cup [op : {"alloc"}, now : Nat, req : Requests]
                 \cup [op : {"free"}, now : Nat, slot : AllSlots]]
  /\ held \in [Threads -> SUBSET Holding]
  /\ freedAt \in [AllSlots -> Time]
  /\ running \in [Runners -> AllSlots \cup {NoSlot}]
  /\ aborted \in BOOLEAN

(* A slot has one owner: no two holdings, of one thread or of two, name    *)
(* the same slot, and a slot that is being freed belongs to nobody else    *)
(* (the flag bit is what sh_trampo_alloc relies on for this).              *)
ExclusiveSlots ==
  /\ \A t, u \in Threads : \A h \in held[t], g \in held[u] :
       h.slot = g.slot => t = u /\ h = g
  /\ \A t \in Threads : call[t].op = "free" =>
       /\ call[t].slot \notin Live
       /\ \A u \in Threads \ {t} : call[u].op = "free" => call[u].slot # call[t].slot

(* A slot is never zeroed and reissued while a thread is still executing   *)
(* in it, however stale the time is that an allocation or a free read      *)
(* before it got the lock.                                                 *)
NoReissueUnderRunner ==
  [][\A x \in Runners : running[x] # NoSlot /\ running[x] \notin used
                           => running[x] \notin used']_vars

(* A caller that named a window gets a slot inside it: the branch written  *)
(* at the hook point can reach the slot.                                   *)
WithinWindow ==
  \A t \in Threads : \A h \in held[t] : SlotInWindow(h.req, h.slot)

(* abort() after mapping a page is out of reach: a page that passes the    *)
(* window test has a slot inside the window.                               *)
NeverAborts == ~ aborted
=============================================================================
