-------------------------------- MODULE ShHub --------------------------------
(***************************************************************************)
(* The hub of shared mode (sh_hub.c): the trampoline of a hooked function  *)
(* asks sh_hub_push_stack() where to jump, proxies find the next link of   *)
(* the chain with sh_hub_get_prev_func() and leave with                    *)
(* sh_hub_pop_stack().  Every thread keeps a stack of frames, one for each *)
(* hooked call it is inside of; hooking and unhooking threads change the   *)
(* proxy lists meanwhile, and the running threads read them without lock.  *)
(*                                                                         *)
(* act[t] is the machine stack of thread t, seen through hooked functions: *)
(* one activation for each hooked call, proxy and original function being  *)
(* executed.  Only the last one takes steps.  With Interrupts, a signal    *)
(* handler that calls a hooked function may run between any two of them.   *)
(***************************************************************************)
EXTENDS Integers, Sequences, FiniteSets, Functions

CONSTANTS
  Threads, Hubs, Proxies,
  Target,       (* per proxy: the function it is written for                *)
  CallSites,    (* return addresses of ordinary calls of hooked functions   *)
  NSlots,       (* SH_HUB_THREAD_MAX: stacks in the global cache            *)
  Maps,         (* stacks that mmap can provide when the cache is used up   *)
  FrameMax,     (* SH_HUB_STACK_FRAME_MAX                                   *)
  MaxDepth,     (* bound: activations on one thread                         *)
  Interrupts,   (* whether signal handlers call hooked functions            *)
  NoStack,      (* the TLS value NULL                                       *)
  NoFunc

Slots  == 1 .. NSlots
Stacks == Slots \cup Maps

ASSUME HubAssumption ==
  /\ NSlots \in Nat /\ FrameMax \in Nat \ {0} /\ MaxDepth \in Nat
  /\ Interrupts \in BOOLEAN
  /\ Maps \cap Slots = {} /\ NoStack \notin Stacks /\ NoFunc \notin Proxies
  /\ CallSites \cap Proxies = {}
  /\ Target \in [Proxies -> Hubs]

VARIABLES
  list,      (* per hub: its proxies, first to last; items are never removed *)
  enabled,   (* per hub: the proxies whose `enabled` is set                  *)
  used,      (* stacks taken: cache_used[i] = 1, or still mapped             *)
  frames,    (* per stack: frames[0 .. frames_cnt - 1]                       *)
  tls,       (* per thread: the value of sh_hub_stack_tls_key                *)
  reserved,  (* threads whose sh_hub_stack_reserved_tls_key is set           *)
  exiting,   (* threads that are running their TLS destructors               *)
  act        (* per thread: its activations                                  *)

vars == <<list, enabled, used, frames, tls, reserved, exiting, act>>

(* frames_cnt was incremented and the fields are still to be written.      *)
Unwritten == [hub |-> "unwritten"]

Top(t)        == act[t][Len(act[t])]
At(t, pc)     == act[t] # <<>> /\ Top(t).pc = pc
Under(t)      == SubSeq(act[t], 1, Len(act[t]) - 1)
SetTop(t, a)  == act' = [act EXCEPT ![t][Len(act[t])] = a]
Goto(t, pc)   == SetTop(t, [Top(t) EXCEPT !.pc = pc])

(* The call goes on in the original function, for the reason `via`.        *)
ToOriginal(t, via) == SetTop(t, [Top(t) EXCEPT !.pc = "orig", !.via = via])

(* Mutants: the chain goes on one item too late, or with the same item.    *)
AfterNext(p, l) == SubSeq(l, 2 + CHOOSE i \in 1 .. Len(l) : l[i] = p, Len(l))
AfterSame(p, l) == SubSeq(l, CHOOSE i \in 1 .. Len(l) : l[i] = p, Len(l))

(* The part of a proxy list after the item of function p.                  *)
After(p, l) == SubSeq(l, 1 + CHOOSE i \in 1 .. Len(l) : l[i] = p, Len(l))

Init ==
  /\ list = [h \in Hubs |-> <<>>]
  /\ enabled = [h \in Hubs |-> {}]
  /\ used = {}
  /\ frames = [s \in Stacks |-> <<>>]
  /\ tls = [t \in Threads |-> NoStack]
  /\ reserved = {}
  /\ exiting = {}
  /\ act = [t \in Threads |-> <<>>]

----------------------------------------------------------------------------
(* sh_hub_push_stack().                                                    *)

(* A hooked function is called: from the thread's own code, from inside a  *)
(* proxy or an original function, or from a signal handler.  `stable` is a *)
(* history variable: the proxies enabled ever since the call began.        *)
Call(t, h, ra) ==
  /\ Len(act[t]) < MaxDepth
  /\ Interrupts \/ act[t] = <<>> \/ At(t, "proxy") \/ At(t, "orig")
  /\ act' = [act EXCEPT ![t] = Append(@,
       [hub |-> h, ra |-> ra, pc |-> "enter", func |-> NoFunc, rest |-> <<>>,
        scan |-> 1, stk |-> NoStack, owns |-> FALSE, via |-> "chain",
        stable |-> enabled[h], visited |-> {}])]
  /\ UNCHANGED <<list, enabled, used, frames, tls, reserved, exiting>>

ReadTls(t) ==
  /\ At(t, "enter")
  /\ IF t \in reserved THEN ToOriginal(t, "reserved")
     ELSE IF tls[t] = NoStack THEN Goto(t, "create")
     ELSE SetTop(t, [Top(t) EXCEPT !.pc = "check", !.stk = tls[t]])
  /\ UNCHANGED <<list, enabled, used, frames, tls, reserved, exiting>>

(* sh_hub_stack_create(): one flag of the cache at a time, taken by CAS.   *)
TakeStack(t, s) ==
  /\ used' = used \cup {s}
  /\ frames' = [frames EXCEPT ![s] = <<>>]
  /\ SetTop(t, [Top(t) EXCEPT !.pc = "set", !.stk = s])

(* Mutant: the flag of a slot is not looked at.                            *)
SlotIsAlwaysFree(i) == i \in Slots

SlotIsFree(i) == i \notin used

TrySlot(t) ==
  /\ At(t, "create") /\ Top(t).scan \in Slots
  /\ IF SlotIsFree(Top(t).scan)
     THEN TakeStack(t, Top(t).scan)
     ELSE SetTop(t, [Top(t) EXCEPT !.scan = @ + 1]) /\ UNCHANGED <<used, frames>>
  /\ UNCHANGED <<list, enabled, tls, reserved, exiting>>

(* The cache is used up: mmap a stack, or fail.                            *)
MapStack(t) ==
  /\ At(t, "create") /\ Top(t).scan > NSlots
  /\ \/ \E m \in Maps \ used : TakeStack(t, m)
     \/ ToOriginal(t, "nostack") /\ UNCHANGED <<used, frames>>
  /\ UNCHANGED <<list, enabled, tls, reserved, exiting>>

SetTls(t) ==
  /\ At(t, "set")
  /\ tls' = [tls EXCEPT ![t] = Top(t).stk]
  /\ Goto(t, "check")
  /\ UNCHANGED <<list, enabled, used, frames, reserved, exiting>>

(* Mutant: the reentrant flag is read the wrong way round.                 *)
ForbidsInverted(f, h) ==
  IF f = Unwritten THEN BOOLEAN ELSE {f.hub = h /\ f.reentrant}

(* A frame forbids another call of hub h.  The fields of a frame that is   *)
(* still being written are whatever was in memory.                         *)
Forbids(f, h) ==
  IF f = Unwritten THEN BOOLEAN ELSE {f.hub = h /\ ~ f.reentrant}

(* The scan for a recursive call, and the read of the list head.           *)
CheckRecursion(t) ==
  /\ At(t, "check")
  /\ \E verdict \in [1 .. Len(frames[Top(t).stk]) -> BOOLEAN] :
       /\ \A i \in DOMAIN verdict :
            verdict[i] \in Forbids(frames[Top(t).stk][i], Top(t).hub)
       /\ IF \E i \in DOMAIN verdict : verdict[i]
          THEN ToOriginal(t, "recursive")
          ELSE SetTop(t, [Top(t) EXCEPT !.pc = "find", !.rest = list[Top(t).hub]])
  /\ UNCHANGED <<list, enabled, used, frames, tls, reserved, exiting>>

(* One item of the list at a time; the first enabled one gets a frame.     *)
FindFirst(t) ==
  LET a == Top(t)
  IN /\ At(t, "find")
     /\ IF a.rest = <<>>
        THEN ToOriginal(t, "chain") /\ UNCHANGED frames
        ELSE IF Head(a.rest) \notin enabled[a.hub]
        THEN SetTop(t, [a EXCEPT !.rest = Tail(@)]) /\ UNCHANGED frames
        ELSE IF Len(frames[a.stk]) >= FrameMax
        THEN ToOriginal(t, "full") /\ UNCHANGED frames
        ELSE /\ frames' = [frames EXCEPT ![a.stk] = Append(@, Unwritten)]
             /\ SetTop(t, [a EXCEPT !.pc = "write", !.func = Head(a.rest)])
     /\ UNCHANGED <<list, enabled, used, tls, reserved, exiting>>

(* Mutant: the frame does not say whose it is.                             *)
WriteFrameWithoutHub(t) ==
  LET a == Top(t)
  IN /\ At(t, "write")
     /\ frames' = [frames EXCEPT ![a.stk][Len(frames[a.stk])] =
          [ra |-> a.ra, reentrant |-> FALSE, proxies |-> list[a.hub]]]
     /\ SetTop(t, [a EXCEPT !.pc = "proxy", !.owns = TRUE, !.rest = <<>>,
                            !.visited = {a.func}])
     /\ UNCHANGED <<list, enabled, used, tls, reserved, exiting>>

(* The fields of the frame, the list head read once more among them; then  *)
(* the trampoline jumps to the proxy.                                      *)
WriteFrame(t) ==
  LET a == Top(t)
  IN /\ At(t, "write")
     /\ frames' = [frames EXCEPT ![a.stk][Len(frames[a.stk])] =
          [hub |-> a.hub, ra |-> a.ra, reentrant |-> FALSE, proxies |-> list[a.hub]]]
     /\ SetTop(t, [a EXCEPT !.pc = "proxy", !.owns = TRUE, !.rest = <<>>,
                            !.visited = {a.func}])
     /\ UNCHANGED <<list, enabled, used, tls, reserved, exiting>>

----------------------------------------------------------------------------
(* What a proxy does.                                                      *)

CurrentFrame(t) == frames[tls[t]][Len(frames[tls[t]])]
HasFrame(t, ra) == frames[tls[t]] # <<>> /\ CurrentFrame(t).ra = ra

(* sh_hub_get_prev_func(): start after this proxy in the frame's list ...  *)
GetPrevStart(t) ==
  /\ At(t, "proxy") /\ Len(act[t]) < MaxDepth
  /\ frames[tls[t]] # <<>>
  /\ SetTop(t, [Top(t) EXCEPT !.pc = "prev",
                              !.rest = After(Top(t).func, CurrentFrame(t).proxies)])
  /\ UNCHANGED <<list, enabled, used, frames, tls, reserved, exiting>>

(* ... look at one item at a time, then call the first enabled one, or the *)
(* original.  The return address of that call lies inside this proxy.      *)
GetPrevNext(t) ==
  LET a == Top(t)
      callee == [a EXCEPT !.ra = a.func, !.owns = FALSE, !.rest = <<>>, !.via = "chain"]
      Chain(b) == act' = [act EXCEPT ![t] =
                    Under(t) \o <<[a EXCEPT !.pc = "proxy", !.rest = <<>>], b>>]
  IN /\ At(t, "prev") /\ Len(act[t]) < MaxDepth
     /\ IF a.rest = <<>>
        THEN Chain([callee EXCEPT !.pc = "orig", !.func = NoFunc])
        ELSE IF Head(a.rest) \in enabled[CurrentFrame(t).hub]
        THEN Chain([callee EXCEPT !.pc = "proxy", !.func = Head(a.rest),
                                  !.visited = @ \cup {Head(a.rest)}])
        ELSE SetTop(t, [a EXCEPT !.rest = Tail(@)])
     /\ UNCHANGED <<list, enabled, used, frames, tls, reserved, exiting>>

(* sh_hub_allow_reentrant() and sh_hub_disallow_reentrant().               *)
SetReentrant(t, allow) ==
  /\ At(t, "proxy") /\ HasFrame(t, Top(t).ra)
  /\ frames' = [frames EXCEPT ![tls[t]][Len(frames[tls[t]])].reentrant = allow]
  /\ UNCHANGED <<list, enabled, used, tls, reserved, exiting, act>>

(* Mutant: every proxy pops a frame, not the first one only.               *)
PopAlwaysAndReturn(t) ==
  /\ At(t, "proxy")
  /\ frames' = [frames EXCEPT ![tls[t]] = SubSeq(@, 1, Len(@) - 1)]
  /\ act' = [act EXCEPT ![t] = Under(t)]
  /\ UNCHANGED <<list, enabled, used, tls, reserved, exiting>>

(* The end of a proxy: sh_hub_pop_stack(), which every proxy of the chain  *)
(* calls and only the first one gets anything popped by.                   *)
PopAndReturn(t) ==
  /\ At(t, "proxy")
  /\ IF HasFrame(t, Top(t).ra)
     THEN frames' = [frames EXCEPT ![tls[t]] = SubSeq(@, 1, Len(@) - 1)]
     ELSE UNCHANGED frames
  /\ act' = [act EXCEPT ![t] = Under(t)]
  /\ UNCHANGED <<list, enabled, used, tls, reserved, exiting>>

ReturnFromOriginal(t) ==
  /\ At(t, "orig")
  /\ act' = [act EXCEPT ![t] = Under(t)]
  /\ UNCHANGED <<list, enabled, used, frames, tls, reserved, exiting>>

----------------------------------------------------------------------------
(* The end of a thread: it returns from its own code or calls pthread_exit *)
(* inside a hooked function, and runs the TLS destructors.                 *)
ThreadExit(t) ==
  /\ t \notin exiting
  /\ act[t] = <<>> \/ At(t, "proxy") \/ At(t, "orig")
  /\ exiting' = exiting \cup {t}
  /\ act' = [act EXCEPT ![t] = <<>>]
  /\ UNCHANGED <<list, enabled, used, frames, tls, reserved>>

(* Mutant: the slot of the cache is not given back.                        *)
StackDestroyLeaks(t) ==
  /\ t \in exiting /\ act[t] = <<>> /\ tls[t] \in used
  /\ tls' = [tls EXCEPT ![t] = NoStack]
  /\ reserved' = reserved \cup {t}
  /\ UNCHANGED <<list, enabled, used, frames, exiting, act>>

(* sh_hub_stack_destroy(), with the abort() it must not reach.             *)
StackDestroy(t) ==
  /\ t \in exiting /\ act[t] = <<>> /\ tls[t] \in used
  /\ used' = used \ {tls[t]}
  /\ tls' = [tls EXCEPT ![t] = NoStack]
  /\ reserved' = reserved \cup {t}
  /\ UNCHANGED <<list, enabled, frames, exiting, act>>

(* The destructors have run; a new thread may get the same place.          *)
ThreadEnd(t) ==
  /\ t \in exiting /\ act[t] = <<>> /\ tls[t] = NoStack
  /\ exiting' = exiting \ {t}
  /\ reserved' = reserved \ {t}
  /\ UNCHANGED <<list, enabled, used, frames, tls, act>>

----------------------------------------------------------------------------
(* sh_hub_add_proxy() and sh_hub_del_proxy(), each under proxies_lock.     *)
AddProxy(h, p) ==
  /\ p \notin enabled[h]
  /\ enabled' = [enabled EXCEPT ![h] = @ \cup {p}]
  /\ IF p \in Range(list[h]) THEN UNCHANGED list
     ELSE list' = [list EXCEPT ![h] = <<p>> \o @]
  /\ UNCHANGED <<used, frames, tls, reserved, exiting, act>>

NoLongerStable(h, p) ==
  [t \in Threads |-> [i \in 1 .. Len(act[t]) |->
     IF act[t][i].hub = h THEN [act[t][i] EXCEPT !.stable = @ \ {p}] ELSE act[t][i]]]

DelProxy(h, p) ==
  /\ p \in enabled[h]
  /\ enabled' = [enabled EXCEPT ![h] = @ \ {p}]
  /\ act' = NoLongerStable(h, p)
  /\ UNCHANGED <<list, used, frames, tls, reserved, exiting>>

Step(t) ==
  \/ \E h \in Hubs, ra \in CallSites : Call(t, h, ra)
  \/ ReadTls(t)
  \/ TrySlot(t)
  \/ MapStack(t)
  \/ SetTls(t)
  \/ CheckRecursion(t)
  \/ FindFirst(t)
  \/ WriteFrame(t)
  \/ GetPrevStart(t)
  \/ GetPrevNext(t)
  \/ \E allow \in BOOLEAN : SetReentrant(t, allow)
  \/ PopAndReturn(t)
  \/ ReturnFromOriginal(t)
  \/ ThreadExit(t)
  \/ StackDestroy(t)
  \/ ThreadEnd(t)

Next ==
  \/ \E t \in Threads : Step(t)
  \/ \E p \in Proxies : AddProxy(Target[p], p) \/ DelProxy(Target[p], p)

Spec == Init /\ [][Next]_vars

----------------------------------------------------------------------------
Frame == [hub : Hubs, ra : CallSites, reentrant : BOOLEAN, proxies : Seq(Proxies)]

(* Types of the state.                                                     *)
TypeOK ==
  /\ list \in [Hubs -> Seq(Proxies)]
  /\ enabled \in [Hubs -> SUBSET Proxies]
  /\ used \subseteq Stacks
  /\ \A s \in Stacks : \A i \in 1 .. Len(frames[s]) : frames[s][i] \in Frame \cup {Unwritten}
  /\ tls \in [Threads -> Stacks \cup {NoStack}]
  /\ reserved \subseteq exiting /\ exiting \subseteq Threads
  /\ \A t \in Threads : Len(act[t]) <= MaxDepth

(* The stacks a thread may write to: its TLS value and what an activation  *)
(* of it that is creating a stack has just got hold of.                    *)
StacksOf(t) ==
  ({tls[t]} \cup {act[t][i].stk : i \in 1 .. Len(act[t])}) \ {NoStack}

(* Two threads never share a stack, and every stack in use is marked as    *)
(* taken: what a thread pushes is popped by itself, a slot is given back   *)
(* once, and the abort() of sh_hub_stack_destroy() is out of reach.        *)
StacksAreExclusive ==
  /\ \A t, u \in Threads : t # u => StacksOf(t) \cap StacksOf(u) = {}
  /\ \A t \in Threads : StacksOf(t) \subseteq used

(* The activations among the first i that have pushed a frame.             *)
Pushed(a) == a.owns \/ a.pc = "write"
Depth(calls, i) == Cardinality({j \in 1 .. i : Pushed(calls[j])})

(* A thread's frames are those of the hooked calls it is inside of, in the *)
(* same order: whatever the proxies return through and however often a     *)
(* stack has changed hands, each call pops its own frame and no other.     *)
FramesMirrorCalls ==
  \A t \in Threads \ exiting :
    LET calls    == act[t]
        frame(i) == frames[tls[t]][Depth(calls, i)]
    IN tls[t] # NoStack =>
         /\ Len(frames[tls[t]]) = Depth(calls, Len(calls))
         /\ \A i \in 1 .. Len(calls) :
              /\ calls[i].owns => frame(i).hub = calls[i].hub /\ frame(i).ra = calls[i].ra
              /\ calls[i].pc = "write" => frame(i) = Unwritten

(* The recursion guard: a thread is inside two hooked calls of one         *)
(* function only if the outer one allowed it.                              *)
NoUninvitedReentry ==
  \A s \in Stacks : \A i, j \in 1 .. Len(frames[s]) :
    i < j /\ Unwritten \notin {frames[s][i], frames[s][j]} /\ frames[s][i].hub = frames[s][j].hub
      => frames[s][i].reentrant

(* A call that reaches the original through the chain has been through     *)
(* every proxy that was enabled for as long as the call lasted, although   *)
(* the lists change under the traversals; and a call is passed to the      *)
(* original as recursive only from inside a proxy of the same function.    *)
NoProxyIsSkipped ==
  \A t \in Threads \ exiting : \A i \in 1 .. Len(act[t]) :
    LET a == act[t][i]
    IN a.pc = "orig" =>
         /\ a.via = "chain" => a.stable \subseteq a.visited
         /\ a.via = "recursive" => \E j \in 1 .. i - 1 : act[t][j].owns /\ act[t][j].hub = a.hub

(* No proxy runs twice in one call: the chain only moves forward in the    *)
(* list the call started with.                                             *)
ChainMovesForward ==
  \A t \in Threads : \A i \in 1 .. Len(act[t]) - 1 :
    LET a == act[t][i]
        b == act[t][i + 1]
    IN a.pc = "proxy" /\ b.ra = a.func /\ b.pc = "proxy" =>
         b.func \notin a.visited

(* A stack is marked as taken only while a thread has it: nothing leaks.   *)
NoStackLeaks == used \subseteq UNION {StacksOf(t) : t \in Threads}
=============================================================================
