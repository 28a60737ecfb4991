------------------------------- MODULE ShSwitch -------------------------------
(***************************************************************************)
(* The switches of ShadowHook (sh_switch.c, arch/arm64/sh_inst.c,          *)
(* sh_safe.c): one switch for each hooked function, kept in a tree under a *)
(* read-write lock.  Its parts come and go separately: the hub with its    *)
(* trampoline, the "enter" that holds the relocated head of the function,  *)
(* the jump written over the function's entry, and, for the libc functions *)
(* the hub itself calls, the slot of sh_safe.c that keeps those calls away *)
(* from the hub.  Threads run through hooked functions and look at none of *)
(* the locks.                                                              *)
(*                                                                         *)
(* A switch is a member of Sw; its hub and its enter go by the same name.  *)
(* The insides of the hub are ShHub's, the insides of the allocator that   *)
(* hands out enters and trampolines are ShTrampo's.                        *)
(***************************************************************************)
EXTENDS FiniteSets, Functions

CONSTANTS
  Callers,      (* threads that hook and unhook                             *)
  Runners,      (* threads that run through hooked functions                *)
  Targets, Proxies,
  LibOf,        (* per function: the library it lies in                     *)
  SafeTargets,  (* the functions of sh_safe_addrs                           *)
  Sw,           (* switches that exist at a time (bound)                    *)
  Modes,        (* the values of SHADOWHOOK_IS_UNIQUE_MODE to look at       *)
  Faults,       (* the steps that may fail                                  *)
  None          (* NULL, and the owner of a free lock                       *)

ASSUME SwitchAssumption ==
  /\ LibOf \in [Targets -> Range(LibOf)]
  /\ SafeTargets \subseteq Targets
  /\ Modes \subseteq BOOLEAN
  /\ Faults \subseteq {"alloc", "rewrite", "patch", "proxy", "restore"}
  /\ None \notin Sw \cup Callers

VARIABLES
  unique,  (* SHADOWHOOK_IS_UNIQUE_MODE, fixed by shadowhook_init()         *)
  lock,    (* the writer inside sh_switches_lock                            *)
  tree,    (* sh_switches: per function its switch                          *)
  code,    (* per function: the switch its first instructions jump to       *)
  safe,    (* per safe function: the enter in sh_safe_addrs[].orig_addr     *)
  obj,     (* per switch: the switch and its hub are free, live or retired  *)
  items,   (* per switch: the proxies in its hub's list, also the disabled  *)
  funcs,   (* per switch: the enabled ones (unique mode: the one proxy)     *)
  enter,   (* per switch: its enter is free, live, or freed and cooling     *)
  th,      (* per caller: where it is in hook or unhook                     *)
  result,  (* per caller: what its last operation returned                  *)
  run      (* per runner: the part of a switch it is executing              *)

vars  == <<unique, lock, tree, code, safe, obj, items, funcs, enter, th, result, run>>
parts == <<tree, code, safe, obj, items, funcs, enter>>
proxies == <<items, funcs>>

Idle == [pc |-> "idle"]
Out  == [pc |-> "out"]

At(c, pc)   == th[c].pc = pc
Goto(c, pc) == th' = [th EXCEPT ![c].pc = pc]

Return(c, r) ==
  /\ th' = [th EXCEPT ![c] = Idle]
  /\ result' = [result EXCEPT ![c] = r]

(* The outcomes of a step that may fail.                                   *)
Succeeds(step) == IF step \in Faults THEN BOOLEAN ELSE {TRUE}

(* A name nothing refers to any more.                                      *)
IsFresh(w) ==
  /\ obj[w] = "free" /\ enter[w] = "free"
  /\ \A t \in Targets : w \notin {code[t], tree[t], safe[t]}
  /\ \A c \in Callers : ~ At(c, "idle") => th[c].w # w
  /\ \A x \in Runners : run[x] # Out => run[x].w # w

Init ==
  /\ unique \in Modes
  /\ lock = None
  /\ tree = [t \in Targets |-> None]
  /\ code = [t \in Targets |-> None]
  /\ safe = [t \in Targets |-> None]
  /\ obj = [w \in Sw |-> "free"]
  /\ items = [w \in Sw |-> {}]
  /\ funcs = [w \in Sw |-> {}]
  /\ enter = [w \in Sw |-> "free"]
  /\ th = [c \in Callers |-> Idle]
  /\ result = [c \in Callers |-> "none"]
  /\ run = [x \in Runners |-> Out]

Begin(c, kind, t, p) ==
  /\ At(c, "idle")
  /\ th' = [th EXCEPT ![c] =
       [pc |-> IF kind = "hook" THEN "find" ELSE "lock", kind |-> kind,
        t |-> t, p |-> p, w |-> None, took |-> FALSE, res |-> "ok"]]
  /\ result' = [result EXCEPT ![c] = "none"]
  /\ UNCHANGED <<unique, lock, parts, run>>

----------------------------------------------------------------------------
(* sh_switch_hook().                                                       *)

(* sh_hub_add_proxy(): a proxy that is enabled is a duplicate, one that is *)
(* disabled is enabled again, a new one needs memory.                      *)
ResultsOfAdd(w, p) ==
  IF p \in funcs[w] THEN {"dup"}
  ELSE IF "proxy" \in Faults /\ p \notin items[w] THEN {"ok", "fail"} ELSE {"ok"}

AddProxy(w, p, r) ==
  IF r # "ok" THEN UNCHANGED proxies
  ELSE /\ items' = [items EXCEPT ![w] = @ \cup {p}]
       /\ funcs' = [funcs EXCEPT ![w] = @ \cup {p}]

(* Mutant: a switch that is found is joined in unique mode as well.        *)
HookFindJoins(c) ==
  LET w == tree[th[c].t]
      p == th[c].p
  IN /\ At(c, "find") /\ lock = None
     /\ IF w = None
        THEN Goto(c, "create") /\ UNCHANGED <<proxies, result>>
        ELSE \E r \in ResultsOfAdd(w, p) :
             /\ AddProxy(w, p, r)
             /\ th' = [th EXCEPT ![c].pc = "len", ![c].w = w]
             /\ result' = [result EXCEPT ![c] = r]
     /\ UNCHANGED <<unique, lock, tree, code, safe, obj, enter, run>>

(* Under the read lock: find the switch and join it, if there is one.      *)
HookFind(c) ==
  LET w == tree[th[c].t]
      p == th[c].p
  IN /\ At(c, "find") /\ lock = None
     /\ IF w = None
        THEN Goto(c, "create") /\ UNCHANGED <<proxies, result>>
        ELSE IF unique
        THEN Return(c, "dup") /\ UNCHANGED proxies
        ELSE \E r \in ResultsOfAdd(w, p) :
             /\ AddProxy(w, p, r)
             /\ th' = [th EXCEPT ![c].pc = "len", ![c].w = w]
             /\ result' = [result EXCEPT ![c] = r]
     /\ UNCHANGED <<unique, lock, tree, code, safe, obj, enter, run>>

(* After the unlock: *backup_len = self->inst.backup_len.                  *)
HookReadLen(c) ==
  /\ At(c, "len")
  /\ th' = [th EXCEPT ![c] = Idle]
  /\ UNCHANGED <<unique, lock, parts, result, run>>

(* sh_switch_create(), for shared mode with its hub, outside of any lock.  *)
HookCreate(c) ==
  /\ At(c, "create")
  /\ \/ /\ "alloc" \in Faults
        /\ Return(c, "fail")
        /\ UNCHANGED <<obj, funcs>>
     \/ \E w \in Sw :
        /\ IsFresh(w)
        /\ obj' = [obj EXCEPT ![w] = "live"]
        /\ funcs' = [funcs EXCEPT ![w] = IF unique THEN {th[c].p} ELSE {}]
        /\ th' = [th EXCEPT ![c].pc = "insert", ![c].w = w]
        /\ UNCHANGED result
  /\ UNCHANGED <<unique, lock, tree, code, safe, items, enter, run>>

(* Mutant: the switch that turns out useless is not destroyed.             *)
HookInsertLeaks(c) ==
  LET t == th[c].t
      p == th[c].p
  IN /\ At(c, "insert") /\ lock = None
     /\ IF tree[t] = None
        THEN /\ tree' = [tree EXCEPT ![t] = th[c].w]
             /\ lock' = c
             /\ Goto(c, "enter")
             /\ UNCHANGED <<proxies, result>>
        ELSE /\ IF unique
                THEN Return(c, "dup") /\ UNCHANGED proxies
                ELSE \E r \in ResultsOfAdd(tree[t], p) :
                       AddProxy(tree[t], p, r) /\ Return(c, r)
             /\ UNCHANGED <<lock, tree>>
     /\ UNCHANGED <<unique, code, safe, obj, enter, run>>

(* Take the write lock and RB_INSERT.  Another caller may have been faster:*)
(* the new switch is useless then and destroyed, which nobody has seen.    *)
HookInsert(c) ==
  LET t == th[c].t
      p == th[c].p
  IN /\ At(c, "insert") /\ lock = None
     /\ IF tree[t] = None
        THEN /\ tree' = [tree EXCEPT ![t] = th[c].w]
             /\ lock' = c
             /\ Goto(c, "enter")
             /\ UNCHANGED <<obj, proxies, result>>
        ELSE /\ obj' = [obj EXCEPT ![th[c].w] = "free"]
             /\ IF unique
                THEN Return(c, "dup") /\ UNCHANGED proxies
                ELSE \E r \in ResultsOfAdd(tree[t], p) :
                       AddProxy(tree[t], p, r) /\ Return(c, r)
             /\ UNCHANGED <<lock, tree>>
     /\ UNCHANGED <<unique, code, safe, enter, run>>

(* Mutant: RB_REMOVE is forgotten on the error path.                       *)
AbandonKeepsTree(c) ==
  /\ obj' = [obj EXCEPT ![th[c].w] = "free"]
  /\ lock' = None
  /\ Return(c, "fail")
  /\ UNCHANGED tree

(* The hook failed: out of the tree, unlock, destroy without delay.        *)
Abandon(c) ==
  /\ tree' = [tree EXCEPT ![th[c].t] = None]
  /\ obj' = [obj EXCEPT ![th[c].w] = "free"]
  /\ lock' = None
  /\ Return(c, "fail")

(* Mutant: the test for an empty slot is inverted.                         *)
HasOrig2Inverted(t, w) == t \in SafeTargets /\ safe[t] \notin {None, w}

(* Switch w publishes its enter in the slot of sh_safe.c: orig_addr2, which*)
(* in unique mode is passed only if the slot was empty.                    *)
HasOrig2(t, w) == t \in SafeTargets /\ (unique => safe[t] \in {None, w})

(* The end of sh_inst_hook() when both ways to hook have failed.           *)
HookFailed(c) ==
  LET t == th[c].t
      w == th[c].w
  IN /\ safe' = IF HasOrig2(t, w) THEN [safe EXCEPT ![t] = None] ELSE safe
     /\ enter' = [enter EXCEPT ![w] = "cooling"]
     /\ Abandon(c)

(* sh_inst_hook(): allocate an enter, ...                                  *)
HookEnter(c) ==
  /\ At(c, "enter")
  /\ \/ /\ enter' = [enter EXCEPT ![th[c].w] = "live"]
        /\ Goto(c, "rewrite")
        /\ UNCHANGED <<lock, tree, obj, result>>
     \/ /\ "alloc" \in Faults
        /\ Abandon(c)
        /\ UNCHANGED enter
  /\ UNCHANGED <<unique, code, safe, proxies, run>>

(* ... fill and publish it, first with an exit for a short jump, and if    *)
(* that fails once more for a long jump, ...                               *)
HookRewrite(c) ==
  LET t == th[c].t
      w == th[c].w
  IN /\ th[c].pc \in {"rewrite", "rewrite2"}
     /\ \E ok \in Succeeds("rewrite") :
          IF ok
          THEN /\ safe' = IF HasOrig2(t, w) THEN [safe EXCEPT ![t] = w] ELSE safe
               /\ Goto(c, IF At(c, "rewrite") THEN "patch" ELSE "patch2")
               /\ UNCHANGED <<lock, tree, obj, enter, result>>
          ELSE IF At(c, "rewrite")
          THEN Goto(c, "rewrite2") /\ UNCHANGED <<lock, tree, safe, obj, enter, result>>
          ELSE HookFailed(c)
     /\ UNCHANGED <<unique, code, proxies, run>>

(* ... then write the jump; from here on callers of the function arrive.   *)
HookPatch(c) ==
  /\ th[c].pc \in {"patch", "patch2"}
  /\ \E ok \in Succeeds("patch") :
       IF ok
       THEN /\ code' = [code EXCEPT ![th[c].t] = th[c].w]
            /\ IF unique THEN lock' = None /\ Return(c, "ok")
               ELSE Goto(c, "proxy") /\ UNCHANGED <<lock, result>>
            /\ UNCHANGED <<tree, safe, obj, enter>>
       ELSE /\ IF At(c, "patch")
               THEN Goto(c, "rewrite2") /\ UNCHANGED <<lock, tree, safe, obj, enter, result>>
               ELSE HookFailed(c)
            /\ UNCHANGED code
  /\ UNCHANGED <<unique, proxies, run>>

(* Shared mode: the first proxy.  If there is no memory for it, the inst   *)
(* is unhooked again, and the slot of sh_safe.c stays as it is.  Nobody    *)
(* asks whether the unhooking has worked.                                  *)
HookProxy(c) ==
  LET w == th[c].w
      restored == [code EXCEPT ![th[c].t] = None]
  IN /\ At(c, "proxy")
     /\ \E r \in ResultsOfAdd(w, th[c].p) :
          /\ AddProxy(w, th[c].p, r)
          /\ IF r = "ok"
             THEN /\ lock' = None
                  /\ Return(c, "ok")
                  /\ UNCHANGED <<tree, code, obj, enter>>
             ELSE /\ Abandon(c)
                  /\ \/ code' = restored /\ enter' = [enter EXCEPT ![w] = "cooling"]
                     \/ /\ "restore" \in Faults
                        /\ code' \in {code, restored}
                        /\ UNCHANGED enter
     /\ UNCHANGED <<unique, safe, run>>

----------------------------------------------------------------------------
(* sh_switch_unhook().                                                     *)

(* Mutant: any proxy takes the switch with it.                             *)
UnhookFindTakesAll(c) ==
  LET w == tree[th[c].t]
  IN /\ At(c, "lock") /\ lock = None
     /\ IF w = None \/ (~ unique /\ th[c].p \notin items[w])
        THEN Return(c, "notfound") /\ UNCHANGED <<lock, funcs>>
        ELSE /\ funcs' = [funcs EXCEPT ![w] = {}]
             /\ lock' = c
             /\ th' = [th EXCEPT ![c].pc = "restore", ![c].w = w, ![c].took = TRUE]
             /\ UNCHANGED result
     /\ UNCHANGED <<unique, tree, code, safe, obj, items, enter, run>>

(* Take the write lock, find the switch; in shared mode sh_hub_del_proxy() *)
(* disables the proxy, and finds one that is disabled as well.  The last   *)
(* enabled one takes the switch with it, and the lock is kept.             *)
UnhookFind(c) ==
  LET w == tree[th[c].t]
      p == th[c].p
      left == IF unique THEN {} ELSE funcs[w] \ {p}
  IN /\ At(c, "lock") /\ lock = None
     /\ IF w = None \/ (~ unique /\ p \notin items[w])
        THEN Return(c, "notfound") /\ UNCHANGED <<lock, funcs>>
        ELSE /\ funcs' = IF unique THEN funcs ELSE [funcs EXCEPT ![w] = left]
             /\ IF left # {}
                THEN Return(c, "ok") /\ UNCHANGED lock
                ELSE /\ lock' = c
                     /\ th' = [th EXCEPT ![c].pc = "restore", ![c].w = w, ![c].took = TRUE]
                     /\ UNCHANGED result
     /\ UNCHANGED <<unique, tree, code, safe, obj, items, enter, run>>

(* sh_inst_unhook(): put the instructions back, unless what is there is    *)
(* not what was written.  After an error, there or in giving back the exit,*)
(* the enter is not freed.                                                 *)
UnhookRestore(c) ==
  LET restored == [code EXCEPT ![th[c].t] = None]
  IN /\ At(c, "restore")
     /\ \/ code' = restored /\ Goto(c, "free")
        \/ /\ "restore" \in Faults
           /\ code' \in {code, restored}
           /\ th' = [th EXCEPT ![c].pc = "clear", ![c].res = "fail"]
     /\ UNCHANGED <<unique, lock, tree, safe, obj, proxies, enter, result, run>>

UnhookFree(c) ==
  /\ At(c, "free")
  /\ enter' = [enter EXCEPT ![th[c].w] = "cooling"]
  /\ Goto(c, "clear")
  /\ UNCHANGED <<unique, lock, tree, code, safe, obj, proxies, result, run>>

(* Empty the slot of sh_safe.c, remove from the tree, unlock ...           *)
UnhookClear(c) ==
  /\ At(c, "clear")
  /\ safe' = [safe EXCEPT ![th[c].t] = None]
  /\ tree' = [tree EXCEPT ![th[c].t] = None]
  /\ lock' = None
  /\ Goto(c, "destroy")
  /\ UNCHANGED <<unique, code, obj, proxies, enter, result, run>>

(* Mutant: hub_with_delay is false.                                        *)
UnhookDestroyAtOnce(c) ==
  /\ At(c, "destroy")
  /\ obj' = [obj EXCEPT ![th[c].w] = "free"]
  /\ Return(c, th[c].res)
  /\ UNCHANGED <<unique, lock, tree, code, safe, proxies, enter, run>>

(* ... and destroy the switch; a hub is kept for SH_HUB_DELAY_SEC.         *)
UnhookDestroy(c) ==
  /\ At(c, "destroy")
  /\ obj' = [obj EXCEPT ![th[c].w] = IF unique THEN "free" ELSE "retired"]
  /\ Return(c, th[c].res)
  /\ UNCHANGED <<unique, lock, tree, code, safe, proxies, enter, run>>

----------------------------------------------------------------------------
(* sh_switch_free_after_dlclose(), one critical section, and the unmapping *)
(* that follows.  The program has stopped using the library: no thread is  *)
(* in its functions or hooks them.                                         *)
Dlclose(lib) ==
  LET gone == {w \in Sw : \E t \in Targets : LibOf[t] = lib /\ tree[t] = w}
      Forget(f) == [t \in Targets |-> IF LibOf[t] = lib THEN None ELSE f[t]]
  IN /\ lock = None /\ gone # {}
     /\ \A t \in SafeTargets : LibOf[t] # lib
     /\ \A c \in Callers : ~ At(c, "idle") => LibOf[th[c].t] # lib
     /\ \A x \in Runners : run[x] # Out => LibOf[run[x].t] # lib
     /\ tree' = Forget(tree)
     /\ code' = Forget(code)
     /\ enter' = [w \in Sw |-> IF w \in gone THEN "cooling" ELSE enter[w]]
     /\ obj' = [w \in Sw |-> IF w \in gone THEN "free" ELSE obj[w]]
     /\ items' = [w \in Sw |-> IF w \in gone THEN {} ELSE items[w]]
     /\ funcs' = [w \in Sw |-> IF w \in gone THEN {} ELSE funcs[w]]
     /\ UNCHANGED <<unique, lock, safe, th, result, run>>

(* The delays run out.  No call of a hooked function lasts as long as they *)
(* do, nor does the critical section that clears the slot of sh_safe.c.    *)
(* What the delay of the allocator guarantees is ShTrampo's theorem.       *)
Reap(w) ==
  /\ obj[w] = "retired"
  /\ \A x \in Runners : run[x].pc \in {"hub", "proxy"} => run[x].w # w
  /\ obj' = [obj EXCEPT ![w] = "free"]
  /\ items' = [items EXCEPT ![w] = {}]
  /\ UNCHANGED <<unique, lock, tree, code, safe, funcs, enter, th, result, run>>

CoolEnter(w) ==
  /\ enter[w] = "cooling"
  /\ \A x \in Runners : run[x] # Out => run[x].w # w
  /\ \A c \in Callers : At(c, "clear") => th[c].w # w
  /\ enter' = [enter EXCEPT ![w] = "free"]
  /\ UNCHANGED <<unique, lock, tree, code, safe, obj, proxies, th, result, run>>

----------------------------------------------------------------------------
(* Threads that run through the functions.                                 *)
Running(x, pc) == run[x].pc = pc
Enters(x, pc, t, w) == run' = [run EXCEPT ![x] = [pc |-> pc, t |-> t, w |-> w]]

Call(x, t) ==
  /\ Running(x, "out") /\ code[t] # None
  /\ Enters(x, IF unique THEN "proxy" ELSE "hub", t, code[t])
  /\ UNCHANGED <<unique, lock, parts, th, result>>

(* sh_hub_push_stack(): to the first proxy, or to hub->orig_addr.          *)
Push(x) ==
  /\ Running(x, "hub")
  /\ Enters(x, IF funcs[run[x].w] = {} THEN "enter" ELSE "proxy", run[x].t, run[x].w)
  /\ UNCHANGED <<unique, lock, parts, th, result>>

CallOriginal(x) ==
  /\ Running(x, "proxy")
  /\ Enters(x, "enter", run[x].t, run[x].w)
  /\ UNCHANGED <<unique, lock, parts, th, result>>

Leave(x) ==
  /\ run[x].pc \in {"proxy", "enter"}
  /\ run' = [run EXCEPT ![x] = Out]
  /\ UNCHANGED <<unique, lock, parts, th, result>>

(* The hub's own call of a safe function: load the slot, jump.  (With an   *)
(* empty slot it is a Call like any other.)                                *)
SafeLoad(x, t) ==
  /\ Running(x, "out") /\ safe[t] # None
  /\ Enters(x, "safe", t, safe[t])
  /\ UNCHANGED <<unique, lock, parts, th, result>>

SafeJump(x) ==
  /\ Running(x, "safe")
  /\ Enters(x, "enter", run[x].t, run[x].w)
  /\ UNCHANGED <<unique, lock, parts, th, result>>

CallerStep(c) ==
  \/ \E kind \in {"hook", "unhook"}, t \in Targets, p \in Proxies : Begin(c, kind, t, p)
  \/ HookFind(c) \/ HookReadLen(c) \/ HookCreate(c) \/ HookInsert(c)
  \/ HookEnter(c) \/ HookRewrite(c) \/ HookPatch(c) \/ HookProxy(c)
  \/ UnhookFind(c) \/ UnhookRestore(c) \/ UnhookFree(c)
  \/ UnhookClear(c) \/ UnhookDestroy(c)

RunnerStep(x) ==
  \/ \E t \in Targets : Call(x, t) \/ SafeLoad(x, t)
  \/ Push(x) \/ CallOriginal(x) \/ Leave(x) \/ SafeJump(x)

Next ==
  \/ \E c \in Callers : CallerStep(c)
  \/ \E x \in Runners : RunnerStep(x)
  \/ \E w \in Sw : Reap(w) \/ CoolEnter(w)
  \/ \E lib \in Range(LibOf) : Dlclose(lib)

Spec == Init /\ [][Next]_vars

----------------------------------------------------------------------------
Inserted  == {"enter", "rewrite", "patch", "rewrite2", "patch2", "proxy"}
HookPcs   == {"find", "len", "create", "insert"} \cup Inserted
UnhookPcs == {"lock", "restore", "free", "clear", "destroy"}
Results   == {"none", "ok", "dup", "notfound", "fail"}

(* Switches of unique mode are made without a hub: they have no list of    *)
(* proxies, nobody adds a first one, and nothing is kept of them.          *)
WithoutHubs ==
  /\ \A w \in Sw : items[w] = {} /\ obj[w] # "retired"
  /\ \A c \in Callers : ~ At(c, "proxy")

(* Types of the state, of the hubs according to the mode.                  *)
TypeOK ==
  /\ unique \in Modes
  /\ lock \in Callers \cup {None}
  /\ tree \in [Targets -> Sw \cup {None}]
  /\ code \in [Targets -> Sw \cup {None}]
  /\ safe \in [Targets -> Sw \cup {None}]
  /\ obj \in [Sw -> {"free", "live", "retired"}]
  /\ items \in [Sw -> SUBSET Proxies] /\ funcs \in [Sw -> SUBSET Proxies]
  /\ enter \in [Sw -> {"free", "live", "cooling"}]
  /\ th \in [Callers -> {Idle} \cup
       [pc : HookPcs \cup UnhookPcs, kind : {"hook", "unhook"}, t : Targets,
        p : Proxies, w : Sw \cup {None}, took : BOOLEAN, res : Results]]
  /\ result \in [Callers -> Results]
  /\ run \in [Runners -> {Out} \cup
       [pc : {"hub", "proxy", "enter", "safe"}, t : Targets, w : Sw]]
  /\ unique => WithoutHubs

(* The tree and the code of the functions agree: an entry is patched only  *)
(* for the switch in the tree, and whenever the lock is free every switch  *)
(* in the tree is patched in, has a live enter, and has a proxy to call.   *)
TreeMirrorsCode ==
  \A t \in Targets :
    /\ code[t] # None => tree[t] = code[t] /\ obj[code[t]] = "live"
    /\ lock = None /\ tree[t] # None =>
         code[t] = tree[t] /\ enter[tree[t]] = "live" /\ funcs[tree[t]] # {}

(* Nobody runs in memory that has been given back: a thread in a hub or a  *)
(* proxy (which asks the hub for the next link) finds the hub there, and   *)
(* one that is about to run the original function finds its enter.         *)
RunnersStayAlive ==
  \A x \in Runners :
    /\ ~ unique /\ run[x].pc \in {"hub", "proxy"} => obj[run[x].w] # "free"
    /\ run[x].pc \in {"enter", "safe"} => enter[run[x].w] # "free"

(* While a function that the hub itself calls is hooked, its slot leads to *)
(* the enter of that hook, so that the hub does not call itself.           *)
SafeCallsBypassHook ==
  \A t \in SafeTargets : code[t] # None => safe[t] = code[t] /\ enter[safe[t]] = "live"

(* Nothing leaks: when no caller is inside of an operation, the switches   *)
(* and enters that are live are those of the tree.                         *)
NothingLeaks ==
  (\A c \in Callers : At(c, "idle")) =>
    \A w \in Sw : "live" \in {obj[w], enter[w]} => \E t \in Targets : tree[t] = w

(* What sh_switch_hook_shared() marks with "SYNC(read) - start" and "end"  *)
(* is all it reads of a switch that another caller may remove.             *)
ReadsAreSynced == \A c \in Callers : At(c, "len") => obj[th[c].w] = "live"

(* The switches implement the registry: hook and unhook are atomic, and    *)
(* report what they did.  A hook under way is not seen before its unlock,  *)
(* and one that only has the length left to read has returned.             *)
MidHook(t) ==
  \E c \in Callers : th[c].pc \in Inserted /\ th[c].t = t
MidUnhook(t) ==
  \E c \in Callers : th[c].pc \in {"restore", "free", "clear"} /\ th[c].t = t

HookedView == [t \in Targets |->
  IF tree[t] = None \/ MidHook(t) \/ MidUnhook(t) THEN {} ELSE funcs[tree[t]]]

OpView == [c \in Callers |->
  IF th[c].pc \in {"idle", "len"} THEN [kind |-> "idle"]
  ELSE [kind |-> th[c].kind, t |-> th[c].t, p |-> th[c].p, took |-> th[c].took]]

Registry == INSTANCE HookRegistry WITH hooked <- HookedView, op <- OpView

ImplementsRegistry == Registry!Spec
===============================================================================
