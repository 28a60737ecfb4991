-------------------------------- MODULE ShTask --------------------------------
(***************************************************************************)
(* The tasks of ShadowHook (sh_task.c) and the linker monitor that drives  *)
(* them (sh_linker.c).  shadowhook_hook_*() makes a task; if its library   *)
(* is not there yet, the task waits in a queue until the linker is about   *)
(* to run the constructors of a library of that name.  When a library is   *)
(* closed, its switches are freed and its tasks go back to waiting.        *)
(* shadowhook_init() sets this up once, while libraries come and go.       *)
(*                                                                         *)
(* dlopen() and dlclose() run under the linker's g_dl_mutex, and so does   *)
(* the search for a library by name; everything else that hooking threads  *)
(* do interleaves with them.  Each library has one function to hook.  What *)
(* sh_switch_hook() and sh_switch_unhook() do to it is reduced to what     *)
(* ShSwitch shows of them: they are atomic.                                *)
(***************************************************************************)
EXTENDS ShSoinfo, SequencesExt

CONSTANTS
  Clients,    (* threads that hook and unhook, each with one stub at a time *)
  Libs,
  Modes,      (* the modes callers of shadowhook_init() ask for: unique or  *)
              (* not                                                        *)
  Opens,      (* what may become of the load of libmyhook.so in             *)
              (* sh_linker_init(): it is the "first", one "again", or it    *)
              (* "fails" and nothing is scanned                             *)
  Soinfos,    (* what the soinfo of a library may look like that is loaded  *)
              (* for the first time, and where its fields are in there      *)
  Calm,       (* the program opens and closes no library while a hook call  *)
              (* for it is in progress, nor with stubs by address in it     *)
  Faults,     (* what may fail for lack of memory: the "search" for a       *)
              (* library, which then looks as if the library was not there  *)
  None

Task == [lib : Libs, byName : BOOLEAN, addr : Libs \cup {None},
         finished : BOOLEAN, error : BOOLEAN]

ASSUME TaskAssumption ==
  /\ Modes \cup {Calm} \subseteq BOOLEAN
  /\ Opens \subseteq {"first", "again", "fails"}
  /\ Faults \subseteq {"search"}
  /\ None \notin Libs \cup Clients \cup Task

ASSUME SoinfosAssumption ==
  \A soinfo \in Soinfos :
    /\ DOMAIN soinfo = {"mem", "phdr", "bias"}
    /\ HasFields(soinfo.mem, soinfo.phdr, soinfo.bias)

VARIABLES
  loaded,    (* per library: "no", "mapped" or "open" (constructors ran)    *)
  tree,      (* per library: the tasks whose proxy is in the switch         *)
  patched,   (* libraries whose function, as it is mapped now, is patched   *)
  task,      (* per client: its sh_task_t, or None                          *)
  pc,        (* per client: where it is in hook or unhook                   *)
  queue,     (* sh_tasks                                                    *)
  cnt,       (* sh_tasks_unfinished_cnt                                     *)
  linker,    (* the thread that holds g_dl_mutex                            *)
  initErrno, (* shadowhook_init_errno: "uninit", "ok" or "error"            *)
  unique,    (* shadowhook_mode                                             *)
  proxies,   (* which functions of the linker are hooked                    *)
  scanTid,   (* sh_linker_soinfo_offset_scan_tid                            *)
  scanOk,    (* sh_linker_soinfo_offset_scan_ok                             *)
  offsets,   (* sh_linker_soinfo_offset_*, counted from where the fields are*)
  cbs        (* the non-empty lists of callbacks at loads and unloads       *)

boot == <<initErrno, unique, proxies, scanTid, scanOk, offsets, cbs>>
vars == <<loaded, tree, patched, task, pc, queue, cnt, linker, boot>>

NoLinker == [pc |-> "none", lib |-> None]

NewTask(lib, byName) ==
  [lib |-> lib, byName |-> byName, addr |-> IF byName THEN None ELSE lib,
   finished |-> FALSE, error |-> FALSE]

Queued     == Range(queue)
Iterating  == linker.pc = "pending"      (* holds sh_tasks_lock for reading *)
InProgress == {"lookup", "hook", "insert", "unhook"}
InitPcs    == {"hookctors", "hookdtors", "scan", "scanned", "register"}

(* What a calm program avoids to do dlopen() and dlclose() in.             *)
Busy(lib) ==
  \E c \in Clients : /\ task[c] # None /\ task[c].lib = lib
                     /\ pc[c] \in InProgress \/ ~ task[c].byName

Init ==
  /\ loaded = [l \in Libs |-> "no"]
  /\ tree = [l \in Libs |-> {}]
  /\ patched = {}
  /\ task = [c \in Clients |-> None]
  /\ pc = [c \in Clients |-> "idle"]
  /\ queue = <<>>
  /\ cnt = 0
  /\ linker = NoLinker
  /\ initErrno = "uninit"
  /\ unique = FALSE
  /\ proxies = {}
  /\ scanTid = None
  /\ scanOk = FALSE
  /\ offsets = [phdr |-> NotFound, bias |-> NotFound]
  /\ cbs = {}

----------------------------------------------------------------------------
(* shadowhook_init(): unless somebody has finished it, take its mutex ...  *)
InitCall(c) ==
  /\ pc[c] = "idle" /\ initErrno = "uninit"
  /\ pc' = [pc EXCEPT ![c] = "initlock"]
  /\ UNCHANGED <<loaded, tree, patched, task, queue, cnt, linker, boot>>

Initialising == {c \in Clients : pc[c] \in InitPcs}     (* holds the mutex *)

(* Mutant: what was read before the mutex was taken is not read again.     *)
InitLockUnchecked(c) ==
  /\ pc[c] = "initlock" /\ Initialising = {}
  /\ unique' \in Modes
  /\ pc' = [pc EXCEPT ![c] = "hookctors"]
  /\ UNCHANGED <<loaded, tree, patched, task, queue, cnt, linker,
                 initErrno, proxies, scanTid, scanOk, offsets, cbs>>

(* ... and look again, as somebody may have finished it by now.            *)
InitLock(c) ==
  /\ pc[c] = "initlock" /\ Initialising = {}
  /\ IF initErrno = "uninit"
     THEN unique' \in Modes /\ pc' = [pc EXCEPT ![c] = "hookctors"]
     ELSE pc' = [pc EXCEPT ![c] = "idle"] /\ UNCHANGED unique
  /\ UNCHANGED <<loaded, tree, patched, task, queue, cnt, linker,
                 initErrno, proxies, scanTid, scanOk, offsets, cbs>>

(* The result is set and the mutex given back; there is no second attempt, *)
(* and what has been done so far stays.                                    *)
InitFinish(c, errno) ==
  /\ initErrno' = errno
  /\ pc' = [pc EXCEPT ![c] = "idle"]

(* sh_linker_init(): hook soinfo::call_constructors(), then                *)
(* soinfo::call_destructors().  On 64-bit systems this does not hold       *)
(* g_dl_mutex: libraries come and go meanwhile.  (The first failure is     *)
(* also that of any part that is initialised before the linker.)           *)
InitHook(c) ==
  \E this \in {"hookctors", "hookdtors"} :
    /\ pc[c] = this
    /\ \/ /\ proxies' = proxies \cup {IF this = "hookctors" THEN "ctors" ELSE "dtors"}
          /\ pc' = [pc EXCEPT ![c] = IF this = "hookctors" THEN "hookdtors" ELSE "scan"]
          /\ UNCHANGED initErrno
       \/ /\ InitFinish(c, "error")
          /\ UNCHANGED proxies
    /\ UNCHANGED <<loaded, tree, patched, task, queue, cnt, linker,
                   unique, scanTid, scanOk, offsets, cbs>>

(* Announce the scan, load libmyhook.so, and withdraw the announcement.    *)
ScanStart(c) ==
  /\ pc[c] = "scan" /\ scanTid = None
  /\ scanTid' = c
  /\ UNCHANGED <<loaded, tree, patched, task, pc, queue, cnt, linker,
                 initErrno, unique, proxies, scanOk, offsets, cbs>>

(* The proxy of call_constructors() scans the soinfo, calls the original,  *)
(* which sets constructors_called, and looks whether that is the word it   *)
(* has found.  In a library that was loaded before the word is not zero    *)
(* when it is looked for.  A failed load, or scan, is no error.            *)
ScanLoad(c) ==
  /\ pc[c] = "scan" /\ scanTid = c /\ linker.pc = "none"
  /\ \E open \in Opens, soinfo \in Soinfos :
       LET after == [soinfo.mem EXCEPT ![soinfo.bias + 5] = "other"]
           found == Scan(IF open = "first" THEN soinfo.mem ELSE after)
       IN IF open = "fails"
          THEN UNCHANGED <<offsets, scanOk>>
          ELSE /\ offsets' = [field \in DOMAIN offsets |->
                    IF found[field] = NotFound THEN NotFound ELSE found[field] - soinfo[field]]
               /\ scanOk' = /\ NotFound \notin {found.phdr, found.bias}
                            /\ after[found.bias + 5] # "zero"
  /\ pc' = [pc EXCEPT ![c] = "scanned"]
  /\ UNCHANGED <<loaded, tree, patched, task, queue, cnt, linker,
                 initErrno, unique, proxies, scanTid, cbs>>

(* Mutant: initialisation is reported as done before the tasks have        *)
(* registered their callbacks.                                             *)
ScanEndReports(c) ==
  /\ pc[c] = "scanned"
  /\ scanTid' = None
  /\ initErrno' = "ok"
  /\ pc' = [pc EXCEPT ![c] = "register"]
  /\ UNCHANGED <<loaded, tree, patched, task, queue, cnt, linker,
                 unique, proxies, scanOk, offsets, cbs>>

ScanEnd(c) ==
  /\ pc[c] = "scanned"
  /\ scanTid' = None
  /\ pc' = [pc EXCEPT ![c] = "register"]
  /\ UNCHANGED <<loaded, tree, patched, task, queue, cnt, linker,
                 initErrno, unique, proxies, scanOk, offsets, cbs>>

(* sh_task_init(): register for loads, then for unloads; each may fail for *)
(* lack of memory.                                                         *)
Register(c) ==
  /\ pc[c] = "register"
  /\ \/ /\ cbs' = IF "init" \in cbs THEN cbs \cup {"fini"} ELSE {"init"}
        /\ IF "init" \in cbs THEN InitFinish(c, "ok") ELSE UNCHANGED <<initErrno, pc>>
     \/ /\ InitFinish(c, "error")
        /\ UNCHANGED cbs
  /\ UNCHANGED <<loaded, tree, patched, task, queue, cnt, linker,
                 unique, proxies, scanTid, scanOk, offsets>>

----------------------------------------------------------------------------
(* sh_switch_hook() for the function of lib.  An existing switch is joined *)
(* (or refuses, in unique mode) whatever has become of the library.        *)
Accepts(lib, c) ==
  IF tree[lib] = {} THEN loaded[lib] # "no" ELSE ~ unique /\ c \notin tree[lib]

SwitchHook(lib, c) ==
  /\ tree' = [tree EXCEPT ![lib] = @ \cup {c}]
  /\ patched' = IF tree[lib] = {} THEN patched \cup {lib} ELSE patched

(* sh_switch_unhook(): in unique mode it takes away whatever is there.     *)
SwitchUnhook(lib, c) ==
  LET left == IF unique THEN {} ELSE tree[lib] \ {c}
  IN /\ tree' = [tree EXCEPT ![lib] = left]
     /\ patched' = IF left = {} /\ tree[lib] # {} THEN patched \ {lib} ELSE patched

----------------------------------------------------------------------------
(* shadowhook_hook_*(): make a task, by name or by the address of a        *)
(* function that the caller has at hand.                                   *)
HookStart(c, lib, byName) ==
  /\ pc[c] = "idle" /\ initErrno = "ok"
  /\ ~ byName => loaded[lib] = "open"
  /\ task' = [task EXCEPT ![c] = NewTask(lib, byName)]
  /\ pc' = [pc EXCEPT ![c] = "lookup"]
  /\ UNCHANGED <<loaded, tree, patched, queue, cnt, linker, boot>>

Give(c) ==
  /\ task' = [task EXCEPT ![c] = None]
  /\ pc' = [pc EXCEPT ![c] = "idle"]

(* Search the library.  It is not there, or seems so: PENDING (or for an   *)
(* address: an error).  It has no such symbol: an error.                   *)
HookLookup(c) ==
  LET lib == task[c].lib
  IN /\ pc[c] = "lookup" /\ linker.pc = "none"
     /\ \/ /\ loaded[lib] # "no"
           /\ task' = [task EXCEPT ![c].addr = lib]
           /\ pc' = [pc EXCEPT ![c] = "hook"]
        \/ /\ loaded[lib] = "no" \/ "search" \in Faults
           /\ task[c].byName
           /\ pc' = [pc EXCEPT ![c] = "insert"]
           /\ UNCHANGED task
        \/ /\ task[c].byName => loaded[lib] # "no"
           /\ Give(c)
     /\ UNCHANGED <<loaded, tree, patched, queue, cnt, linker, boot>>

HookSwitch(c) ==
  LET lib == task[c].lib
  IN /\ pc[c] = "hook"
     /\ \/ /\ Accepts(lib, c)
           /\ SwitchHook(lib, c)
           /\ task' = [task EXCEPT ![c].finished = TRUE]
           /\ pc' = [pc EXCEPT ![c] = "insert"]
        \/ /\ Give(c)
           /\ UNCHANGED <<tree, patched>>
     /\ UNCHANGED <<loaded, queue, cnt, linker, boot>>

(* OK or PENDING: into the queue, under the write lock.                    *)
HookInsert(c) ==
  /\ pc[c] = "insert" /\ ~ Iterating
  /\ queue' = Append(queue, c)
  /\ cnt' = IF task[c].finished THEN cnt ELSE cnt + 1
  /\ pc' = [pc EXCEPT ![c] = "stub"]
  /\ UNCHANGED <<loaded, tree, patched, task, linker, boot>>

(* TAILQ_REMOVE: the queue without the task of c.                          *)
Without(c) == RemoveAt(queue, CHOOSE i \in DOMAIN queue : queue[i] = c)

(* Mutant: the counter goes down for finished tasks as well.               *)
UnhookRemoveCountsAll(c) ==
  /\ pc[c] = "stub" /\ ~ Iterating
  /\ queue' = Without(c)
  /\ cnt' = cnt - 1
  /\ pc' = [pc EXCEPT ![c] = "unhook"]
  /\ UNCHANGED <<loaded, tree, patched, task, linker, boot>>

(* Mutant: the queue is changed without the lock.                          *)
UnhookRemoveUnlocked(c) ==
  /\ pc[c] = "stub"
  /\ queue' = Without(c)
  /\ cnt' = IF task[c].finished THEN cnt ELSE cnt - 1
  /\ pc' = [pc EXCEPT ![c] = "unhook"]
  /\ UNCHANGED <<loaded, tree, patched, task, linker, boot>>

(* shadowhook_unhook(): out of the queue under the write lock ...          *)
UnhookRemove(c) ==
  /\ pc[c] = "stub" /\ ~ Iterating
  /\ queue' = Without(c)
  /\ cnt' = IF task[c].finished THEN cnt ELSE cnt - 1
  /\ pc' = [pc EXCEPT ![c] = "unhook"]
  /\ UNCHANGED <<loaded, tree, patched, task, linker, boot>>

(* ... then, if it was hooked without an error, unhook; free the task.     *)
UnhookSwitch(c) ==
  LET lib == task[c].lib
  IN /\ pc[c] = "unhook"
     /\ IF task[c].error \/ ~ task[c].finished
        THEN UNCHANGED <<tree, patched>>
        ELSE SwitchUnhook(lib, c)
     /\ Give(c)
     /\ UNCHANGED <<loaded, queue, cnt, linker, boot>>

----------------------------------------------------------------------------
(* dlopen(): map the library, run the hooked soinfo::call_constructors().  *)
(* `seen` is a history variable: what was in the queue for it at that time,*)
(* except for tasks whose search has failed since.                         *)
Dlopen(lib) ==
  /\ linker.pc = "none" /\ loaded[lib] = "no"
  /\ Calm => ~ Busy(lib)
  /\ loaded' = [loaded EXCEPT ![lib] = "mapped"]
  /\ linker' = [pc |-> "init", lib |-> lib, todo |-> <<>>,
                seen |-> {k \in Queued : task[k].lib = lib}]
  /\ UNCHANGED <<tree, patched, task, pc, queue, cnt, boot>>

(* What the proxies of the linker test before they call anybody back: both *)
(* look at the list for loads.                                             *)
CallsBack(proxy) ==
  proxy \in proxies /\ scanTid = None /\ scanOk /\ "init" \in cbs

(* Mutant: a single waiting task is overlooked.                            *)
InitPreOffByOne ==
  /\ linker.pc = "init"
  /\ linker' = IF CallsBack("ctors") /\ cnt > 1
               THEN [linker EXCEPT !.pc = "rdlock"]
               ELSE [linker EXCEPT !.pc = "ctors"]
  /\ UNCHANGED <<loaded, tree, patched, task, pc, queue, cnt, boot>>

(* sh_task_dl_init_pre(), which the proxy of call_constructors calls once  *)
(* it knows the layout of soinfo: is anything unfinished?  The list then   *)
(* stays as it is while it is gone through.                                *)
InitPre ==
  /\ linker.pc = "init"
  /\ linker' = IF CallsBack("ctors") /\ cnt > 0
               THEN [linker EXCEPT !.pc = "rdlock"]
               ELSE [linker EXCEPT !.pc = "ctors"]
  /\ UNCHANGED <<loaded, tree, patched, task, pc, queue, cnt, boot>>

PendingStart ==
  /\ linker.pc = "rdlock"
  /\ linker' = [linker EXCEPT !.pc = "pending", !.todo = queue]
  /\ UNCHANGED <<loaded, tree, patched, task, pc, queue, cnt, boot>>

Matches(k) == ~ task[k].finished /\ task[k].lib = linker.lib

(* Mutant: the walk stops at the first task it has tried.                  *)
PendingStepOnce ==
  LET k == Head(linker.todo)
      lib == linker.lib
  IN /\ Iterating /\ linker.todo # <<>>
     /\ IF Matches(k)
        THEN /\ Accepts(lib, k)
             /\ SwitchHook(lib, k)
             /\ task' = [task EXCEPT ![k].finished = TRUE, ![k].addr = lib]
             /\ cnt' = cnt - 1
             /\ linker' = [linker EXCEPT !.pc = "ctors", !.todo = <<>>]
        ELSE /\ linker' = [linker EXCEPT !.todo = Tail(@)]
             /\ UNCHANGED <<tree, patched, task, cnt>>
     /\ UNCHANGED <<loaded, pc, queue, boot>>

(* sh_task_hook_pending(): the next task of the queue.  If the search for  *)
(* it fails it is left as it is, for the next load (its target_addr is not *)
(* looked at until then); if anything else fails it is not tried again.    *)
PendingStep ==
  LET k == Head(linker.todo)
      lib == linker.lib
      next == [linker EXCEPT !.todo = Tail(@)]
  IN /\ Iterating /\ linker.todo # <<>>
     /\ \/ /\ Matches(k)
           /\ \/ /\ Accepts(lib, k)
                 /\ SwitchHook(lib, k)
                 /\ task' = [task EXCEPT ![k].finished = TRUE, ![k].addr = lib]
              \/ \E addr \in {lib, None} :
                 /\ task' = [task EXCEPT ![k].finished = TRUE, ![k].addr = addr,
                                         ![k].error = TRUE]
                 /\ UNCHANGED <<tree, patched>>
           /\ cnt' = cnt - 1
           /\ linker' = IF cnt = 1 THEN [linker EXCEPT !.pc = "ctors", !.todo = <<>>] ELSE next
        \/ /\ Matches(k) /\ "search" \in Faults
           /\ linker' = [next EXCEPT !.seen = @ \ {k}]
           /\ UNCHANGED <<tree, patched, task, cnt>>
        \/ /\ ~ Matches(k)
           /\ linker' = next
           /\ UNCHANGED <<tree, patched, task, cnt>>
     /\ UNCHANGED <<loaded, pc, queue, boot>>

PendingEnd ==
  /\ Iterating /\ linker.todo = <<>>
  /\ linker' = [linker EXCEPT !.pc = "ctors"]
  /\ UNCHANGED <<loaded, tree, patched, task, pc, queue, cnt, boot>>

(* Mutant: g_dl_mutex stays locked.                                        *)
DlopenEndLocked ==
  /\ linker.pc = "ctors"
  /\ loaded' = [loaded EXCEPT ![linker.lib] = "open"]
  /\ linker' = [linker EXCEPT !.pc = "done"]
  /\ UNCHANGED <<tree, patched, task, pc, queue, cnt, boot>>

DlopenEnd ==
  /\ linker.pc = "ctors"
  /\ loaded' = [loaded EXCEPT ![linker.lib] = "open"]
  /\ linker' = NoLinker
  /\ UNCHANGED <<tree, patched, task, pc, queue, cnt, boot>>

(* dlclose(): the destructors run, then sh_task_dl_fini_post().            *)
Dlclose(lib) ==
  /\ linker.pc = "none" /\ loaded[lib] = "open"
  /\ Calm => ~ Busy(lib)
  /\ linker' = [pc |-> IF CallsBack("dtors") THEN "fini" ELSE "unmap", lib |-> lib]
  /\ UNCHANGED <<loaded, tree, patched, task, pc, queue, cnt, boot>>

(* Mutant: the switches stay.                                              *)
FreeSwitchesKeepsThem ==
  /\ linker.pc = "fini"
  /\ linker' = [linker EXCEPT !.pc = "reset"]
  /\ UNCHANGED <<loaded, tree, patched, task, pc, queue, cnt, boot>>

(* sh_task_dl_fini_post(), if it is registered by now: first               *)
(* sh_switch_free_after_dlclose().                                         *)
FreeSwitches ==
  /\ linker.pc = "fini"
  /\ IF "fini" \in cbs
     THEN /\ tree' = [tree EXCEPT ![linker.lib] = {}]
          /\ linker' = [linker EXCEPT !.pc = "reset"]
     ELSE /\ linker' = [linker EXCEPT !.pc = "unmap"]
          /\ UNCHANGED tree
  /\ UNCHANGED <<loaded, patched, task, pc, queue, cnt, boot>>

(* Mutant: tasks by address are made to wait as well.                      *)
ToResetAll == {k \in Queued : task[k].finished /\ task[k].addr = linker.lib}

(* The tasks that were hooked in the library by name wait again.           *)
ToReset == {k \in Queued : task[k].finished /\ task[k].byName /\ task[k].addr = linker.lib}

(* Mutant: the finished flag is left alone.                                *)
ResetTasksKeepsFinished ==
  /\ linker.pc = "reset"
  /\ task' = [c \in Clients |->
                IF c \in ToReset THEN [task[c] EXCEPT !.addr = None] ELSE task[c]]
  /\ linker' = [linker EXCEPT !.pc = "unmap"]
  /\ UNCHANGED <<loaded, tree, patched, pc, queue, cnt, boot>>

ResetTasks ==
  /\ linker.pc = "reset"
  /\ task' = [c \in Clients |->
                IF c \in ToReset
                THEN [task[c] EXCEPT !.addr = None, !.error = FALSE, !.finished = FALSE]
                ELSE task[c]]
  /\ cnt' = cnt + Cardinality(ToReset)
  /\ linker' = [linker EXCEPT !.pc = "unmap"]
  /\ UNCHANGED <<loaded, tree, patched, pc, queue, boot>>

Unmap ==
  /\ linker.pc = "unmap"
  /\ loaded' = [loaded EXCEPT ![linker.lib] = "no"]
  /\ patched' = patched \ {linker.lib}
  /\ linker' = NoLinker
  /\ UNCHANGED <<tree, task, pc, queue, cnt, boot>>

ClientStep(c) ==
  \/ InitCall(c) \/ InitLock(c) \/ InitHook(c)
  \/ ScanStart(c) \/ ScanLoad(c) \/ ScanEnd(c) \/ Register(c)
  \/ \E lib \in Libs, byName \in BOOLEAN : HookStart(c, lib, byName)
  \/ HookLookup(c) \/ HookSwitch(c) \/ HookInsert(c)
  \/ UnhookRemove(c) \/ UnhookSwitch(c)

LinkerStep ==
  \/ InitPre \/ PendingStart \/ PendingStep \/ PendingEnd \/ DlopenEnd
  \/ FreeSwitches \/ ResetTasks \/ Unmap

Next ==
  \/ \E c \in Clients : ClientStep(c)
  \/ \E lib \in Libs : Dlopen(lib) \/ Dlclose(lib)
  \/ LinkerStep

Spec == Init /\ [][Next]_vars

(* A dlopen() or dlclose() that has begun goes on.                         *)
FairSpec == Spec /\ WF_vars(LinkerStep)

----------------------------------------------------------------------------
(* Types of the state.                                                     *)
TypeOK ==
  /\ loaded \in [Libs -> {"no", "mapped", "open"}]
  /\ tree \in [Libs -> SUBSET Clients]
  /\ patched \subseteq Libs
  /\ task \in [Clients -> Task \cup {None}]
  /\ pc \in [Clients -> {"idle", "stub", "initlock"} \cup InProgress \cup InitPcs]
  /\ queue \in Seq(Clients)
  /\ cnt \in Int
  /\ linker.pc \in {"none", "init", "rdlock", "pending", "ctors", "fini", "reset", "unmap"}
  /\ initErrno \in {"uninit", "ok", "error"}
  /\ unique \in BOOLEAN /\ scanOk \in BOOLEAN
  /\ offsets \in [{"phdr", "bias"} -> Int \cup {NotFound}]
  /\ proxies \subseteq {"ctors", "dtors"} /\ cbs \subseteq {"init", "fini"}
  /\ scanTid \in Clients \cup {None}

Unfinished == {k \in Queued : ~ task[k].finished}

(* Whoever is let into the hook calls finds the linker hooked at both      *)
(* ends, no scan under way that keeps callbacks away, and both callbacks   *)
(* registered: the result is the last thing shadowhook_init() sets.        *)
HooksFindMonitor ==
  (\E c \in Clients : task[c] # None) =>
    /\ proxies = {"ctors", "dtors"} /\ cbs = {"init", "fini"}
    /\ scanTid = None

FirstLoad == Opens = {"first"}

(* If libmyhook.so is loaded for the first time, the scan of its soinfo    *)
(* finds its fields, whichever Android it is and whatever lies between     *)
(* them, and never takes other words for them.                             *)
LayoutIsFound ==
  /\ (FirstLoad /\ \E c \in Clients : pc[c] \in {"scanned", "register"}) => scanOk
  /\ scanOk => offsets = [phdr |-> 0, bias |-> 0]

(* Initialisation happens once: after it has a result, nobody who calls it *)
(* again, or has been waiting for its mutex all the while, changes its     *)
(* mode, its result or what it has set up.                                 *)
InitIsFinal == [][initErrno # "uninit" => UNCHANGED boot]_vars

(* The counter that decides whether a dlopen() looks at the queue at all,  *)
(* and where it stops looking, counts the unfinished tasks in it, through  *)
(* hooks, unhooks, loads and unloads in any order.                         *)
CountMatches == cnt = Cardinality(Unfinished)

(* The queue holds every stub that is out once, and nothing else: neither  *)
(* the queue nor the walk through it meets a task that was freed.          *)
QueueIsAlive ==
  /\ Queued = {c \in Clients : pc[c] = "stub"}
  /\ Len(queue) = Cardinality(Queued)
  /\ Iterating => Range(linker.todo) \subseteq Queued

(* An unfinished task in the queue has a library name, which the walk      *)
(* dereferences; tasks by address never wait.                              *)
WaitingTasksHaveNames == \A k \in Unfinished : task[k].byName

(* When a library's constructors run, every task for it that was waiting   *)
(* when it was mapped has been tried, however early the walk has stopped,  *)
(* unless there was no memory to search the library for it.                *)
LoadHooksPending ==
  linker.pc = "ctors" =>
    \A k \in linker.seen \cap Queued : task[k].lib = linker.lib => task[k].finished

(* A task that waits has a library that is not there: "we need to start    *)
(* monitor linker dlopen for handle the pending task" (sh_task.c:275).     *)
NobodyWaitsInVain ==
  linker.pc = "none" => \A k \in Unfinished : loaded[task[k].lib] = "no"

(* "free switch(es) that are no longer needed (for the currently dlclosed  *)
(* ELF)" (sh_task.c:200): no switch outlives the library it is in.         *)
NoSwitchOutlivesLibrary == \A l \in Libs : loaded[l] = "no" => tree[l] = {}

(* A stub without an error that does not wait is in effect: its library    *)
(* is there, its function is patched, and leads to the stub's proxy.       *)
HooksAreEffective ==
  linker.pc = "none" =>
    \A k \in Queued : task[k].finished /\ ~ task[k].error /\ task[k].byName =>
      /\ loaded[task[k].lib] = "open"
      /\ task[k].lib \in patched
      /\ k \in tree[task[k].lib]

(* A task waits no longer than its library stays away: even one that has   *)
(* missed a load is tried at the next, unless the search for it fails again*)
(* and again.                                                              *)
Waits(k, lib) == k \in Unfinished /\ task[k].lib = lib
Loading(lib)  == linker.pc = "init" /\ linker.lib = lib

SearchFails(k) ==
  /\ Iterating /\ linker' # linker
  /\ linker.todo # <<>> /\ Head(linker.todo) = k
  /\ Matches(k) /\ task' = task

WaitingEnds ==
  \A k \in Clients : \A lib \in Libs :
    []<> Loading(lib) /\ <>[][~ SearchFails(k)]_vars =>
      (Waits(k, lib) ~> ~ Waits(k, lib))
===============================================================================
