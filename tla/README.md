# Verification of the hooking core of LiuHookWorld

LiuHookWorld is an Android application that hooks native functions of the
program it is loaded into.  Its core is a modified copy of **ShadowHook**
(`src/app/src/main/cpp/ShadowHook`): a C library that writes jumps over the
first instructions of functions while other threads run them.  Around it are
`MyHook` (a dumper of Unity metadata, a signature reader, and adapters and a
watch dog that no CMake target builds), `unpaircore` (not built either), and a
small Java user interface.  This directory models the core in TLA+, checks it
with TLC and proves part of it with TLAPS.

All paths below are relative to `src/app/src/main/cpp/`; `PROJECT.json` maps
every definition to the lines it stands for.

## 1. The system

| Component | State | Operations | Used by |
|---|---|---|---|
| Trampoline allocator, `ShadowHook/common/sh_trampo.c` | list of executable pages; per slot a flag and the second it was freed | `sh_trampo_alloc`, `sh_trampo_free` | enters, hubs, exits |
| Hub, `sh_hub.c` | per hooked function a list of proxies; per thread a stack of frames; a cache of 1024 stacks; hubs waiting to be freed | `push_stack`, `pop_stack`, `get_prev_func`, `allow/disallow_reentrant`, `add_proxy`, `del_proxy`, `create`, `destroy` | the trampolines, every proxy, the switch |
| Switch, `sh_switch.c` | a red-black tree of switches under a read-write lock | `hook`, `unhook`, `hook_invisible`, `free_after_dlclose` | tasks, linker |
| Instruction patching, `arch/*/sh_inst.c`; enters, `sh_enter.c` | the head of the function, its rewritten copy (enter) | `sh_inst_hook`, `sh_inst_unhook` | switch |
| Instruction rewriting, `arch/arm64/sh_a64.c`, `arch/arm/sh_a32.c`, `sh_t16.c`, `sh_t32.c`, `sh_txx.c` | none | one instruction to a sequence that does the same elsewhere; jumps | instruction patching |
| Exits, `sh_exit.c` | none but the memory between the segments of ELF files, and a lock | `alloc`, `free`, `free_after_dlclose` | instruction patching |
| Signal protection, `common/bytesig.c` | per signal a table of threads and jump buffers | `protect`, `unprotect` around blocks that may fault | exits, patching, linker |
| Safe calls, `sh_safe.c` | for three libc functions the enter of their hook | loads and jumps | hub |
| Tasks, `sh_task.c` | a queue of stubs and a counter of the unfinished ones | `hook`, `unhook`; callbacks at load and unload | the API, the linker |
| Linker monitor, `sh_linker.c` | layout of `soinfo`, lists of callbacks | proxies of `call_constructors` and `call_destructors`, search for a symbol | tasks |
| API, `shadowhook.c` | the result of the one initialisation | `shadowhook_init`, `hook_*`, `unhook` | programs |
| Records, errors, logs, utilities | see `PROJECT.json` | | all of the above |
| `MyHook`: Unity dumper, signature reader | two hooks by name, a flag | | the application |
| `unpaircore`, Java | none of interest here | | the application |

How they interact.  `shadowhook_hook_*()` makes a task.  A task whose library
is loaded calls the switch; one whose library is not waits in the queue until
the linker monitor, a proxy that is itself hooked into the linker, sees the
library come.  The switch takes an enter from one trampoline manager and (in
shared mode) a hub with its trampoline from another, publishes the enter, and
writes the jump.  From then on threads of the program come through the
trampoline into the hub, which sends them through the proxies to the enter.
Unhooking takes all that away again *while they are in there*; nothing stops
them or waits for them.  What protects them is order and time: pieces are
disconnected in one order, and the freed memory rests for 2, 5 or 10 seconds.

What is hard about it (the full list with lines is under `hazards` in
`PROJECT.json`):

* running threads take no locks, hooking threads do: every list and pointer the
  former read changes under them;
* freed code and data must stay for as long as a thread may be in it;
* a hook has up to six steps that can fail, and each failure has its own way
  back;
* the hub runs inside arbitrary functions, in signal handlers, in threads that
  are ending, and inside functions it needs itself;
* libraries come and go between any two steps of a hook.

What makes each component correct: slots have one owner and rest long enough
(allocator); every call visits the enabled proxies once and in order and frames
match calls (hub); hook and unhook are atomic and report what they did, the
tree agrees with the patched code, nothing leaks and nobody runs in freed
memory (switch); the rewritten instructions do what the function did (rewriting);
exits are exclusive, in reach and outside of what the file holds, and their lock
comes back (exits; there is one error path on which it does not); initialisation happens once and leaves the linker
watched, with the layout of its structures found (monitor); the counter and the
queue agree, and a stub that is not waiting is in effect (tasks).

## 2. The modules

| Module | Models | Lines of code |
|---|---|---|
| `ShTrampo` | the allocator, with the threads that run in its slots | `common/sh_trampo.c` |
| `ShHub` | push, pop, chain, reentry, stack cache, thread exit, proxy lists | `sh_hub.c` |
| `HookRegistry` | what hook and unhook promise: an atomic map | abstract specification of `sh_switch.c` |
| `ShSwitch` | hook, unhook, `dlclose` of a library, delays, safe calls | `sh_switch.c`, `arch/arm64/sh_inst.c`, `sh_safe.c`, `sh_enter.c`, delayed destruction of `sh_hub.c` |
| `ShExit` | exits in the gaps of ELF files, and the signal protection around them | `sh_exit.c`, `common/bytesig.c` |
| `HeadProgram` | what the head of a function does where it is | abstract specification of the rewriting (external: the processor) |
| `ShWords` | the words that rewritten code is made of, and values | immediate fields and PC of `arch/` |
| `ShA64`, `ShA32`, `ShThumb` | the rewriting of one instruction | `arch/arm64/sh_a64.c`; `arch/arm/sh_a32.c`; `arch/arm/sh_t16.c`, `sh_t32.c` |
| `ShRewrite` | hooking one function, and executing the result | `arch/arm64/sh_inst.c`, `arch/arm/sh_inst.c`, `sh_txx.c` |
| `ShSoinfo` | the scan of `struct soinfo` | `sh_linker.c:250-360` |
| `ShTask` | initialisation, tasks and the linker's callbacks | `shadowhook.c`, `sh_linker.c`, `sh_task.c` |
| `MC...` | the instances TLC checks | |
| `ShTrampoProofs`, `ShHubProofs`, `ShSwitchProofs`, `ShExitProofs`, `ShSoinfoProofs`, `ShTaskProofs`, `ShRewriteProofs` | theorems about the module each is named after; `ShTaskProofs` builds on `ShSoinfoProofs` | |
| `ShRewriteLemmas` | what `ShRewriteProofs` builds on: lemmas about sizes and addresses, the lengths of rewritten instructions, and the effect of one word | |

`ShTask` EXTENDS `ShSoinfo`; `ShRewrite` and `HeadProgram` EXTEND `ShWords`,
and `ShRewrite` instantiates one module per instruction set.  `ShSwitch`
instantiates `HookRegistry`, `ShRewrite` instantiates `HeadProgram`.

### ShTrampo

Both functions do all their work under `pages_lock`, so each critical section is
one action (`AllocReuse`, `AllocMap`, `AllocFail`, `FreeEnd`); the time is read
*before* the lock and is a step of its own (`AllocStart`, `FreeStart`), as stale
as one likes.  `used` and `timestamps` are the flags and stamps of the pages.
`held`, `freedAt` and `running` stand for the callers: who owns a slot, when it
was given up, and who executes in it.  `Tick` moves the clock, and carries the
one assumption about the program that the delay stands for: no thread is still
in a slot more than `delay_sec` seconds after the slot was given up.
That is the whole difficulty: a slot is reissued by a
comparison of two samples that were both taken earlier.

`PageSize` need not be a multiple of `TrampoSize` unless there are requests with
an address window; only the exits have those, with 8 or 16 bytes per slot, and
`WindowAssumption` says that such a window is at least one slot wide (the code
asks for 16 MB and more).  With slots that do not fill the page the test of a
page would be too generous for the `abort()` at the end of the function.

### ShHub

`act[t]` is the machine stack of a thread seen through hooked functions: one
record for each hooked call, proxy and original that is being executed, with the
program counter of `sh_hub_push_stack()` (`enter`, `create`, `set`, `check`,
`find`, `write`), of a proxy (`proxy`, `prev`) or of the original (`orig`).
Reads that other threads can change are steps of their own: each flag of the
stack cache, each item of a proxy list.  A frame is first counted and then
written (`FindFirst`, `WriteFrame`).  Return addresses are call sites, or the
proxy a call comes from; `pop_stack()` knows nothing else.  A frame names its
function by the hub where the code uses `orig_addr`, which is one to one.
`stable` and `visited` are history: the proxies that were enabled for as long
as the call has lasted, and those it has been through.  Hubs are not destroyed
here; that is `ShSwitch`'s part.

`MaxDepth` bounds the activations of a thread; both steps that add one
have the bound as a guard (`Call`; `GetPrevStart` with `GetPrevNext`, the step that
ends what the former begins).

Proxies are assumed to be written with the macros of `shadowhook.h`: each ends
with one `SHADOWHOOK_POP_STACK()` and goes on with `SHADOWHOOK_CALL_PREV()`.

### ShSwitch and HookRegistry

A switch is a name in `Sw`; its hub and its enter share it.  `tree` is the
red-black tree, `code` where the patched functions jump to, `safe` the slots of
`sh_safe.c`, `obj` and `enter` the life of the parts, `items` and `funcs` the
list of the hub and its enabled proxies.  Work under the write lock is split
where running threads can see it: the enter is published (`HookRewrite`), the
jump is written (`HookPatch`), the first proxy is added (`HookProxy`); the
instructions are restored (`UnhookRestore`), the enter is freed (`UnhookFree`),
the slot of `sh_safe.c` is emptied (`UnhookClear`), the hub is handed to the
delay (`UnhookDestroy`).  A first proxy that cannot be added takes the hook back
within `HookProxy`; the code does not look at what `sh_inst_unhook()` returns
there, and with `"restore"` in `Faults` it may have left the function patched or
the enter in use.  `sh_inst_hook()` tries a short jump with an exit
first and a long one second (`rewrite`/`patch`, then `rewrite2`/`patch2`).
`Faults` names the steps that may fail; `unique` is the mode, chosen from `Modes`
at the start.  A switch of unique mode has no hub, which the type invariant says
(`WithoutHubs`): no list of proxies, nothing for the delay.  Runners go through hub, proxy and enter
and leave whenever they like; `Reap` and `CoolEnter` end the delays, which are
assumed to be longer than any call, and longer than the critical section
between `UnhookFree` and `UnhookClear`.

`HookRegistry` knows a map from functions to proxies and operations that begin,
take effect once, and return.  `ImplementsRegistry` says that the switches,
seen through `HookedView` (a hook is not seen before its unlock, an unhook from
its first step under the lock), are such a map: linearizability of hook and
unhook, including what they report.  The registry shows two things that a
reader of `shadowhook.h` may not expect: in unique mode `unhook` takes away
whichever proxy is there, and in shared mode a second `unhook` of the same proxy
reports success as long as the function keeps another one.

### ShExit

A short jump of one instruction reaches only as far as 128 MB (arm64); what it
jumps to is an *exit*, a long jump near the function.  If the allocator of
`ShTrampo` has no page in reach, `sh_exit.c` writes it into memory that the
function's ELF file leaves unused: `Gap` translates the four kinds of gaps
between and behind LOAD segments, `Places` the positions in a gap that the short
jump reaches.  There is no list of these exits.  A place is free when it is zero
(`IsZero`), and a gap that may hold other bytes is filled with zeros once, which
a guard instruction at its start remembers (`Fill`).  So `mem` has, per 8 bytes,
what is there, and `LiveExitsAreIntact` is a statement about memory.

`IsGap` is the test that keeps a gap (larger than the guard, if it has one),
`GapsOf` cuts the list to the capacity of the table.  What is assumed of a file,
`LayoutAssumption`, is what the linker makes sure of when it maps one: segments
in ascending order that share no page.

`prot` is the protection of each page.  Executable pages may be unreadable, and
comparing with their contents then faults.  `Protect`,
`Signal` and `Unprotect` are `bytesig.c`: a table of slots, taken by
compare-and-swap in a loop, each with the jump buffer of the block that took it;
a thread that already has a slot keeps the buffer of the outer block.  A signal
that finds no slot of its own block is a `crash`.

`Faults` are the calls of `mprotect()` that may fail.  The run leaves out
`"fill"`: a failure in `sh_exit_fill_zero()` returns from inside of the try
block (`sh_exit.c:316`), with the lock and the slot; `Fill` models it, and with it
`LockIsReleased` and `SignalsAreCaught` do not hold.

### The rewriting: ShWords, ShA64, ShA32, ShThumb, ShRewrite, HeadProgram

A hooked function begins with a jump; what was there is rewritten to do the same
in the enter, another address.  `ShRewrite` builds the enter as the code does,
instruction by instruction, first with an exit and, if that fails, for more
instructions without one, and then *executes* it, with one action per
machine word.  An instruction of the function is its kind, size, condition and a
distance (`Inst`); a word of rewritten code is an operation with registers and a
distance (`Word`).  Addresses count words on arm64 and A32 and halfwords in
Thumb.  Four registers are enough to tell sequences apart: `r`, which
instructions write, `x` and `y`, which rewritten code uses for itself and must
restore, and `lr`.  Values are symbolic (`Address`, `Content` of an address,
`Computed`, `Sum`), so a wrong register, a load from a wrong place and a
literal that is overwritten are told apart.

`HeadProgram` is the processor, before the hook.  `ImplementsProgram` says that
whoever enters the enter sees what the function did: the same branches, values
and calls, with returns into the enter where there were returns into the head.
`view` holds the registers as they were at the last boundary between two
original instructions, with addresses in the enter mapped to the head
(`Origin`).  `OnlyCodeRuns` says that no thread executes one of the addresses
that lie as data between instructions, and `EntryReachesNew` that callers of the
function get to the proxy through jump and exit.

What a function is, `IsFunction` says, for TLC and for the proofs
(`RewriteAssumption`): instructions the decoders know, branches that lead to
instructions, and gaps in which the exits lie.  What functions do not contain,
because the code does not handle it:

* a literal that begins in front of the head and ends in it (only its first byte
  is compared);
* branches from the rest of the function into the overwritten head;
* in Thumb, `BX PC` together with the word behind it, which is A32 code, in a head that is longer than
  one word; `MOV PC, PC` and `ADD PC, PC`;
* 16-bit data-processing in IT blocks: inside of a block these do not set the
  flags, in the enter, outside of it, they do;
* a live X17 across an arm64 branch, which the ABI reserves for veneers.

### ShSoinfo and ShTask

`dlopen()` and `dlclose()` run under the linker's mutex, and so does the search
for a library: `linker` is the thread inside.  Its steps are those of the two
proxies and of the callbacks of `sh_task.c`, down to each item of the queue.
Everything else of the clients interleaves.  The switch is reduced to the
atomic map that `ShSwitch` is shown to be; a switch can outlive the mapping of
its library (`tree` against `patched`), which is what makes unloading hard.
Each library has one function.  `Calm` is a restriction of the program, not of
the code: no library is opened or closed while a hook call for it is in
progress, and none is closed while stubs by address point into it.

`shadowhook_init()` is `InitCall`, `InitLock` (the double check of its mutex),
`InitHook` for each of the linker's two functions, then the scan and the two
registrations (`Register`).  A failure at any of them ends it for good
(`InitFinish`), with what was set up left as it is.  Libraries come and go
meanwhile, and the proxies are live as soon as they are hooked: `CallsBack` is
what they test.  The scan is announced (`ScanStart`), takes place inside of the
`dlopen()` of `libmyhook.so` (`ScanLoad`), and the announcement is withdrawn
(`ScanEnd`).  `Opens` says what may become of that `dlopen()`: it is the
library's first load (`FirstLoad`: always), or its constructors have run before
and the word the scan expects to be zero is not, or it fails and nothing is
scanned; the code reports success in each case.

`Faults` may have `"search"`: a search for a library that runs out of memory in
`xdl_open()` looks as if the library was not there.  A hook then waits for a
library that is loaded (`HookLookup`), and the walk of a load passes a task over
(`PendingStep`, `sh_task.c:155`), which stays in the queue and counted.  `seen`,
the history variable with what a load has to try, loses such a task, so that
`LoadHooksPending` is about those whose search did not fail.
`ShSoinfo` is the scan itself: a `struct soinfo` is a function from word offsets
to the values that the scan compares with, `Turn` is one turn of the loop,
`HasFields` says that a memory is a soinfo (two groups of fields, nothing else
that looks like one of them; `SoinfosAssumption` of `ShTask`),
and `offsets` tells how far what was found is from where the fields are.

## 3. The runs

| Run | Question | Bounds |
|---|---|---|
| `trampo` | one owner per slot; windows kept; no `abort()`; no reissue under a runner | 2 threads, 1 runner, 2 pages of 2 slots, delay 1 s, a clock that stops at 4 s |
| `hub_chain` | chain, reentry, frames, leaks, with proxies coming and going | 1 thread, 2 functions, 2 + 1 proxies, 4 nested activations, 2 frames |
| `hub_stacks` | no stack shared or given back twice | 2 threads, 1 cached and 1 mapped stack, signal handlers, `pthread_exit` |
| `switch_memory` | tree, code, safe calls, memory and leaks, in both modes | 2 callers, 1 runner, 2 functions, 2 proxies, 3 switches, failures of `sh_inst_hook` |
| `switch_registry` | refinement of the registry with every failure, in both modes | 2 callers, 2 switches, all faults, no runner (the registry does not see one) |
| `exits` | exits intact, in reach, outside of segments; signals and lock | 2 threads, 2 functions, 2 files, 64 addresses of 8 bytes in pages of 8, 2 gaps, 2 signal slots |
| `rewrite` | the enter does what the function did, callers reach the proxy | 9203 functions in 3 instruction sets; exits at both ends of the range |
| `tasks` | initialisation, counter, queue, pending hooks, liveness | 2 clients, 2 libraries, any loads and unloads, searches that fail, shared mode |
| `tasks_calm` | stubs are in effect; the scan; initialisation is final | 3 clients, 2 libraries, both modes, `Calm`, 756 layouts of `soinfo` |
| `switch_length`, `tasks_race`, `tasks_unscanned` | three disagreements between code and comments, see below | |

Why the bounds are enough.  Two hooking threads are what every race of the
locks is about; three switches let a function be hooked again while the old
hub is still retired and a useless one exists.  One runner suffices where
runners do not see each other, which is everywhere except for the cache of
stacks.  `switch_memory` merges states that differ only in what operations have
returned (`VIEW MemoryView`), which no property of that run and no guard
mentions.  Two slots per page and two pages make both the scan of a page and the
scan of the list go on past a slot that rests; a second page with a window
that only holds one of its slots makes the window tests differ.  Two frames
against four activations make the stack of frames overflow.  Three clients
make a walk through the queue stop, skip and go on.

In `exits`, one file is loaded by the linker and has all kinds of gaps (unreadable
code, a segment with pages of its own behind it, unused pages between segments),
more of them than the table of gaps holds, and the other by the kernel; the
functions lie so that the range of the short jump cuts gaps at either end.
Two signal slots are as many as threads; a slot that is lost makes the next
thread spin, which `LockIsReleased` sees.

In `rewrite`, a function has one instruction of each kind at each place of the head, which
refers to each place of the head and to places before and behind it, a second
instruction of each kind before or after it, and plain instructions around
them, and ends anywhere.  Thumb functions begin at both alignments and mix both
sizes, IT blocks and calls.  The distance of a short jump has 8 bits in place of 26 or
25.  To see whether that is enough, every distance in every rewriting template
was changed by one in turn: each change was refuted, but for the literal of
`PLD`, which has no effect that a program sees.

The 756 layouts of `soinfo` vary the words before the first group of fields (0 to 8), in
it and between the groups (3 to 9), and let values of other fields coincide
with the base address or zero, so that each group begins at each position
relative to the seven words that are left out at once.  `ScanWords` is 32 in
place of 96.

Symmetry is used for threads, proxies, switches and libraries in the runs
without liveness.

Fairness.  `WaitingEnds` of `tasks`: a `dlopen()` or `dlclose()` that has begun
goes on (`WF_vars(LinkerStep)`).  That is the progress of a thread that holds the
linker's mutex and waits for nobody but short critical sections of
`sh_tasks_lock`.  Nothing is assumed of the clients, nor that libraries are
ever loaded: the property assumes a library that comes again and again, and
searches for the task that fail only finitely often (`SearchFails`), and says that
then no task for it waits for ever.  Without the second assumption it does not hold.  `LockIsReleased` of `exits`: a
thread that can take a step other than for the mutex takes it in the end
(`WF_vars(GoesOn(t))`), the scheduling of a thread that is not blocked.

What the three violated properties show (`findings` in `PROJECT.json`):

1. `switch_length`: the second hook of a function reads `backup_len` of the
   switch after its unlock, and the switch may have been freed
   (`sh_switch.c:178`).
2. `tasks_race`: a library loaded between the search and the queue is missed by
   the task until its next load (`sh_task.c:310`).
3. `tasks_unscanned`: `sh_linker_init()` reports success although the layout of
   `soinfo` is unknown; pending tasks are then never hooked
   (`sh_linker.c:540`).  `Opens` has only `"again"` and `"fails"` in this run.  The
   former is what happens in this application: `MainActivity` loads `myhook`
   before `UnityDumper`, which initialises ShadowHook.

Limits of what holds, met while modelling and listed as hazards:
the memory properties of `switch_memory` (`TreeMirrorsCode`, `RunnersStayAlive`,
`SafeCallsBypassHook`, `NothingLeaks`) are checked without a failure of
`sh_inst_unhook()`, and without an out-of-memory of the first proxy: with the former
the code keeps none of them, with the latter not `RunnersStayAlive`.
`NoStackLeaks` and `NoProxyIsSkipped` of the hub hold without signal handlers
in the middle of `push_stack()`; its other properties hold with them.  `NobodyWaitsInVain`, `NoSwitchOutlivesLibrary` and
`HooksAreEffective` need a calm program, and the first of them searches that do
not run out of memory.  `LockIsReleased` and `SignalsAreCaught` are about every
way out of a protected block, errors and signals included, except for one: if
`mprotect()` fails in `sh_exit_fill_zero()`, the code returns from inside of the
block (`sh_exit.c:316`), keeps the lock for ever and stays registered for
signals.  The run leaves that fault out; with it TLC refutes both.

Hazards that no property covers are listed with the reason.  Among them are calls that
last longer than the delay of a hub, and a caller that is preempted for longer
than the delay between `UnhookFree` and `UnhookClear` (both are assumed away by
the guards of `Reap` and `CoolEnter`); what an unhook that fails, or a first
proxy for which there is no memory, leaves in memory (the steps are in the model,
and the properties do not hold with them); a thread in an enter that is filled a second time.

## 4. The proofs

TLAPS proves each of the safety properties and action properties of the runs
for the allocator, the hub, the switches, the tasks and the exits, the
refinement of the registry, and for functions of arm64 and A32 the same for the
rewriting, for every value of the constants that their assumptions allow: any number of threads,
functions, libraries, proxies, stacks and slots, any bounds, any function.  `PROJECT.json` lists the theorems with the property each
states.  Every proof has the same form.  `IInv` is an inductive invariant: a
lemma per part, in it a step per action, shows that steps preserve it; the
theorem combines them.

### The allocator

`ShTrampoProofs` proves for every number of threads, pages and slots, every
delay and every resolution of the clock:

* `TypeCorrect`, `SlotsAreExclusive`: types, and one owner per slot;
* `QuarantineHolds`: no slot is reissued under a runner;
* `WindowsAreKept`: a slot lies in the window its caller named;
* `AbortIsUnreachable`: the `abort()` in `sh_trampo_alloc` is never reached.

They rest on the assumptions `TrampoAssumption` (distinct pages do not overlap;
slots fill the page if there are windows) and `WindowAssumption` of `ShTrampo`.

The inductive invariant `IInv` adds to the types and `ExclusiveSlots` three
parts.  `OwnedAreFlagged`: a slot that is held or being freed has its flag set,
which keeps the scan away from it.  `StampsAreFreeTimes`: the stamp of an
unflagged slot is the second in which its *last* free began, and no sample is in
the future; it ties the stale samples of the code to the history.
`RunnersAreRecent`: whoever executes in a slot that nobody holds any more does
so no longer than the delay.  A reissue needs `now - stamp > Delay` in whole
seconds; with the last two, the present is then more than the delay after the
free, so nobody is in the slot (`CooledIsEmpty`).  The comparison must be
strict: the seconds are truncated, and the mutant with `>=` is refuted by TLC.

`AbortIsUnreachable` is a fact about arithmetic, `WindowHasSlot`: if a page
passes the window test, its first slot or the first slot at or above the lower
end is in the window.

### The hub

`Invariance` holds with signal handlers that call hooked functions between any
two steps of a thread; so do `StacksStayExclusive`, `ReentryIsInvited`,
`ChainsMoveForward` and `FramesMatchCalls`.  An activation of a thread is
described relative to those below it on the machine stack.  `StackPhase` says
which stack it knows of at each step, `SearchPhase` and `InChain` that what it has
still to walk is a suffix of the list, with the proxies that were enabled all
along (`stable`) in it or already behind (`visited`), `Framed` which frame is its
own and what that holds (a frame that is counted but not written, while it searches),
and `Follows` that a proxy called by another is one the chain has not been
through.  `StacksDiffer` is needed because of interruption: an
activation that has taken a slot but not stored it in the TLS can be
interrupted by another that takes one too.  `NothingLeftBelow` says that a thread
that is not ending has no frames but those of its activations (`pthread_exit` leaves
some, which is why `InFrames` counts from a `Base`).  `Depth`, the number of
frames that the activations up to one have pushed, is a cardinality.

`NoStacksLeak` and `ProxiesAreVisited` assume `~ Interrupts` and rest on
`QuietInv`: without handlers only the uppermost activation is on its way in, so
that it creates a stack only if the TLS has none, and takes a call for a
recursive one only inside of another of the same function.  With handlers the
first of the two fails, as the comment at the theorem says.

### The switches

Three layers.  `ControlInv`, whatever fails, says who may touch which switch:
one caller is in a critical section, it has the switch of its target, callers
before and after theirs have different switches in hand.  `CodeInv`, if
unhooking restores the instructions (`"restore"` not in `Faults`), says what of a
switch is in place, code and enter, for each switch in the tree
and at each step of the caller in charge, and that what is live is somebody's.  `RunInv`, if there is memory for the
first proxy as well (`"proxy"` not in `Faults`), says where the slots of
`sh_safe.c` lead and where threads run: in a part
of a switch that is live or cooling, never in one that is about to be freed at
once.  The hypotheses are those of section 3: with these faults the
properties do not hold, and the theorems without them (`TypeCorrect`,
`SwitchesImplementRegistry`) have none.

`SwitchesImplementRegistry` is the refinement.  Its step simulation is a case per
action: under the refinement mapping (`OpOf`, `HookedView`) the step that finds a
switch, and the one that leaves the critical section of a hook, are the steps
at which operations take effect; all others change nothing the registry sees.

### The exits

`Invariance`, for any ELF files as `LayoutAssumption` says, any page size, range,
capacity of the table of gaps, number of threads and of signal slots.  Besides who is
in which block and who holds the lock (`BlockPhases`, `Exclusion`), `IInv` ties the
memory to the files: `SearchPhases` says that a gap in hand is one of the file's and
what of it is filled, `ToFillAreEmpty` that a gap which is still to be filled
has no exit in it (or a fill would erase it), `ExitsFit` that an exit does
not end beyond memory.  With them the invariant carries the three properties
themselves.  The gaps need arithmetic of pages: that each lies in memory no
segment has, that no two overlap, and that a place is within its gap and behind the
guard, is proved from the definitions of `Gap` and `Places`.

The hypothesis is `FarFromTop`: no function lies closer to the end of the
address space than the short jump reaches.  Where one does,
`sh_exit_try_alloc_in_library()` does not subtract the length of the exit from the end of
the gap (`sh_exit.c:276`), and an exit may reach beyond its gap.  On arm64, user
space ends long before; on arm, it ends below the pages of the kernel or of the
vectors, and the stack, not libraries, lies there.

`SignalsStayCaught` also assumes that filling does not fail (section 3).

### The scan, the tasks and initialisation

`ScanFindsFields` and `ScanMakesUpNothing` are about the scan alone, in a memory of
any size with any contents.  `Scan` is a recursive function; that it has a solution, and that the
state after each turn is where it should be, is proved from the least
counterexample, since the induction rules of the library are not usable here.

`ShTaskProofs` proves the properties of `tasks` and `tasks_calm` that need no
calm program.  `IInv` has, besides the types, what a client's task looks
like at each of its steps (`TaskPhases`), that the queue holds the stubs that
are out (`QueueHoldsStubs`), that the counter is the cardinality of the unfinished
(`CountMatches`), how far initialisation has come (`InitPhases`, `ScanPhases`), and what the
linker walks over (`LinkerPhases`).  `LoadsHookPending` assumes `FirstLoad`, whose
negation is finding 3, and needs `WalkCovers`: what was waiting when the walk began
and still waits is ahead of it, but for tasks whose search has failed.

The theorems of its second part assume `Calm` too, and `CalmNobodyWaitsInVain` that
searches do not fail; the others hold if they do.  `CalmInv` says that who looks up a library finds it as
it still is when the hook is made, why each task waits, that switches are in
libraries that are there, and which stubs are in effect.

### The rewriting

`ShRewriteProofs` proves that the rewritten head does what the head did
(`RewriteImplements`, the refinement of `HeadProgram`), that only code runs
(`RewriteCodeRuns`), that callers reach the proxy (`RewriteReachesNew`), and the
sizes and distances of `TypeOK` (`RewriteTypeOK`): for any functions as
`IsFunction` says, wherever they are and whatever their instructions refer to,
any place of the enter, any exit in range and any outcome of the steps that may
fail.  The hypothesis is that the function that is hooked is one of arm64 or of A32:
`fn.arch # "thumb"`.  The hooking itself, up to the moment a thread enters, has no such hypothesis:
`HookingInvariant`, `HookingLengths` and `HookingSizes` hold for Thumb as well.

`RewriteInv` has two parts.  `HookInv` is about the hooking: at each step the parts of
the enter lie one behind the other (`Layout`), and each has the words of the
instruction it stands for.  From it follows `LengthsAgree`: they are as many as
`sh_a64_get_rewrite_inst_len()` and the others say.  That is what the code rests on:
`sh_a64_fix_addr()` and the others compute where a part begins from lengths, before
the part is written (`FixLeads`).  In Thumb an IT block is one part.  Its rewriting joins
the pieces of the ELSE side and those of the THEN side, which the code writes in two passes;
`JoinLens` proves that each piece is counted once, as `sh_inst_get_thumb_rewrite_info()`
does, and `ThumbFormed` that no part takes more than eight times the halfwords it stands
for.  As a head touches at most 13 halfwords (a backup of 10 bytes that ends in
an IT block), the enter of 256 bytes is large enough (`EnterIsLarge`).  `ThreadInv` is about the
thread: it is outside (`Resting`), on the way to the proxy (`OnTheWay`), or in a part
of the enter (`InPart`), at one of its words, with the registers that it should have there
in terms of those at the start of the part, which `view` shows (`A64Mid`, `A32Mid`, `JumpMid`).
`LR` is the caller's or leads to the beginning of a part, which `view` shows as the
address of an instruction (`Seen`).

A step of the thread inside of a part is a lemma per operation in
`ShRewriteLemmas` (`StepLdr`, `StepPush`, ...), and `A64Step` and `A32Step` combine them,
kind of instruction by kind of instruction: it goes on to the next point, or is done, and then the
registers and the address are those that `HeadProgram` says (`ProgramDoes`),
moved to the enter where that is in the head (`DoneLands`).  A32 adds conditions, under which
an instruction is skipped with the words that stand for it, and instructions that read
or write PC: what they read is behind the head, as the head is one or two instructions
long and PC two ahead (`PcLands`).  The addresses are sums
of sizes over sequences; since induction is not usable here, facts about such sums
are proved from the least counterexample (`SumExists`, `SumUnique`).

### What the proofs assume, and what stays with TLC

Assumptions on constants are the named ones of the modules; TLC evaluates each of
them on the instances of the runs.  The properties of data in them are
`LayoutAssumption` (the linker's layout of files), `SoinfosAssumption` (what
a soinfo looks like), `RewriteAssumption` (what a function looks like) and
`WindowAssumption`.  Hypotheses of theorems are `FarFromTop`,
`FirstLoad`, `Calm`, `~ Interrupts`, the instruction set and the absence of named
faults, each where it is stated above; what the program does without them is in the hazards and findings.

Only model-checked are: liveness (`WaitingEnds`, `LockIsReleased`), since fairness and
`ENABLED` are out of the prover's reach; the execution of rewritten Thumb functions
(`OnlyCodeRuns`, `EntryReachesNew`, `ImplementsProgram` where `fn.arch = "thumb"`),
where the lemmas about what may refer to what, about sums, single words
and the layout of the enter apply, but those about the kinds of instructions are
missing; and the three properties that are violated.

## 5. Not modelled, and the plan

Not modelled, with reasons in `PROJECT.json`: records (a log that nothing reads),
other logs, error texts and utilities, the readers of files (signatures,
`/proc`), the user interface, and code that is in the repository but in no CMake
target: `MyHook/framework` (watch dog, hook adapters), `unpaircore`.  Left out of
modelled files: the path for Android 4.x, invisible hooks, the user's callback,
decoding and encoding of machine words and register numbers.

Most lines of the repository are vendored and are not modelled either: `libil2cpp`, the
runtime of Unity, is there for its headers and none of its sources is
compiled; `xdl`, which reads ELF files, appears as the answers it gives.  The
part of the repository that is its own logic is `ShadowHook`, some eight
thousand lines.

What is left, in this order:

1. The theorems about the execution of Thumb: points within the parts, as `A64Mid`
   and `A32Mid` are for the others, the alignment of the parts and the composition of
   the parts of an IT block.
2. An abstract specification of pending hooks, of which `ShTask` is shown to be an
   implementation in calm programs.
3. The composition of `ShHub` and `ShSwitch`: the chain while its hub is being
   retired.

## 6. Running it

    tlc -workers 2 -config MCShSwitchMemory.cfg MCShSwitch
    tlapm ShTrampoProofs.tla

The other proof modules are called likewise; the largest, `ShHubProofs`, takes
some minutes the first time.

Definitions called `Mutant` in their comment are faulty variants of the
definition that follows them; `PROJECT.json` says which property refutes each.
