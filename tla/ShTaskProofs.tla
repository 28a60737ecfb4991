----------------------------- MODULE ShTaskProofs -----------------------------
(* Proofs about the tasks and the linker monitor, for any number of        *)
(* threads and libraries, any modes, and any soinfos as they are assumed.  *)
EXTENDS ShTask, ShSoinfoProofs, FiniteSetTheorems, SequenceTheorems

Opening == {"init", "rdlock", "pending", "ctors"}
Closing == {"fini", "reset", "unmap"}

Linker ==
  {NoLinker} \cup [pc : Opening, lib : Libs, todo : Seq(Clients), seen : SUBSET Clients]
             \cup [pc : Closing, lib : Libs]

(* Types, and of the linker those of what it holds in its phases.          *)
Types == TypeOK /\ linker \in Linker

(* A client has a task while it hooks or unhooks, or its stub is out, and  *)
(* only tasks by name get into the queue without being finished.           *)
TaskPhases ==
  \A c \in Clients :
    /\ task[c] # None <=> pc[c] \in {"stub"} \cup InProgress
    /\ pc[c] \in {"lookup", "hook"} => ~ task[c].finished
    /\ task[c] # None /\ ~ task[c].finished => ~ task[c].error
    /\ pc[c] = "hook" => task[c].addr = task[c].lib
    /\ pc[c] \in {"insert", "stub"} /\ ~ task[c].finished => task[c].byName
    /\ task[c] # None => task[c].addr \in {task[c].lib, None}
    /\ task[c] # None /\ task[c].finished /\ ~ task[c].error => task[c].addr = task[c].lib

(* Every stub that is out is in the queue, once.                           *)
QueueHoldsStubs ==
  /\ \A c \in Clients : c \in Queued <=> pc[c] = "stub"
  /\ \A i, j \in DOMAIN queue : queue[i] = queue[j] => i = j
  /\ Iterating => Range(linker.todo) \subseteq Queued

(* One thread at a time initialises, and what it has done so far.          *)
InitPhases ==
  /\ \A c, d \in Clients : pc[c] \in InitPcs /\ pc[d] \in InitPcs => c = d
  /\ initErrno # "uninit" => Initialising = {}
  /\ \A c \in Clients :
       /\ pc[c] = "hookdtors" => "ctors" \in proxies
       /\ pc[c] \in {"scan", "scanned", "register"} => proxies = {"ctors", "dtors"}
       /\ pc[c] = "register" => scanTid = None
  /\ initErrno = "ok" =>
       proxies = {"ctors", "dtors"} /\ cbs = {"init", "fini"} /\ scanTid = None
  /\ \A c \in Clients : task[c] # None => initErrno = "ok"

(* What the scan has found, and that it has succeeded in a soinfo that was *)
(* not initialised before.                                                 *)
ScanPhases ==
  /\ FirstLoad =>
       /\ \A c \in Clients : pc[c] \in {"scanned", "register"} => scanOk
       /\ initErrno = "ok" => scanOk
  /\ scanOk => offsets = [phdr |-> 0, bias |-> 0]

(* The library the linker works on is where the linker's phase says.       *)
LinkerPhases ==
  /\ \A l \in Libs : loaded[l] = "mapped" <=> linker.pc \in Opening /\ linker.lib = l
  /\ linker.pc \in Closing => loaded[linker.lib] = "open"

IInv ==
  /\ Types
  /\ TaskPhases
  /\ QueueHoldsStubs
  /\ CountMatches
  /\ InitPhases
  /\ ScanPhases
  /\ LinkerPhases

(* What the walk has still to try, of what it was started for: tasks that  *)
(* are not finished are ahead of it, and none can come back meanwhile.     *)
WalkCovers ==
  /\ linker.pc \in Opening => \A k \in linker.seen : pc[k] \notin {"hook", "insert"}
  /\ linker.pc \in {"pending", "ctors"} =>
       \A k \in linker.seen \cap Unfinished : task[k].lib = linker.lib =>
         linker.pc = "pending" /\ k \in Range(linker.todo)

----------------------------------------------------------------------------
(* The invariant holds at the start: nothing is loaded, hooked or waiting. *)
LEMMA InitIInv == Init => IInv /\ WalkCovers
<1> SUFFICES ASSUME Init PROVE IInv /\ WalkCovers
  OBVIOUS
<1> USE DEF Init
<1>1. Types
  <2>1. task \in [Clients -> Task \cup {None}]
    OBVIOUS
  <2>2. pc \in [Clients -> {"idle", "stub", "initlock"} \cup InProgress \cup InitPcs]
    OBVIOUS
  <2>3. linker \in Linker /\ linker.pc = "none"
    BY DEF Linker, NoLinker
  <2>4. queue \in Seq(Clients)
    OBVIOUS
  <2>5. loaded \in [Libs -> {"no", "mapped", "open"}] /\ tree \in [Libs -> SUBSET Clients]
    OBVIOUS
  <2>6. offsets \in [{"phdr", "bias"} -> Int \cup {NotFound}]
    OBVIOUS
  <2>7. cnt \in Int /\ patched \subseteq Libs /\ proxies \subseteq {"ctors", "dtors"}
    OBVIOUS
  <2>8. /\ initErrno \in {"uninit", "ok", "error"} /\ unique \in BOOLEAN /\ scanOk \in BOOLEAN
        /\ cbs \subseteq {"init", "fini"} /\ scanTid \in Clients \cup {None}
    OBVIOUS
  <2> HIDE DEF Init
  <2>9. QED
    BY <2>1, <2>2, <2>3, <2>4, <2>5, <2>6, <2>7, <2>8 DEF Types, TypeOK
<1>2. Queued = {} /\ linker.pc = "none"
  BY DEF Queued, Range, NoLinker
<1>3. Unfinished = {}
  BY <1>2 DEF Unfinished
<1>4. CountMatches
  BY <1>3, FS_EmptySet DEF CountMatches
<1>5. TaskPhases /\ InitPhases /\ ScanPhases
  BY DEF TaskPhases, InitPhases, ScanPhases, Initialising, InitPcs, InProgress
<1>6. QueueHoldsStubs
  BY <1>2 DEF QueueHoldsStubs, Iterating
<1>7. LinkerPhases /\ WalkCovers
  BY <1>2 DEF LinkerPhases, WalkCovers, Opening, Closing
<1>8. QED
  BY <1>1, <1>4, <1>5, <1>6, <1>7 DEF IInv

----------------------------------------------------------------------------
(* After constructors_called is set, nothing looks like the link map.      *)
LEMMA ScanOfSoinfo ==
  ASSUME NEW soinfo \in Soinfos
  PROVE  LET after == [soinfo.mem EXCEPT ![soinfo.bias + 5] = "other"]
         IN /\ soinfo.phdr \in Nat /\ soinfo.bias \in Nat
            /\ Scan(soinfo.mem).phdr = soinfo.phdr /\ Scan(soinfo.mem).bias = soinfo.bias
            /\ after[soinfo.bias + 5] = "other"
            /\ Scan(after).phdr \in {soinfo.phdr, NotFound} /\ Scan(after).bias = NotFound
<1> DEFINE mem == soinfo.mem
           P == soinfo.phdr
           B == soinfo.bias
           after == [mem EXCEPT ![B + 5] = "other"]
<1>1. HasFields(mem, P, B)
  BY SoinfosAssumption
<1>2. Scan(mem).phdr = P /\ Scan(mem).bias = B
  BY <1>1, ScanFindsFields
<1>3. PICK last \in DOMAIN mem : DOMAIN mem = 0 .. last
  BY <1>1 DEF HasFields
<1>4. P \in Nat /\ B \in Nat /\ P + 6 \in DOMAIN mem /\ B + 6 \in DOMAIN mem
  BY <1>1, SoinfoAssumption DEF HasFields
<1>5. last \in Nat /\ DOMAIN after = 0 .. last /\ B + 5 \in 0 .. last
  BY <1>3, <1>4
<1>6. after[B + 5] = "other" /\ \A i \in 0 .. last : i # B + 5 => after[i] = mem[i]
  BY <1>3, <1>5
<1>7. IsPhdr(mem, P) /\ IsLinkMap(mem, B)
  BY <1>1, <1>3, <1>4 DEF HasFields
<1>8. \A i \in 0 .. last : i + 6 \in 0 .. last /\ IsPhdr(after, i) => i = P
  <2> SUFFICES ASSUME NEW i \in 0 .. last, i + 6 \in 0 .. last, IsPhdr(after, i) PROVE i = P
    OBVIOUS
  <2>1. i + 1 \in 0 .. last
    BY <1>5
  <2>2. IsPhdr(mem, i)
    BY <1>6, <2>1 DEF IsPhdr
  <2>3. QED
    BY <1>1, <1>3, <2>2 DEF HasFields
<1>9. \A i \in 0 .. last : i + 6 \in 0 .. last => ~ IsLinkMap(after, i)
  <2> SUFFICES ASSUME NEW i \in 0 .. last, i + 6 \in 0 .. last, IsLinkMap(after, i) PROVE FALSE
    OBVIOUS
  <2>1. \A k \in 0 .. 6 : i + k \in 0 .. last
    BY <1>5
  <2>2. B + 5 \notin {i, i + 1, i + 2, i + 5, i + 6}
    BY <1>6, <2>1 DEF IsLinkMap
  <2>3. IsLinkMap(mem, i)
    BY <1>6, <2>1, <2>2 DEF IsLinkMap
  <2>4. i = B
    BY <1>1, <1>3, <2>3 DEF HasFields
  <2>5. QED
    BY <1>5, <2>2, <2>4
<1>10. IsThere(after, Scan(after))
  BY <1>5, ScanMakesUpNothing
<1>11. Scan(after).phdr \in {P, NotFound} /\ Scan(after).bias = NotFound
  BY <1>5, <1>8, <1>9, <1>10 DEF IsThere
<1>12. QED
  BY <1>2, <1>4, <1>6, <1>11

(* What the scan leaves behind.                                            *)
LEMMA ScanLoadEffect ==
  ASSUME NEW c \in Clients, ScanLoad(c),
         offsets \in [{"phdr", "bias"} -> Int \cup {NotFound}]
  PROVE  \/ ~ FirstLoad /\ UNCHANGED <<offsets, scanOk>>
         \/ /\ offsets' \in [{"phdr", "bias"} -> Int \cup {NotFound}]
            /\ scanOk' \in BOOLEAN
            /\ FirstLoad => scanOk'
            /\ scanOk' => offsets' = [phdr |-> 0, bias |-> 0]
<1>1. PICK open \in Opens, soinfo \in Soinfos :
        LET after == [soinfo.mem EXCEPT ![soinfo.bias + 5] = "other"]
            found == Scan(IF open = "first" THEN soinfo.mem ELSE after)
        IN IF open = "fails"
           THEN UNCHANGED <<offsets, scanOk>>
           ELSE /\ offsets' = [field \in DOMAIN offsets |->
                                IF found[field] = NotFound THEN NotFound
                                ELSE found[field] - soinfo[field]]
                /\ scanOk' = /\ NotFound \notin {found.phdr, found.bias}
                             /\ after[found.bias + 5] # "zero"
  BY DEF ScanLoad
<1>2. CASE open = "fails"
  BY <1>1, <1>2 DEF FirstLoad
<1>3. CASE open # "fails"
  <2> DEFINE P == soinfo.phdr
             B == soinfo.bias
             first == open = "first"
             after == [soinfo.mem EXCEPT ![B + 5] = "other"]
             found == Scan(IF first THEN soinfo.mem ELSE after)
  <2>1. /\ P \in Nat /\ B \in Nat /\ after[B + 5] = "other"
        /\ first => found.phdr = P /\ found.bias = B
        /\ ~ first => found.phdr \in {P, NotFound} /\ found.bias = NotFound
    BY ScanOfSoinfo
  <2>2. scanOk' <=> (NotFound \notin {found.phdr, found.bias} /\ after[found.bias + 5] # "zero")
    BY <1>1, <1>3
  <2>3. offsets' = [field \in {"phdr", "bias"} |->
                      IF found[field] = NotFound THEN NotFound ELSE found[field] - soinfo[field]]
    BY <1>1, <1>3
  <2>4. FirstLoad => first
    BY DEF FirstLoad
  <2>5. scanOk' \in BOOLEAN
    BY <1>1, <1>3, Zenon
  <2> HIDE DEF first, after, found
  <2>6. scanOk' <=> first
    BY <2>1, <2>2, SoinfoAssumption
  <2>7. offsets' \in [{"phdr", "bias"} -> Int \cup {NotFound}]
    BY <2>1, <2>3
  <2>8. first => offsets' = [phdr |-> 0, bias |-> 0]
    BY <2>1, <2>3, SoinfoAssumption
  <2>9. QED
    BY <2>4, <2>5, <2>6, <2>7, <2>8
<1>4. QED
  BY <1>2, <1>3

(* The queue has finitely many entries.                                    *)
LEMMA QueuedIsFinite ==
  ASSUME queue \in Seq(Clients)
  PROVE  /\ IsFiniteSet(Queued) /\ Queued \subseteq Clients
         /\ (\A i, j \in DOMAIN queue : queue[i] = queue[j] => i = j) =>
              Cardinality(Queued) = Len(queue)
<1>1. queue \in [1 .. Len(queue) -> Clients] /\ Len(queue) \in Nat
  OBVIOUS
<1>2. queue \in Surjection(1 .. Len(queue), Queued)
  BY <1>1 DEF Surjection, Queued, Range
<1>3. IsFiniteSet(Queued)
  BY <1>1, <1>2, FS_NatSurjection DEF ExistsSurjection
<1>4. ASSUME \A i, j \in DOMAIN queue : queue[i] = queue[j] => i = j
      PROVE  Cardinality(Queued) = Len(queue)
  <2>1. queue \in Bijection(1 .. Len(queue), Queued)
    BY <1>1, <1>2, <1>4 DEF Bijection, Injection, Surjection, IsInjective
  <2>2. QED
    BY <1>1, <2>1, FS_CountingElements DEF ExistsBijection
<1>5. QED
  BY <1>1, <1>3, <1>4 DEF Queued, Range

(* A queue without one of its entries.                                     *)
LEMMA WithoutEntry ==
  ASSUME queue \in Seq(Clients), NEW c \in Queued,
         \A i, j \in DOMAIN queue : queue[i] = queue[j] => i = j
  PROVE  /\ Without(c) \in Seq(Clients)
         /\ Range(Without(c)) = Queued \ {c}
         /\ \A i, j \in DOMAIN Without(c) : Without(c)[i] = Without(c)[j] => i = j
<1> DEFINE n == CHOOSE i \in DOMAIN queue : queue[i] = c
           rest == Without(c)
<1>1. n \in 1 .. Len(queue) /\ queue[n] = c
  BY DEF Queued, Range
<1>2. rest = SubSeq(queue, 1, n - 1) \o SubSeq(queue, n + 1, Len(queue))
  BY DEF Without, RemoveAt
<1> DEFINE before == SubSeq(queue, 1, n - 1)
           behind == SubSeq(queue, n + 1, Len(queue))
<1> HIDE DEF n, rest
<1>3. /\ before \in Seq(Clients) /\ Len(before) = n - 1
      /\ \A i \in 1 .. n - 1 : before[i] = queue[i]
  BY <1>1
<1>4. /\ behind \in Seq(Clients) /\ Len(behind) = Len(queue) - n
      /\ \A i \in 1 .. Len(queue) - n : behind[i] = queue[n + i]
  BY <1>1
<1> HIDE DEF before, behind
<1>5. /\ rest \in Seq(Clients) /\ Len(rest) = Len(queue) - 1
      /\ \A i \in 1 .. Len(rest) : rest[i] = queue[IF i < n THEN i ELSE i + 1]
  <2>1. rest = before \o behind
    BY <1>2 DEF before, behind
  <2>2. rest \in Seq(Clients) /\ Len(rest) = Len(queue) - 1
    BY <1>1, <1>3, <1>4, <2>1
  <2>3. ASSUME NEW i \in 1 .. Len(rest) PROVE rest[i] = queue[IF i < n THEN i ELSE i + 1]
    <3>1. CASE i < n
      BY <1>1, <1>3, <1>4, <2>1, <2>2, <3>1
    <3>2. CASE i >= n
      <4>1. i - (n - 1) \in 1 .. Len(queue) - n
        BY <1>1, <2>2, <3>2
      <4>2. rest[i] = behind[i - (n - 1)]
        BY <1>1, <1>3, <1>4, <2>1, <2>2, <3>2
      <4>3. QED
        BY <1>1, <1>4, <3>2, <4>1, <4>2
    <3>3. QED
      BY <1>1, <3>1, <3>2
  <2>4. QED
    BY <2>2, <2>3
<1>6. ASSUME NEW i \in DOMAIN rest, NEW j \in DOMAIN rest, rest[i] = rest[j] PROVE i = j
  <2> DEFINE a == IF i < n THEN i ELSE i + 1
             b == IF j < n THEN j ELSE j + 1
  <2>1. a \in DOMAIN queue /\ b \in DOMAIN queue /\ queue[a] = queue[b]
    BY <1>1, <1>5, <1>6
  <2>2. a = b
    BY <2>1
  <2>3. QED
    BY <1>1, <1>5, <2>2
<1>7. Range(rest) \subseteq Queued \ {c}
  BY <1>1, <1>5 DEF Queued, Range
<1>8. Queued \ {c} \subseteq Range(rest)
  <2> SUFFICES ASSUME NEW i \in DOMAIN queue, i # n PROVE queue[i] \in Range(rest)
    BY <1>1 DEF Queued, Range
  <2>1. CASE i < n
    BY <1>1, <1>5, <2>1 DEF Range
  <2>2. CASE i > n
    <3>1. i - 1 \in 1 .. Len(rest) /\ rest[i - 1] = queue[i]
      BY <1>1, <1>5, <2>2
    <3>2. QED
      BY <1>5, <3>1 DEF Range
  <2>3. QED
    BY <1>1, <2>1, <2>2
<1>9. QED
  BY <1>5, <1>6, <1>7, <1>8 DEF rest

LEMMA LinkerForms ==
  ASSUME linker \in Linker
  PROVE  /\ linker.pc \in Opening =>
              linker \in [pc : Opening, lib : Libs, todo : Seq(Clients), seen : SUBSET Clients]
         /\ linker.pc \in Closing => linker \in [pc : Closing, lib : Libs]
         /\ linker.pc \in {"none"} \cup Opening \cup Closing
BY DEF Linker, NoLinker, Opening, Closing

LEMMA RangeOfTail ==
  ASSUME NEW S, NEW q \in Seq(S), q # <<>>
  PROVE  Range(q) = {Head(q)} \cup Range(Tail(q))
<1> DEFINE r == Tail(q)
<1>1. /\ Len(q) \in Nat \ {0} /\ q[1] = Head(q) /\ r \in Seq(S) /\ Len(r) = Len(q) - 1
      /\ \A i \in 1 .. Len(r) : r[i] = q[i + 1]
  OBVIOUS
<1> HIDE DEF r
<1>2. /\ Range(q) = {q[i] : i \in 1 .. Len(q)}
      /\ Range(r) = {r[i] : i \in 1 .. Len(r)}
  BY <1>1 DEF Range
<1>3. \A i \in 1 .. Len(q) : i = 1 \/ (i - 1 \in 1 .. Len(r) /\ q[i] = r[i - 1])
  BY <1>1
<1>4. 1 \in 1 .. Len(q) /\ \A i \in 1 .. Len(r) : i + 1 \in 1 .. Len(q)
  BY <1>1
<1>5. Range(q) = {Head(q)} \cup Range(r)
  BY <1>1, <1>2, <1>3, <1>4
<1>6. QED
  BY <1>5 DEF r

(* What the walk does with the next task of the queue.                     *)
LEMMA PendingStepEffect ==
  ASSUME Types, TaskPhases, QueueHoldsStubs, PendingStep
  PROVE  LET k == Head(linker.todo)
         IN /\ linker.pc = "pending" /\ linker.lib \in Libs /\ linker.seen \in SUBSET Clients
            /\ linker.todo \in Seq(Clients) /\ linker.todo # <<>>
            /\ Tail(linker.todo) \in Seq(Clients)
            /\ Range(linker.todo) = {k} \cup Range(Tail(linker.todo))
            /\ k \in Queued /\ k \in Clients /\ task[k] \in Task /\ pc[k] = "stub"
            /\ linker' \in [pc : Opening, lib : Libs, todo : Seq(Clients), seen : SUBSET Clients]
            /\ linker'.lib = linker.lib
            /\ \/ linker'.pc = "pending" /\ linker'.todo = Tail(linker.todo)
               \/ linker'.pc = "ctors" /\ linker'.todo = <<>> /\ Matches(k) /\ cnt = 1
            /\ \/ /\ ~ Matches(k) /\ linker'.seen = linker.seen
                  /\ UNCHANGED <<tree, patched, task, cnt>>
               \/ /\ Matches(k) /\ "search" \in Faults /\ linker'.seen = linker.seen \ {k}
                  /\ linker'.pc = "pending"
                  /\ UNCHANGED <<tree, patched, task, cnt>>
               \/ /\ Matches(k) /\ cnt' = cnt - 1 /\ linker'.seen = linker.seen
                  /\ \A c \in Clients : c # k => task'[c] = task[c]
                  /\ task' \in [Clients -> Task \cup {None}] /\ task'[k] \in Task
                  /\ task'[k].lib = task[k].lib /\ task'[k].byName = task[k].byName
                  /\ task'[k].finished /\ task'[k].addr \in {linker.lib, None}
                  /\ \/ /\ task'[k].error /\ UNCHANGED <<tree, patched>>
                     \/ /\ ~ task'[k].error /\ task'[k].addr = linker.lib
                        /\ Accepts(linker.lib, k) /\ SwitchHook(linker.lib, k)
            /\ UNCHANGED <<loaded, pc, queue, boot>>
<1> DEFINE k == Head(linker.todo)
           lib == linker.lib
           Opened == [pc : Opening, lib : Libs, todo : Seq(Clients), seen : SUBSET Clients]
<1>1. linker \in Opened /\ linker.pc = "pending" /\ linker.todo # <<>>
  BY DEF PendingStep, Iterating, Types, Linker, NoLinker, Opening, Closing
<1>2. /\ linker.todo \in Seq(Clients) /\ lib \in Libs /\ k \in Clients
      /\ Tail(linker.todo) \in Seq(Clients) /\ linker.seen \in SUBSET Clients
  BY <1>1
<1>3. Range(linker.todo) = {k} \cup Range(Tail(linker.todo))
  BY <1>1, <1>2, RangeOfTail
<1>4. k \in Queued /\ pc[k] = "stub" /\ task[k] \in Task
  BY <1>1, <1>2, <1>3 DEF QueueHoldsStubs, Iterating, TaskPhases, Types, TypeOK
<1> DEFINE next == [linker EXCEPT !.todo = Tail(@)]
           Searched == /\ Matches(k) /\ "search" \in Faults
                       /\ linker' = [next EXCEPT !.seen = @ \ {k}]
                       /\ UNCHANGED <<tree, patched, task, cnt>>
           Other == ~ Matches(k) /\ linker' = next /\ UNCHANGED <<tree, patched, task, cnt>>
           Hooked == /\ Accepts(lib, k) /\ SwitchHook(lib, k)
                     /\ task' = [task EXCEPT ![k].finished = TRUE, ![k].addr = lib]
           Refused == \E addr \in {lib, None} :
                        /\ task' = [task EXCEPT ![k].finished = TRUE, ![k].addr = addr,
                                                ![k].error = TRUE]
                        /\ UNCHANGED <<tree, patched>>
           Tried == /\ Matches(k) /\ cnt' = cnt - 1 /\ (Hooked \/ Refused)
                    /\ linker' = IF cnt = 1 THEN [linker EXCEPT !.pc = "ctors", !.todo = <<>>]
                                 ELSE next
<1>5. Searched \/ Other \/ Tried
  BY DEF PendingStep
<1>6. UNCHANGED <<loaded, pc, queue, boot>>
  BY DEF PendingStep
<1>7. next \in Opened /\ next.lib = lib /\ next.pc = "pending" /\ next.seen = linker.seen
      /\ next.todo = Tail(linker.todo)
  BY <1>1, <1>2
<1> HIDE DEF next
<1>8. CASE Searched
  <2>1. /\ linker' \in Opened /\ linker'.lib = lib /\ linker'.pc = "pending"
        /\ linker'.todo = Tail(linker.todo) /\ linker'.seen = linker.seen \ {k}
    BY <1>7, <1>8
  <2>2. QED
    BY <1>1, <1>2, <1>3, <1>4, <1>6, <1>8, <2>1
<1>9. CASE Other
  BY <1>1, <1>2, <1>3, <1>4, <1>6, <1>7, <1>9
<1>10. CASE Tried
  <2>1. PICK addr \in {lib, None}, error \in BOOLEAN :
          /\ task' = [task EXCEPT ![k] = [task[k] EXCEPT !.finished = TRUE, !.addr = addr,
                                                         !.error = error]]
          /\ \/ error /\ UNCHANGED <<tree, patched>>
             \/ ~ error /\ addr = lib /\ Accepts(lib, k) /\ SwitchHook(lib, k)
    <3>1. CASE Hooked
      <4>1. ~ task[k].error
        BY <1>2, <1>4, <1>10, TaskAssumption DEF Matches, TaskPhases
      <4>2. [task[k] EXCEPT !.finished = TRUE, !.addr = lib, !.error = FALSE]
              = [task[k] EXCEPT !.finished = TRUE, !.addr = lib]
        BY <1>4, <4>1 DEF Task
      <4>3. task' = [task EXCEPT ![k] = [task[k] EXCEPT !.finished = TRUE, !.addr = lib,
                                                        !.error = FALSE]]
        BY <1>2, <3>1, <4>2 DEF Types, TypeOK
      <4>4. Accepts(lib, k) /\ SwitchHook(lib, k)
        BY <3>1, Zenon
      <4>5. QED
        BY <4>3, <4>4, Zenon
    <3>2. CASE Refused
      <4>1. PICK addr \in {lib, None} :
                 /\ task' = [task EXCEPT ![k].finished = TRUE, ![k].addr = addr, ![k].error = TRUE]
                 /\ UNCHANGED <<tree, patched>>
        BY <3>2
      <4>2. task' = [task EXCEPT ![k] = [task[k] EXCEPT !.finished = TRUE, !.addr = addr, !.error = TRUE]]
        BY <1>2, <4>1 DEF Types, TypeOK
      <4>3. UNCHANGED <<tree, patched>>
        BY <4>1, Zenon
      <4>4. QED
        BY <4>2, <4>3, Zenon
    <3>3. QED
      BY <1>10, <3>1, <3>2
  <2>2. [task[k] EXCEPT !.finished = TRUE, !.addr = addr, !.error = error] \in Task
    BY <1>2, <1>4, <2>1 DEF Task
  <2>3. /\ task' \in [Clients -> Task \cup {None}]
        /\ task'[k] = [task[k] EXCEPT !.finished = TRUE, !.addr = addr, !.error = error]
        /\ \A c \in Clients : c # k => task'[c] = task[c]
    BY <1>2, <2>1, <2>2 DEF Types, TypeOK
  <2>4. /\ task'[k] \in Task /\ task'[k].lib = task[k].lib /\ task'[k].byName = task[k].byName
        /\ task'[k].finished /\ task'[k].addr = addr /\ task'[k].error = error
    BY <1>4, <2>2, <2>3 DEF Task
  <2>5. /\ linker' \in Opened /\ linker'.lib = lib /\ linker'.seen = linker.seen
        /\ \/ linker'.pc = "pending" /\ linker'.todo = Tail(linker.todo)
           \/ linker'.pc = "ctors" /\ linker'.todo = <<>> /\ cnt = 1
    <3>1. <<>> \in Seq(Clients) /\ "ctors" \in Opening
      BY DEF Opening
    <3>2. CASE cnt = 1
      BY <1>1, <1>10, <3>1, <3>2
    <3>3. CASE cnt # 1
      BY <1>7, <1>10, <3>3
    <3>4. QED
      BY <3>2, <3>3
  <2>6. QED
    BY <1>1, <1>2, <1>3, <1>4, <1>6, <1>10, <2>1, <2>3, <2>4, <2>5
<1>11. QED
  BY <1>5, <1>8, <1>9, <1>10

----------------------------------------------------------------------------
(* The types are preserved by every step.                                  *)
LEMMA NextTypes == Types /\ TaskPhases /\ QueueHoldsStubs /\ [Next]_vars => Types'
<1> SUFFICES ASSUME Types, TaskPhases, QueueHoldsStubs, [Next]_vars PROVE Types'
  OBVIOUS
<1> USE DEF Types, TypeOK
<1>1. ASSUME NEW t \in Task
      PROVE  /\ [t EXCEPT !.finished = TRUE] \in Task
             /\ \A a \in Libs \cup {None} : [t EXCEPT !.addr = a] \in Task
  BY DEF Task
<1>2. ASSUME NEW c \in Clients, NEW S,
             pc' = [pc EXCEPT ![c] = S], S \in {"idle", "stub", "initlock"} \cup InProgress \cup InitPcs
      PROVE  pc' \in [Clients -> {"idle", "stub", "initlock"} \cup InProgress \cup InitPcs]
  BY <1>2
<1>3. ASSUME NEW c \in Clients, InitCall(c) \/ InitLock(c) \/ ScanStart(c) \/ ScanEnd(c) PROVE Types'
  <2>1. CASE InitCall(c)
    BY <2>1 DEF InitCall, boot, InitPcs, InProgress
  <2>2. CASE InitLock(c)
    BY <2>2, TaskAssumption DEF InitLock, boot, InitPcs, InProgress
  <2>3. CASE ScanStart(c)
    BY <2>3 DEF ScanStart, boot, InitPcs, InProgress
  <2>4. CASE ScanEnd(c)
    BY <2>4 DEF ScanEnd, boot, InitPcs, InProgress
  <2>5. QED
    BY <1>3, <2>1, <2>2, <2>3, <2>4
<1>4. ASSUME NEW c \in Clients, InitHook(c) PROVE Types'
  <2>1. /\ \E p \in InitPcs \cup {"idle"} : pc' = [pc EXCEPT ![c] = p]
        /\ initErrno' \in {initErrno, "error"}
        /\ proxies' \subseteq proxies \cup {"ctors", "dtors"}
    BY <1>4 DEF InitHook, InitFinish, InitPcs
  <2>2. pc' \in [Clients -> {"idle", "stub", "initlock"} \cup InProgress \cup InitPcs]
    BY <2>1
  <2>3. QED
    BY <1>4, <2>1, <2>2 DEF InitHook
<1>5. ASSUME NEW c \in Clients, Register(c) PROVE Types'
  <2>1. /\ pc' = pc \/ pc' = [pc EXCEPT ![c] = "idle"]
        /\ initErrno' \in {initErrno, "ok", "error"}
        /\ cbs' \subseteq cbs \cup {"init", "fini"}
    BY <1>5 DEF Register, InitFinish
  <2>2. pc' \in [Clients -> {"idle", "stub", "initlock"} \cup InProgress \cup InitPcs]
    BY <2>1
  <2>3. QED
    BY <1>5, <2>1, <2>2 DEF Register
<1>6. ASSUME NEW c \in Clients, ScanLoad(c) PROVE Types'
  <2>1. offsets' \in [{"phdr", "bias"} -> Int \cup {NotFound}] /\ scanOk' \in BOOLEAN
    BY <1>6, ScanLoadEffect
  <2>2. QED
    BY <1>6, <2>1 DEF ScanLoad, boot, InitPcs, InProgress
<1>7. ASSUME NEW c \in Clients, NEW lib \in Libs, NEW byName \in BOOLEAN, HookStart(c, lib, byName)
      PROVE  Types'
  <2>1. NewTask(lib, byName) \in Task
    BY DEF NewTask, Task
  <2>2. QED
    BY <1>7, <2>1 DEF HookStart, boot, InitPcs, InProgress
<1>8. ASSUME NEW c \in Clients, pc[c] \in InProgress \cup {"stub"}
      PROVE  task[c] \in Task
  BY <1>8 DEF TaskPhases
<1>9. ASSUME NEW c \in Clients, HookLookup(c) PROVE Types'
  <2>1. task[c] \in Task /\ task[c].lib \in Libs
    BY <1>8, <1>9 DEF HookLookup, InProgress, Task
  <2>0. [task[c] EXCEPT !.addr = task[c].lib] \in Task
    BY <1>1, <2>1
  <2>2. task' \in [Clients -> Task \cup {None}]
    BY <1>9, <2>0 DEF HookLookup, Give
  <2>3. pc' \in [Clients -> {"idle", "stub", "initlock"} \cup InProgress \cup InitPcs]
    BY <1>9 DEF HookLookup, Give, InProgress
  <2>4. QED
    BY <1>9, <2>2, <2>3 DEF HookLookup, boot
<1>10. ASSUME NEW c \in Clients, HookSwitch(c) PROVE Types'
  <2>1. task[c] \in Task /\ task[c].lib \in Libs
    BY <1>8, <1>10 DEF HookSwitch, InProgress, Task
  <2>2. task' \in [Clients -> Task \cup {None}]
    BY <1>1, <1>10, <2>1 DEF HookSwitch, Give
  <2>3. pc' \in [Clients -> {"idle", "stub", "initlock"} \cup InProgress \cup InitPcs]
    BY <1>10 DEF HookSwitch, Give, InProgress
  <2>4. tree' \in [Libs -> SUBSET Clients] /\ patched' \subseteq Libs
    BY <1>10, <2>1 DEF HookSwitch, SwitchHook
  <2>5. QED
    BY <1>10, <2>2, <2>3, <2>4 DEF HookSwitch, boot
<1>11. ASSUME NEW c \in Clients, HookInsert(c) PROVE Types'
  BY <1>11 DEF HookInsert, boot
<1>12. ASSUME NEW c \in Clients, UnhookRemove(c) PROVE Types'
  <2>1. c \in Queued
    BY <1>12 DEF UnhookRemove, QueueHoldsStubs
  <2>2. Without(c) \in Seq(Clients)
    BY <2>1, WithoutEntry DEF QueueHoldsStubs
  <2>3. QED
    BY <1>12, <2>2 DEF UnhookRemove, InProgress, boot
<1>13. ASSUME NEW c \in Clients, UnhookSwitch(c) PROVE Types'
  <2>1. task[c] \in Task /\ task[c].lib \in Libs
    BY <1>8, <1>13 DEF UnhookSwitch, InProgress, Task
  <2>2. tree' \in [Libs -> SUBSET Clients] /\ patched' \subseteq Libs
    BY <1>13, <2>1 DEF UnhookSwitch, SwitchUnhook
  <2>3. QED
    BY <1>13, <2>2 DEF UnhookSwitch, Give, boot
<1>14. ASSUME NEW lib \in Libs, Dlopen(lib) PROVE Types'
  <2>1. {k \in Queued : task[k].lib = lib} \subseteq Clients
    BY DEF Queued, Range
  <2>2. [pc |-> "init", lib |-> lib, todo |-> <<>>, seen |-> {k \in Queued : task[k].lib = lib}]
          \in [pc : Opening, lib : Libs, todo : Seq(Clients), seen : SUBSET Clients]
    BY <2>1 DEF Opening
  <2>3. linker' \in Linker /\ linker'.pc = "init"
    BY <1>14, <2>2 DEF Dlopen, Linker
  <2>4. QED
    BY <1>14, <2>3 DEF Dlopen, boot
<1>15. ASSUME NEW lib \in Libs, Dlclose(lib) PROVE Types'
  <2>1. linker' \in Linker /\ linker'.pc \in Closing
    BY <1>15 DEF Dlclose, Linker, Closing
  <2>2. QED
    BY <1>15, <2>1 DEF Dlclose, Closing, boot
<1>16. linker.pc \in Opening =>
         linker \in [pc : Opening, lib : Libs, todo : Seq(Clients), seen : SUBSET Clients]
  BY LinkerForms
<1>17. linker.pc \in Closing => linker \in [pc : Closing, lib : Libs]
  BY LinkerForms
<1>18. ASSUME NEW q \in Opening, NEW todo \in Seq(Clients), linker.pc \in Opening,
              linker' = [linker EXCEPT !.pc = q, !.todo = todo]
       PROVE  linker' \in Linker /\ linker'.pc = q
  BY <1>16, <1>18 DEF Linker
<1>19. linker.pc \in Opening => linker.todo \in Seq(Clients) /\ linker.lib \in Libs
  BY <1>16
<1>20. CASE InitPre
  <2>1. linker' \in Linker /\ linker'.pc \in {"rdlock", "ctors"}
    BY <1>16, <1>20 DEF InitPre, Linker, Opening
  <2>2. QED
    BY <1>20, <2>1 DEF InitPre, boot
<1>21. CASE PendingStart
  <2>1. linker' \in Linker /\ linker'.pc = "pending"
    BY <1>18, <1>21 DEF PendingStart, Opening
  <2>2. QED
    BY <1>21, <2>1 DEF PendingStart, boot
<1>22. CASE PendingStep
  <2> DEFINE k == Head(linker.todo)
  <2>1. /\ linker' \in Linker /\ linker'.pc \in {"pending", "ctors"}
        /\ linker.lib \in Libs /\ k \in Clients
        /\ UNCHANGED <<loaded, pc, queue, boot>>
    BY <1>22, PendingStepEffect DEF Linker
  <2>2. \/ UNCHANGED <<tree, patched, task, cnt>>
        \/ /\ cnt' = cnt - 1 /\ task' \in [Clients -> Task \cup {None}]
           /\ UNCHANGED <<tree, patched>> \/ SwitchHook(linker.lib, k)
    BY <1>22, PendingStepEffect
  <2>3. tree' \in [Libs -> SUBSET Clients] /\ patched' \subseteq Libs
    BY <2>1, <2>2 DEF SwitchHook
  <2>4. QED
    BY <2>1, <2>2, <2>3 DEF boot
<1>23. CASE PendingEnd
  <2>1. linker' \in Linker /\ linker'.pc = "ctors"
    BY <1>16, <1>23 DEF PendingEnd, Iterating, Linker, Opening
  <2>2. QED
    BY <1>23, <2>1 DEF PendingEnd, boot
<1>24. CASE DlopenEnd
  <2>1. linker' \in Linker /\ linker'.pc = "none" /\ linker.lib \in Libs
    BY <1>19, <1>24 DEF DlopenEnd, NoLinker, Linker, Opening
  <2>2. QED
    BY <1>24, <2>1 DEF DlopenEnd, boot
<1>25. CASE FreeSwitches
  <2>1. linker' \in Linker /\ linker'.pc \in Closing /\ linker.lib \in Libs
    BY <1>17, <1>25 DEF FreeSwitches, Linker, Closing
  <2>2. QED
    BY <1>25, <2>1 DEF FreeSwitches, Closing, boot
<1>26. CASE ResetTasks
  <2>1. linker' \in Linker /\ linker'.pc \in Closing
    BY <1>17, <1>26 DEF ResetTasks, Linker, Closing
  <2>2. \A c \in ToReset : c \in Clients /\ task[c] \in Task
    <3>1. \A c \in ToReset : c \in Clients /\ pc[c] = "stub"
      BY DEF ToReset, QueueHoldsStubs, Queued, Range
    <3>2. QED
      BY <1>8, <3>1
  <2>3. task' \in [Clients -> Task \cup {None}]
    <3>1. \A c \in ToReset :
            [task[c] EXCEPT !.addr = None, !.error = FALSE, !.finished = FALSE] \in Task
      <4> SUFFICES ASSUME NEW c \in ToReset
                   PROVE  [task[c] EXCEPT !.addr = None, !.error = FALSE, !.finished = FALSE] \in Task
        OBVIOUS
      <4> DEFINE t1 == [task[c] EXCEPT !.addr = None]
                 t2 == [t1 EXCEPT !.error = FALSE]
                 t3 == [t2 EXCEPT !.finished = FALSE]
      <4>1. t1 \in Task
        BY <1>1, <2>2
      <4> HIDE DEF t1
      <4>2. t2 \in Task
        BY <4>1 DEF Task
      <4> HIDE DEF t2
      <4>3. t3 \in Task
        BY <4>2 DEF Task
      <4>4. QED
        BY <4>3 DEF t1, t2, t3
    <3>2. task' = [c \in Clients |->
                     IF c \in ToReset
                     THEN [task[c] EXCEPT !.addr = None, !.error = FALSE, !.finished = FALSE]
                     ELSE task[c]]
      BY <1>26 DEF ResetTasks
    <3>3. QED
      BY <3>1, <3>2
  <2>4. cnt' \in Int
    <3>1. ToReset \subseteq Queued
      BY DEF ToReset
    <3>2. Cardinality(ToReset) \in Nat
      BY <3>1, QueuedIsFinite, FS_Subset, FS_CardinalityType
    <3>3. cnt \in Int /\ cnt' = cnt + Cardinality(ToReset)
      BY <1>26 DEF ResetTasks
    <3> HIDE DEF Types
    <3>4. QED
      BY <3>2, <3>3
  <2>5. QED
    BY <1>26, <2>1, <2>3, <2>4 DEF ResetTasks, Closing, boot
<1>27. CASE Unmap
  <2>1. linker' \in Linker /\ linker'.pc = "none" /\ linker.lib \in Libs
    BY <1>17, <1>27 DEF Unmap, NoLinker, Linker, Closing
  <2>2. QED
    BY <1>27, <2>1 DEF Unmap, boot
<1>28. CASE UNCHANGED vars
  BY <1>28 DEF vars, boot
<1>29. QED
  BY <1>3, <1>4, <1>5, <1>6, <1>7, <1>9, <1>10, <1>11, <1>12, <1>13, <1>14, <1>15, <1>20, <1>21,
     <1>22, <1>23, <1>24, <1>25, <1>26, <1>27, <1>28 DEF Next, ClientStep, LinkerStep

----------------------------------------------------------------------------
(* Tasks come and go with the phases of their clients.                     *)
LEMMA NextTaskPhases ==
  Types /\ TaskPhases /\ QueueHoldsStubs /\ [Next]_vars => TaskPhases'
<1> SUFFICES ASSUME Types, TaskPhases, QueueHoldsStubs, [Next]_vars PROVE TaskPhases'
  OBVIOUS
<1>0. /\ task \in [Clients -> Task \cup {None}] /\ None \notin Task
      /\ pc \in [Clients -> {"idle", "stub", "initlock"} \cup InProgress \cup InitPcs]
  BY TaskAssumption DEF Types, TypeOK
<1>1. ASSUME NEW c \in Clients,
             InitCall(c) \/ InitLock(c) \/ InitHook(c) \/ ScanLoad(c) \/ ScanEnd(c) \/ Register(c)
      PROVE  TaskPhases'
  <2>1. /\ task' = task /\ pc[c] \in {"idle", "initlock"} \cup InitPcs
        /\ \E q \in {"idle", "initlock"} \cup InitPcs \cup {pc[c]} : pc' = [pc EXCEPT ![c] = q]
    BY <1>0, <1>1
       DEF InitCall, InitLock, InitHook, InitFinish, ScanLoad, ScanEnd, Register, InitPcs
  <2>2. QED
    BY <1>0, <2>1 DEF TaskPhases, InProgress, InitPcs
<1>2. ASSUME NEW c \in Clients, NEW lib \in Libs, NEW byName \in BOOLEAN, HookStart(c, lib, byName)
      PROVE  TaskPhases'
  <2>1. /\ NewTask(lib, byName) \in Task
        /\ NewTask(lib, byName).lib = lib /\ NewTask(lib, byName).addr \in {lib, None}
        /\ ~ NewTask(lib, byName).finished /\ ~ NewTask(lib, byName).error
    BY DEF NewTask, Task
  <2>2. QED
    BY <1>0, <1>2, <2>1 DEF HookStart, TaskPhases, InProgress
<1>3. ASSUME NEW c \in Clients, HookLookup(c) PROVE TaskPhases'
  <2>1. task[c] \in Task /\ pc[c] = "lookup"
    BY <1>0, <1>3 DEF HookLookup, TaskPhases, InProgress
  <2>2. CASE task' = [task EXCEPT ![c].addr = task[c].lib] /\ pc' = [pc EXCEPT ![c] = "hook"]
    <3>1. [task[c] EXCEPT !.addr = task[c].lib] \in Task
      BY <2>1 DEF Task
    <3>2. QED
      BY <1>0, <2>1, <2>2, <3>1 DEF TaskPhases, InProgress, Task
  <2>3. CASE task[c].byName /\ pc' = [pc EXCEPT ![c] = "insert"] /\ task' = task
    BY <1>0, <2>1, <2>3 DEF TaskPhases, InProgress
  <2>4. CASE Give(c)
    BY <1>0, <2>4 DEF Give, TaskPhases, InProgress
  <2>5. QED
    BY <1>3, <2>2, <2>3, <2>4 DEF HookLookup
<1>4. ASSUME NEW c \in Clients, HookSwitch(c) PROVE TaskPhases'
  <2>1. task[c] \in Task /\ pc[c] = "hook" /\ task[c].addr = task[c].lib
    BY <1>0, <1>4 DEF HookSwitch, TaskPhases, InProgress
  <2>2. CASE task' = [task EXCEPT ![c].finished = TRUE] /\ pc' = [pc EXCEPT ![c] = "insert"]
    BY <1>0, <2>1, <2>2 DEF TaskPhases, InProgress, Task
  <2>3. CASE Give(c)
    BY <1>0, <2>3 DEF Give, TaskPhases, InProgress
  <2>4. QED
    BY <1>4, <2>2, <2>3 DEF HookSwitch
<1>5. ASSUME NEW c \in Clients, HookInsert(c) PROVE TaskPhases'
  BY <1>0, <1>5 DEF HookInsert, TaskPhases, InProgress
<1>6. ASSUME NEW c \in Clients, UnhookRemove(c) PROVE TaskPhases'
  BY <1>0, <1>6 DEF UnhookRemove, TaskPhases, InProgress
<1>7. ASSUME NEW c \in Clients, UnhookSwitch(c) PROVE TaskPhases'
  BY <1>0, <1>7 DEF UnhookSwitch, Give, TaskPhases, InProgress
<1>8. CASE PendingStep
  <2> DEFINE k == Head(linker.todo)
  <2>1. k \in Clients /\ task[k] \in Task /\ pc' = pc /\ pc[k] = "stub" /\ linker.lib \in Libs
    BY <1>8, PendingStepEffect
  <2>2. CASE task' = task
    BY <2>1, <2>2 DEF TaskPhases
  <2>3. CASE /\ Matches(k) /\ task'[k] \in Task /\ task'[k].lib = task[k].lib
             /\ task'[k].finished /\ task'[k].addr \in {linker.lib, None}
             /\ task'[k].error \/ task'[k].addr = linker.lib
             /\ \A c \in Clients : c # k => task'[c] = task[c]
    BY <1>0, <2>1, <2>3 DEF TaskPhases, Matches, InProgress
  <2>4. QED
    BY <1>8, <2>2, <2>3, PendingStepEffect
<1>9. CASE ResetTasks
  <2>1. \A c \in ToReset : c \in Clients /\ pc[c] = "stub" /\ task[c] \in Task /\ task[c].byName
    BY <1>0 DEF ToReset, QueueHoldsStubs, Queued, Range, TaskPhases, Types, TypeOK
  <2>2. \A c \in Clients :
          \/ c \notin ToReset /\ task'[c] = task[c]
          \/ /\ c \in ToReset /\ task'[c] \in Task
             /\ task'[c].lib = task[c].lib /\ task'[c].byName = task[c].byName
             /\ task'[c].addr = None /\ ~ task'[c].error /\ ~ task'[c].finished
    <3>1. SUFFICES ASSUME NEW c \in ToReset
                   PROVE  LET t == [task[c] EXCEPT !.addr = None, !.error = FALSE, !.finished = FALSE]
                          IN /\ t \in Task /\ t.lib = task[c].lib /\ t.byName = task[c].byName
                             /\ t.addr = None /\ ~ t.error /\ ~ t.finished
      BY <1>9 DEF ResetTasks
    <3>2. QED
      BY <2>1 DEF Task
  <2>3. pc' = pc
    BY <1>9 DEF ResetTasks
  <2>4. QED
    BY <1>0, <2>1, <2>2, <2>3 DEF TaskPhases, InProgress
<1>10. CASE UNCHANGED <<task, pc>>
  BY <1>10 DEF TaskPhases
<1>11. QED
  BY <1>1, <1>2, <1>3, <1>4, <1>5, <1>6, <1>7, <1>8, <1>9, <1>10
     DEF Next, ClientStep, LinkerStep, ScanStart, Dlopen, Dlclose, InitPre, PendingStart,
         PendingEnd, DlopenEnd, FreeSwitches, Unmap, vars

----------------------------------------------------------------------------
(* The queue changes under its write lock only, and with the phases.       *)
LEMMA NextQueueHoldsStubs ==
  Types /\ TaskPhases /\ QueueHoldsStubs /\ [Next]_vars => QueueHoldsStubs'
<1> SUFFICES ASSUME Types, TaskPhases, QueueHoldsStubs, [Next]_vars PROVE QueueHoldsStubs'
  OBVIOUS
<1>0. /\ queue \in Seq(Clients) /\ linker \in Linker
      /\ pc \in [Clients -> {"idle", "stub", "initlock"} \cup InProgress \cup InitPcs]
  BY DEF Types, TypeOK
<1>1. ASSUME NEW c \in Clients, UNCHANGED <<queue, linker>>,
             \A d \in Clients : pc'[d] = "stub" <=> pc[d] = "stub"
      PROVE  QueueHoldsStubs'
  BY <1>1 DEF QueueHoldsStubs, Queued, Iterating
<1>2. ASSUME NEW c \in Clients,
             \/ InitCall(c) \/ InitLock(c) \/ InitHook(c)
             \/ ScanStart(c) \/ ScanLoad(c) \/ ScanEnd(c) \/ Register(c)
      PROVE  QueueHoldsStubs'
  <2>1. UNCHANGED <<queue, linker>> /\ \A d \in Clients : pc'[d] = "stub" <=> pc[d] = "stub"
    BY <1>0, <1>2
       DEF InitCall, InitLock, InitHook, InitFinish, ScanStart, ScanLoad, ScanEnd, Register
  <2>2. QED
    BY <1>1, <2>1
<1>3. ASSUME NEW c \in Clients, NEW lib \in Libs, NEW byName \in BOOLEAN, HookStart(c, lib, byName)
      PROVE  QueueHoldsStubs'
  <2>1. UNCHANGED <<queue, linker>> /\ \A d \in Clients : pc'[d] = "stub" <=> pc[d] = "stub"
    BY <1>0, <1>3 DEF HookStart
  <2>2. QED
    BY <1>1, <2>1
<1>4. ASSUME NEW c \in Clients, HookLookup(c) \/ HookSwitch(c) \/ UnhookSwitch(c)
      PROVE  QueueHoldsStubs'
  <2>1. UNCHANGED <<queue, linker>> /\ \A d \in Clients : pc'[d] = "stub" <=> pc[d] = "stub"
    BY <1>0, <1>4 DEF HookLookup, HookSwitch, UnhookSwitch, Give
  <2>2. QED
    BY <1>1, <2>1
<1>5. ASSUME NEW c \in Clients, HookInsert(c) PROVE QueueHoldsStubs'
  <2>1. /\ pc[c] = "insert" /\ ~ Iterating /\ linker' = linker
        /\ queue' = Append(queue, c) /\ pc' = [pc EXCEPT ![c] = "stub"]
    BY <1>5 DEF HookInsert
  <2>2. /\ queue' \in Seq(Clients) /\ Len(queue') = Len(queue) + 1 /\ queue'[Len(queue) + 1] = c
        /\ \A i \in 1 .. Len(queue) : queue'[i] = queue[i]
    BY <1>0, <2>1
  <2>3. Queued' = Queued \cup {c}
    <3>1. Queued = {queue[i] : i \in 1 .. Len(queue)} /\ Queued' = {queue'[i] : i \in 1 .. Len(queue')}
      BY <1>0, <2>2 DEF Queued, Range
    <3>2. 1 .. Len(queue') = (1 .. Len(queue)) \cup {Len(queue) + 1}
      BY <1>0, <2>2
    <3>3. QED
      BY <2>2, <3>1, <3>2
  <2>4. c \notin Queued
    BY <2>1 DEF QueueHoldsStubs
  <2>5. \A i, j \in DOMAIN queue' : queue'[i] = queue'[j] => i = j
    <3>1. \A i \in DOMAIN queue : queue[i] # c
      BY <2>4 DEF Queued, Range
    <3>2. DOMAIN queue' = (1 .. Len(queue)) \cup {Len(queue) + 1} /\ DOMAIN queue = 1 .. Len(queue)
      BY <1>0, <2>2
    <3>3. \A i, j \in 1 .. Len(queue) : queue[i] = queue[j] => i = j
      BY <3>2 DEF QueueHoldsStubs
    <3>4. QED
      BY <2>2, <3>1, <3>2, <3>3
  <2>6. ~ Iterating'
    BY <2>1 DEF Iterating
  <2>7. QED
    BY <1>0, <2>1, <2>3, <2>5, <2>6 DEF QueueHoldsStubs
<1>6. ASSUME NEW c \in Clients, UnhookRemove(c) PROVE QueueHoldsStubs'
  <2>1. /\ pc[c] = "stub" /\ ~ Iterating /\ linker' = linker
        /\ queue' = Without(c) /\ pc' = [pc EXCEPT ![c] = "unhook"]
    BY <1>6 DEF UnhookRemove
  <2>2. c \in Queued
    BY <2>1 DEF QueueHoldsStubs
  <2>3. /\ Queued' = Queued \ {c}
        /\ \A i, j \in DOMAIN queue' : queue'[i] = queue'[j] => i = j
    BY <1>0, <2>1, <2>2, WithoutEntry DEF QueueHoldsStubs, Queued
  <2>4. ~ Iterating'
    BY <2>1 DEF Iterating
  <2>5. QED
    BY <1>0, <2>1, <2>3, <2>4 DEF QueueHoldsStubs
<1>7. CASE PendingStart
  <2>1. linker.pc = "rdlock" /\ linker' = [linker EXCEPT !.pc = "pending", !.todo = queue]
        /\ UNCHANGED <<queue, pc>>
    BY <1>7 DEF PendingStart
  <2>2. linker \in [pc : Opening, lib : Libs, todo : Seq(Clients), seen : SUBSET Clients]
    BY <1>0, <2>1 DEF Linker, NoLinker, Closing
  <2>3. linker'.todo = queue
    BY <2>1, <2>2
  <2>4. QED
    BY <2>1, <2>3 DEF QueueHoldsStubs, Queued
<1>8. CASE PendingStep
  <2> DEFINE k == Head(linker.todo)
  <2>1. /\ linker.pc = "pending" /\ UNCHANGED <<queue, pc>>
        /\ Range(linker.todo) = {k} \cup Range(Tail(linker.todo))
        /\ linker'.todo \in {Tail(linker.todo), <<>>}
    BY <1>8, PendingStepEffect
  <2>2. Range(<<>>) = {}
    BY DEF Range
  <2>3. Range(linker'.todo) \subseteq Range(linker.todo)
    BY <2>1, <2>2
  <2>4. QED
    BY <2>1, <2>3 DEF QueueHoldsStubs, Iterating, Queued
<1>9. ASSUME UNCHANGED <<queue, pc>>, linker'.pc # "pending"
      PROVE  QueueHoldsStubs'
  BY <1>9 DEF QueueHoldsStubs, Queued, Iterating
<1>10. ASSUME NEW lib \in Libs, Dlopen(lib) \/ Dlclose(lib) PROVE QueueHoldsStubs'
  BY <1>9, <1>10 DEF Dlopen, Dlclose
<1>11. CASE InitPre \/ PendingEnd \/ DlopenEnd
  <2>1. linker \in [pc : Opening, lib : Libs, todo : Seq(Clients), seen : SUBSET Clients]
    BY <1>0, <1>11 DEF InitPre, PendingEnd, DlopenEnd, Iterating, Linker, NoLinker, Closing
  <2>2. QED
    BY <1>9, <1>11, <2>1 DEF InitPre, PendingEnd, DlopenEnd, NoLinker
<1>12. CASE FreeSwitches \/ ResetTasks \/ Unmap
  <2>1. linker.pc \in Closing
    BY <1>12 DEF FreeSwitches, ResetTasks, Unmap, Closing
  <2>2. linker \in [pc : Closing, lib : Libs]
    BY <1>0, <2>1, LinkerForms
  <2>3. linker' = NoLinker \/ \E q \in Closing : linker' = [linker EXCEPT !.pc = q]
    BY <1>12 DEF FreeSwitches, ResetTasks, Unmap, Closing
  <2>4. linker'.pc # "pending"
    BY <2>2, <2>3 DEF NoLinker, Closing
  <2>5. UNCHANGED <<queue, pc>>
    BY <1>12 DEF FreeSwitches, ResetTasks, Unmap
  <2>6. QED
    BY <1>9, <2>4, <2>5
<1>13. CASE UNCHANGED vars
  BY <1>13 DEF vars, QueueHoldsStubs, Queued, Iterating
<1>14. QED
  BY <1>2, <1>3, <1>4, <1>5, <1>6, <1>7, <1>8, <1>10, <1>11, <1>12, <1>13
     DEF Next, ClientStep, LinkerStep

(* Whatever else happens, the unfinished tasks in the queue stay the same. *)
LEMMA NextCountMatches ==
  Types /\ TaskPhases /\ QueueHoldsStubs /\ CountMatches /\ [Next]_vars => CountMatches'
<1> SUFFICES ASSUME Types, TaskPhases, QueueHoldsStubs, CountMatches, [Next]_vars
             PROVE  CountMatches'
  OBVIOUS
<1>0. /\ queue \in Seq(Clients) /\ linker \in Linker /\ cnt \in Int
      /\ task \in [Clients -> Task \cup {None}] /\ None \notin Task
      /\ pc \in [Clients -> {"idle", "stub", "initlock"} \cup InProgress \cup InitPcs]
  BY TaskAssumption DEF Types, TypeOK
<1>1. IsFiniteSet(Unfinished) /\ Unfinished \subseteq Clients /\ Cardinality(Unfinished) \in Nat
  BY <1>0, QueuedIsFinite, FS_Subset, FS_CardinalityType DEF Unfinished
<1>2. ASSUME Unfinished' = Unfinished, cnt' = cnt PROVE CountMatches'
  BY <1>2 DEF CountMatches
<1>3. ASSUME NEW c \in Clients, c \notin Queued, queue' = queue, cnt' = cnt,
             \A d \in Clients : d # c => task'[d] = task[d]
      PROVE  CountMatches'
  <2>1. Queued' = Queued /\ Queued \subseteq Clients
    BY <1>0, <1>3, QueuedIsFinite DEF Queued
  <2>2. Unfinished' = Unfinished
    BY <1>3, <2>1 DEF Unfinished
  <2>3. QED
    BY <1>2, <1>3, <2>2
<1>4. ASSUME NEW c \in Clients, NEW lib \in Libs, NEW byName \in BOOLEAN, HookStart(c, lib, byName)
      PROVE  CountMatches'
  BY <1>0, <1>3, <1>4 DEF HookStart, QueueHoldsStubs
<1>5. ASSUME NEW c \in Clients, HookLookup(c) \/ HookSwitch(c) \/ UnhookSwitch(c)
      PROVE  CountMatches'
  <2>1. c \notin Queued /\ queue' = queue /\ cnt' = cnt
    BY <1>5 DEF HookLookup, HookSwitch, UnhookSwitch, QueueHoldsStubs
  <2>2. \A d \in Clients : d # c => task'[d] = task[d]
    BY <1>0, <1>5 DEF HookLookup, HookSwitch, UnhookSwitch, Give
  <2>3. QED
    BY <1>3, <2>1, <2>2
<1>6. ASSUME NEW c \in Clients, HookInsert(c) PROVE CountMatches'
  <2>1. /\ pc[c] = "insert" /\ queue' = Append(queue, c) /\ task' = task
        /\ cnt' = IF task[c].finished THEN cnt ELSE cnt + 1
    BY <1>6 DEF HookInsert
  <2>2. Queued' = Queued \cup {c} /\ c \notin Queued
    <3>1. Queued' = Queued \cup {c}
      BY <1>0, <2>1, AppendProperties DEF Queued, Range
    <3>2. QED
      BY <2>1, <3>1 DEF QueueHoldsStubs
  <2>3. Unfinished' = IF task[c].finished THEN Unfinished ELSE Unfinished \cup {c}
    BY <2>1, <2>2 DEF Unfinished
  <2>4. c \notin Unfinished
    BY <2>2 DEF Unfinished
  <2>5. Cardinality(Unfinished \cup {c}) = Cardinality(Unfinished) + 1
    BY <1>1, <2>4, FS_AddElement
  <2>6. QED
    BY <2>1, <2>3, <2>5 DEF CountMatches
<1>7. ASSUME NEW c \in Clients, UnhookRemove(c) PROVE CountMatches'
  <2>1. /\ pc[c] = "stub" /\ queue' = Without(c) /\ task' = task
        /\ cnt' = IF task[c].finished THEN cnt ELSE cnt - 1
    BY <1>7 DEF UnhookRemove
  <2>2. c \in Queued /\ Queued' = Queued \ {c}
    BY <1>0, <2>1, WithoutEntry DEF QueueHoldsStubs, Queued
  <2>3. Unfinished' = Unfinished \ {c}
    BY <2>1, <2>2 DEF Unfinished
  <2>4. c \in Unfinished <=> ~ task[c].finished
    BY <2>2 DEF Unfinished
  <2>5. Cardinality(Unfinished \ {c}) =
          IF c \in Unfinished THEN Cardinality(Unfinished) - 1 ELSE Cardinality(Unfinished)
    BY <1>1, FS_RemoveElement
  <2>6. QED
    BY <2>1, <2>3, <2>4, <2>5 DEF CountMatches
<1>8. CASE PendingStep
  <2> DEFINE k == Head(linker.todo)
  <2>1. k \in Queued /\ k \in Clients /\ UNCHANGED queue
    BY <1>8, PendingStepEffect
  <2>2. CASE UNCHANGED <<task, cnt>>
    <3>1. Unfinished' = Unfinished
      BY <2>1, <2>2 DEF Unfinished, Queued
    <3>2. QED
      BY <1>2, <2>2, <3>1
  <2>3. CASE /\ Matches(k) /\ cnt' = cnt - 1 /\ task'[k].finished
             /\ \A c \in Clients : c # k => task'[c] = task[c]
    <3>1. k \in Unfinished
      BY <2>1, <2>3 DEF Unfinished, Matches
    <3>2. Unfinished' = Unfinished \ {k}
      <4>1. Queued' = Queued /\ Queued \subseteq Clients
        BY <1>0, <2>1, QueuedIsFinite DEF Queued
      <4>2. QED
        BY <2>1, <2>3, <4>1 DEF Unfinished
    <3>3. Cardinality(Unfinished \ {k}) = Cardinality(Unfinished) - 1
      BY <1>1, <3>1, FS_RemoveElement
    <3>4. QED
      BY <2>3, <3>2, <3>3 DEF CountMatches
  <2>4. QED
    BY <1>8, <2>2, <2>3, PendingStepEffect
<1>9. CASE ResetTasks
  <2>1. /\ queue' = queue /\ cnt' = cnt + Cardinality(ToReset)
        /\ \A c \in Clients :
             task'[c] = IF c \in ToReset
                        THEN [task[c] EXCEPT !.addr = None, !.error = FALSE, !.finished = FALSE]
                        ELSE task[c]
    BY <1>9 DEF ResetTasks
  <2>2. ToReset \subseteq Queued /\ Queued \subseteq Clients /\ Queued' = Queued
    BY <1>0, <2>1, QueuedIsFinite DEF ToReset, Queued
  <2>3. \A c \in ToReset : task[c] \in Task /\ ~ task'[c].finished
    <3>1. \A c \in ToReset : task[c] \in Task
      BY <1>0, <2>2 DEF QueueHoldsStubs, TaskPhases
    <3>2. QED
      BY <2>1, <2>2, <3>1 DEF Task
  <2>4. Unfinished' = Unfinished \cup ToReset
    BY <2>1, <2>2, <2>3 DEF Unfinished
  <2>5. Unfinished \cap ToReset = {}
    BY DEF Unfinished, ToReset
  <2>6. IsFiniteSet(ToReset)
    BY <1>0, <2>2, QueuedIsFinite, FS_Subset
  <2>7. Cardinality(Unfinished \cup ToReset) = Cardinality(Unfinished) + Cardinality(ToReset)
    <3>1. Cardinality(Unfinished \cap ToReset) = 0
      BY <2>5, FS_EmptySet
    <3>2. Cardinality(ToReset) \in Nat
      BY <2>6, FS_CardinalityType
    <3>3. Cardinality(Unfinished \cup ToReset) =
            Cardinality(Unfinished) + Cardinality(ToReset) - Cardinality(Unfinished \cap ToReset)
      BY <1>1, <2>6, FS_Union
    <3>4. QED
      BY <1>1, <3>1, <3>2, <3>3
  <2>8. QED
    BY <2>1, <2>4, <2>7 DEF CountMatches
<1>10. CASE UNCHANGED <<queue, task, cnt>>
  <2>1. Unfinished' = Unfinished
    BY <1>10 DEF Unfinished, Queued
  <2>2. QED
    BY <1>2, <1>10, <2>1
<1>11. QED
  BY <1>4, <1>5, <1>6, <1>7, <1>8, <1>9, <1>10
     DEF Next, ClientStep, LinkerStep, InitCall, InitLock, InitHook, ScanStart, ScanLoad, ScanEnd,
         Register, Dlopen, Dlclose, InitPre, PendingStart, PendingEnd, DlopenEnd, FreeSwitches,
         Unmap, vars

----------------------------------------------------------------------------
(* One thread at a time initialises, step by step.                         *)
LEMMA NextInitPhases ==
  Types /\ TaskPhases /\ QueueHoldsStubs /\ InitPhases /\ [Next]_vars => InitPhases'
<1> SUFFICES ASSUME Types, TaskPhases, QueueHoldsStubs, InitPhases, [Next]_vars
             PROVE  InitPhases'
  OBVIOUS
<1>0. /\ pc \in [Clients -> {"idle", "stub", "initlock"} \cup InProgress \cup InitPcs]
      /\ task \in [Clients -> Task \cup {None}]
      /\ proxies \subseteq {"ctors", "dtors"} /\ cbs \subseteq {"init", "fini"}
      /\ initErrno \in {"uninit", "ok", "error"}
  BY DEF Types, TypeOK
<1> USE DEF InitPhases, Initialising
<1>1. ASSUME NEW c \in Clients, InitCall(c) PROVE InitPhases'
  BY <1>0, <1>1 DEF InitCall, InitPcs, boot
<1>2. ASSUME NEW c \in Clients, InitLock(c) PROVE InitPhases'
  BY <1>0, <1>2 DEF InitLock, InitPcs
<1>3. ASSUME NEW c \in Clients, InitHook(c) PROVE InitPhases'
  <2>1. pc[c] \in InitPcs /\ initErrno = "uninit"
    BY <1>0, <1>3 DEF InitHook, InitPcs
  <2>2. \A d \in Clients : d # c => pc[d] \notin InitPcs
    BY <2>1
  <2>3. CASE pc[c] = "hookctors"
    BY <1>0, <1>3, <2>1, <2>2, <2>3 DEF InitHook, InitFinish, InitPcs
  <2>4. CASE pc[c] = "hookdtors"
    <3>1. proxies \cup {"dtors"} = {"ctors", "dtors"}
      BY <1>0, <2>4
    <3>2. /\ \/ proxies' = {"ctors", "dtors"} /\ pc' = [pc EXCEPT ![c] = "scan"] /\ initErrno' = initErrno
             \/ InitFinish(c, "error")
          /\ UNCHANGED <<task, scanTid, cbs>>
      BY <1>3, <2>4, <3>1 DEF InitHook
    <3>3. QED
      BY <1>0, <2>1, <2>2, <2>4, <3>2 DEF InitFinish, InitPcs
  <2>5. QED
    BY <1>3, <2>3, <2>4 DEF InitHook
<1>4. ASSUME NEW c \in Clients, ScanStart(c) PROVE InitPhases'
  BY <1>0, <1>4 DEF ScanStart, InitPcs
<1>5. ASSUME NEW c \in Clients, ScanLoad(c) PROVE InitPhases'
  BY <1>0, <1>5 DEF ScanLoad, InitPcs
<1>6. ASSUME NEW c \in Clients, ScanEnd(c) PROVE InitPhases'
  BY <1>0, <1>6 DEF ScanEnd, InitPcs
<1>7. ASSUME NEW c \in Clients, Register(c) PROVE InitPhases'
  <2>1. pc[c] = "register" /\ pc[c] \in InitPcs /\ initErrno = "uninit"
    BY <1>0, <1>7 DEF Register, InitPcs
  <2>2. \A d \in Clients : d # c => pc[d] \notin InitPcs
    BY <2>1
  <2>3. CASE InitFinish(c, "error") /\ cbs' = cbs
    BY <1>0, <1>7, <2>1, <2>2, <2>3 DEF Register, InitFinish, InitPcs
  <2>4. CASE cbs' = cbs \cup {"fini"} /\ "init" \in cbs /\ InitFinish(c, "ok")
    <3>1. cbs' = {"init", "fini"}
      BY <1>0, <2>4
    <3>2. scanTid = None /\ proxies = {"ctors", "dtors"} /\ UNCHANGED <<task, proxies, scanTid>>
      BY <1>7, <2>1 DEF Register
    <3>3. initErrno' = "ok" /\ pc' = [pc EXCEPT ![c] = "idle"]
      BY <2>4 DEF InitFinish
    <3>4. QED
      BY <1>0, <2>1, <2>2, <3>1, <3>2, <3>3 DEF InitPcs
  <2>5. CASE UNCHANGED <<initErrno, pc>>
    BY <1>0, <1>7, <2>1, <2>2, <2>5 DEF Register, InitPcs
  <2>6. QED
    BY <1>7, <2>3, <2>4, <2>5 DEF Register
<1>8. ASSUME UNCHANGED boot, \A d \in Clients : pc'[d] \in InitPcs <=> pc[d] \in InitPcs,
             \A d \in Clients : pc'[d] \in InitPcs => pc'[d] = pc[d],
             \A d \in Clients : task'[d] # None => task[d] # None \/ initErrno = "ok"
      PROVE  InitPhases'
  <2>1. UNCHANGED <<initErrno, proxies, scanTid, cbs>>
    BY <1>8 DEF boot
  <2>2. QED
    BY <1>8, <2>1 DEF InitPcs
<1>9. ASSUME NEW c \in Clients, NEW lib \in Libs, NEW byName \in BOOLEAN, HookStart(c, lib, byName)
      PROVE  InitPhases'
  <2>1. /\ UNCHANGED boot /\ initErrno = "ok" /\ pc[c] = "idle" /\ pc' = [pc EXCEPT ![c] = "lookup"]
    BY <1>9 DEF HookStart
  <2>2. QED
    BY <1>0, <1>8, <2>1 DEF InitPcs
<1>10. ASSUME NEW c \in Clients,
              HookLookup(c) \/ HookSwitch(c) \/ HookInsert(c) \/ UnhookRemove(c) \/ UnhookSwitch(c)
       PROVE  InitPhases'
  <2>1. /\ UNCHANGED boot /\ pc[c] \notin InitPcs /\ task[c] # None
        /\ \E q \in {"hook", "insert", "stub", "unhook", "idle"} : pc' = [pc EXCEPT ![c] = q]
    BY <1>10 DEF HookLookup, HookSwitch, HookInsert, UnhookRemove, UnhookSwitch, Give, InitPcs,
                 TaskPhases, InProgress
  <2>2. \A d \in Clients : d # c => task'[d] = task[d]
    BY <1>0, <1>10 DEF HookLookup, HookSwitch, HookInsert, UnhookRemove, UnhookSwitch, Give
  <2>3. QED
    BY <1>0, <1>8, <2>1, <2>2 DEF InitPcs
<1>11. CASE PendingStep
  <2>1. /\ UNCHANGED <<boot, pc>>
        /\ Head(linker.todo) \in Clients /\ task[Head(linker.todo)] \in Task
        /\ \A d \in Clients : d # Head(linker.todo) => task'[d] = task[d]
    BY <1>11, PendingStepEffect
  <2>2. QED
    BY <1>8, <2>1, TaskAssumption
<1>12. CASE ResetTasks
  <2>1. UNCHANGED <<boot, pc>> /\ \A c \in Clients : c \notin ToReset => task'[c] = task[c]
    BY <1>12 DEF ResetTasks
  <2>2. \A c \in Clients : c \in ToReset => task[c] # None
    BY DEF ToReset, QueueHoldsStubs, TaskPhases
  <2>3. QED
    BY <1>8, <2>1, <2>2
<1>13. CASE UNCHANGED <<boot, pc, task>>
  BY <1>8, <1>13
<1>14. QED
  BY <1>1, <1>2, <1>3, <1>4, <1>5, <1>6, <1>7, <1>9, <1>10, <1>11, <1>12, <1>13
     DEF Next, ClientStep, LinkerStep, Dlopen, Dlclose, InitPre, PendingStart, PendingEnd,
         DlopenEnd, FreeSwitches, Unmap, vars

(* The scan is over, for better or worse, before hook calls are let in.    *)
LEMMA NextScanPhases ==
  Types /\ InitPhases /\ ScanPhases /\ [Next]_vars => ScanPhases'
<1> SUFFICES ASSUME Types, InitPhases, ScanPhases, [Next]_vars PROVE ScanPhases'
  OBVIOUS
<1>0. /\ pc \in [Clients -> {"idle", "stub", "initlock"} \cup InProgress \cup InitPcs]
      /\ offsets \in [{"phdr", "bias"} -> Int \cup {NotFound}]
  BY DEF Types, TypeOK
<1>1. ASSUME UNCHANGED <<scanOk, offsets>>, initErrno' = "ok" => initErrno = "ok" \/ (FirstLoad => scanOk),
             \A d \in Clients : pc'[d] \in {"scanned", "register"} => pc[d] \in {"scanned", "register"}
      PROVE  ScanPhases'
  BY <1>1 DEF ScanPhases
<1>2. ASSUME NEW c \in Clients, ScanLoad(c) PROVE ScanPhases'
  <2>1. (FirstLoad => scanOk') /\ (scanOk' => offsets' = [phdr |-> 0, bias |-> 0])
    BY <1>0, <1>2, ScanLoadEffect DEF ScanPhases
  <2>2. QED
    BY <2>1 DEF ScanPhases
<1>3. ASSUME NEW c \in Clients, Register(c) PROVE ScanPhases'
  BY <1>0, <1>1, <1>3 DEF Register, InitFinish, ScanPhases
<1>4. ASSUME NEW c \in Clients, InitCall(c) \/ InitLock(c) \/ InitHook(c) \/ ScanStart(c) \/ ScanEnd(c)
      PROVE  ScanPhases'
  BY <1>0, <1>1, <1>4 DEF InitCall, InitLock, InitHook, InitFinish, ScanStart, ScanEnd, boot
<1>5. ASSUME NEW c \in Clients, NEW lib \in Libs, NEW byName \in BOOLEAN, HookStart(c, lib, byName)
      PROVE  ScanPhases'
  BY <1>0, <1>1, <1>5 DEF HookStart, boot
<1>6. ASSUME NEW c \in Clients,
             HookLookup(c) \/ HookSwitch(c) \/ HookInsert(c) \/ UnhookRemove(c) \/ UnhookSwitch(c)
      PROVE  ScanPhases'
  BY <1>0, <1>1, <1>6 DEF HookLookup, HookSwitch, HookInsert, UnhookRemove, UnhookSwitch, Give, boot
<1>7. CASE UNCHANGED <<boot, pc>>
  BY <1>1, <1>7 DEF boot
<1>8. QED
  BY <1>2, <1>3, <1>4, <1>5, <1>6, <1>7
     DEF Next, ClientStep, LinkerStep, Dlopen, Dlclose, InitPre, PendingStart, PendingStep,
         PendingEnd, DlopenEnd, FreeSwitches, ResetTasks, Unmap, vars

(* Only the linker loads and unloads, one library at a time.               *)
LEMMA NextLinkerPhases ==
  Types /\ TaskPhases /\ QueueHoldsStubs /\ LinkerPhases /\ [Next]_vars => LinkerPhases'
<1> SUFFICES ASSUME Types, TaskPhases, QueueHoldsStubs, LinkerPhases, [Next]_vars
             PROVE  LinkerPhases'
  OBVIOUS
<1>0. linker \in Linker /\ loaded \in [Libs -> {"no", "mapped", "open"}]
  BY DEF Types, TypeOK
<1> USE DEF LinkerPhases
<1>1. ASSUME NEW lib \in Libs, Dlopen(lib) PROVE LinkerPhases'
  BY <1>0, <1>1 DEF Dlopen, Opening, Closing
<1>2. ASSUME NEW lib \in Libs, Dlclose(lib) PROVE LinkerPhases'
  BY <1>0, <1>2 DEF Dlclose, Opening, Closing
<1>3. ASSUME loaded' = loaded, linker'.lib = linker.lib,
             linker'.pc \in Opening <=> linker.pc \in Opening,
             linker'.pc \in Closing <=> linker.pc \in Closing
      PROVE  LinkerPhases'
  BY <1>3
<1>4. CASE InitPre \/ PendingStart \/ PendingEnd
  <2>1. linker.pc \in Opening /\ loaded' = loaded
    BY <1>4 DEF InitPre, PendingStart, PendingEnd, Iterating, Opening
  <2>2. linker \in [pc : Opening, lib : Libs, todo : Seq(Clients), seen : SUBSET Clients]
    BY <1>0, <2>1, LinkerForms
  <2>3. linker'.lib = linker.lib /\ linker'.pc \in Opening
    BY <1>4, <2>2 DEF InitPre, PendingStart, PendingEnd, Opening
  <2>4. QED
    BY <1>3, <2>1, <2>3 DEF Opening, Closing
<1>5. CASE PendingStep
  <2>1. linker'.lib = linker.lib /\ linker.pc = "pending" /\ linker'.pc \in {"pending", "ctors"}
        /\ loaded' = loaded
    BY <1>5, PendingStepEffect
  <2>2. QED
    BY <1>3, <2>1 DEF Opening, Closing
<1>6. CASE DlopenEnd
  BY <1>0, <1>6 DEF DlopenEnd, NoLinker, Opening, Closing
<1>7. CASE FreeSwitches \/ ResetTasks
  <2>1. linker.pc \in Closing /\ loaded' = loaded
    BY <1>7 DEF FreeSwitches, ResetTasks, Closing
  <2>2. linker \in [pc : Closing, lib : Libs]
    BY <1>0, <2>1, LinkerForms
  <2>3. linker'.lib = linker.lib /\ linker'.pc \in Closing
    BY <1>7, <2>2 DEF FreeSwitches, ResetTasks, Closing
  <2>4. QED
    BY <1>3, <2>1, <2>3 DEF Opening, Closing
<1>8. CASE Unmap
  BY <1>0, <1>8 DEF Unmap, NoLinker, Opening, Closing
<1>9. CASE UNCHANGED <<loaded, linker>>
  BY <1>9
<1>10. QED
  BY <1>1, <1>2, <1>4, <1>5, <1>6, <1>7, <1>8, <1>9
     DEF Next, ClientStep, LinkerStep, InitCall, InitLock, InitHook, ScanStart, ScanLoad, ScanEnd,
         Register, HookStart, HookLookup, HookSwitch, HookInsert, UnhookRemove, UnhookSwitch, vars

----------------------------------------------------------------------------
(* The inductive invariant holds in every state.                           *)
THEOREM Invariance == Spec => []IInv
<1>1. Init => IInv
  BY InitIInv
<1>2. IInv /\ [Next]_vars => IInv'
  BY NextTypes, NextTaskPhases, NextQueueHoldsStubs, NextCountMatches, NextInitPhases,
     NextScanPhases, NextLinkerPhases DEF IInv
<1>3. QED
  BY <1>1, <1>2, PTL DEF Spec

(* The state has its types.                                                *)
THEOREM TypeCorrect == Spec => []TypeOK
<1>1. IInv => TypeOK
  BY DEF IInv, Types
<1>2. QED
  BY <1>1, Invariance, PTL

(* Whatever hooks, unhooks, loads and unloads interleave, the queue holds  *)
(* every stub that is out once and the walk meets no task that was freed.  *)
THEOREM QueueStaysAlive == Spec => []QueueIsAlive
<1>1. IInv => QueueIsAlive
  <2> SUFFICES ASSUME IInv PROVE QueueIsAlive
    OBVIOUS
  <2>1. Queued \subseteq Clients /\ Cardinality(Queued) = Len(queue)
    BY QueuedIsFinite DEF IInv, Types, TypeOK, QueueHoldsStubs
  <2>2. QED
    BY <2>1 DEF IInv, QueueHoldsStubs, QueueIsAlive
<1>2. QED
  BY <1>1, Invariance, PTL

(* The counter of unfinished tasks is right, however many there are.       *)
THEOREM CounterIsRight == Spec => []CountMatches
<1>1. IInv => CountMatches
  BY DEF IInv
<1>2. QED
  BY <1>1, Invariance, PTL

(* No task by address ever waits: the walk never dereferences NULL.        *)
THEOREM OnlyNamedTasksWait == Spec => []WaitingTasksHaveNames
<1>1. IInv => WaitingTasksHaveNames
  <2> SUFFICES ASSUME IInv, NEW k \in Unfinished PROVE task[k].byName
    BY DEF WaitingTasksHaveNames
  <2>1. k \in Clients /\ k \in Queued /\ ~ task[k].finished
    BY QueuedIsFinite DEF IInv, Types, TypeOK, Unfinished
  <2>2. QED
    BY <2>1 DEF IInv, QueueHoldsStubs, TaskPhases
<1>2. QED
  BY <1>1, Invariance, PTL

(* Whoever gets as far as a hook call finds the monitor set up.            *)
THEOREM MonitorComesFirst == Spec => []HooksFindMonitor
<1>1. IInv => HooksFindMonitor
  BY DEF IInv, InitPhases, HooksFindMonitor
<1>2. QED
  BY <1>1, Invariance, PTL

(* The scan of a soinfo that is new finds its layout, and no scan ever     *)
(* reports another layout than the true one.                               *)
THEOREM LayoutIsRight == Spec => []LayoutIsFound
<1>1. IInv => LayoutIsFound
  BY DEF IInv, ScanPhases, LayoutIsFound
<1>2. QED
  BY <1>1, Invariance, PTL

(* After initialisation no step changes what it has set up.                *)
LEMMA BootIsFinal ==
  ASSUME IInv, [Next]_vars, initErrno # "uninit"
  PROVE  UNCHANGED boot
<1>1. \A c \in Clients : pc[c] \notin InitPcs
  BY DEF IInv, InitPhases, Initialising
<1>2. ASSUME NEW c \in Clients, InitLock(c) PROVE UNCHANGED boot
  BY <1>2 DEF InitLock, boot
<1>3. ASSUME NEW c \in Clients, InitCall(c) PROVE FALSE
  BY <1>3 DEF InitCall
<1>4. ASSUME NEW c \in Clients,
             InitHook(c) \/ ScanStart(c) \/ ScanLoad(c) \/ ScanEnd(c) \/ Register(c)
      PROVE  FALSE
  BY <1>1, <1>4 DEF InitHook, ScanStart, ScanLoad, ScanEnd, Register, InitPcs
<1>5. QED
  BY <1>2, <1>3, <1>4
     DEF Next, ClientStep, LinkerStep, HookStart, HookLookup, HookSwitch, HookInsert,
         UnhookRemove, UnhookSwitch, Dlopen, Dlclose, InitPre, PendingStart, PendingStep,
         PendingEnd, DlopenEnd, FreeSwitches, ResetTasks, Unmap, vars, boot

(* Once shadowhook_init() has a result nothing it has set up changes, not  *)
(* even by threads that have been waiting for its mutex since before.      *)
THEOREM InitHappensOnce == Spec => InitIsFinal
<1>1. IInv /\ [Next]_vars => [initErrno # "uninit" => UNCHANGED boot]_vars
  BY BootIsFinal
<1>2. QED
  BY <1>1, Invariance, PTL DEF Spec, InitIsFinal

----------------------------------------------------------------------------
(* Once hook calls are let in, loads and unloads call back: the layout of  *)
(* soinfo has been found.                                                  *)
LEMMA TasksAreServed ==
  ASSUME FirstLoad, IInv, initErrno = "ok"
  PROVE  CallsBack("ctors") /\ CallsBack("dtors") /\ "fini" \in cbs
BY DEF IInv, InitPhases, ScanPhases, CallsBack

(* What a step of a client leaves alone.                                   *)
LEMMA ClientSteps ==
  ASSUME IInv, NEW c \in Clients, ClientStep(c)
  PROVE  /\ linker' = linker /\ loaded' = loaded
         /\ \A k \in Clients : k # c => pc'[k] = pc[k] /\ task'[k] = task[k]
         /\ pc'[c] \in {"hook", "insert"} => pc[c] = "hook" \/ linker.pc = "none"
         /\ pc'[c] = "stub" => pc[c] = "insert" /\ ~ Iterating
         /\ c \in Queued => task'[c] = task[c] /\ pc'[c] = "unhook"
<1>1. /\ pc \in [Clients -> {"idle", "stub", "initlock"} \cup InProgress \cup InitPcs]
      /\ task \in [Clients -> Task \cup {None}] /\ (c \in Queued <=> pc[c] = "stub")
  BY DEF IInv, Types, TypeOK, QueueHoldsStubs
<1>2. ASSUME InitCall(c) \/ InitLock(c) \/ InitHook(c) \/ ScanLoad(c) \/ ScanEnd(c) \/ Register(c)
      PROVE  /\ linker' = linker /\ loaded' = loaded /\ task' = task /\ pc[c] # "stub"
             /\ \/ pc' = pc /\ pc[c] = "register"
                \/ \E q \in {"idle", "initlock"} \cup InitPcs : pc' = [pc EXCEPT ![c] = q]
  BY <1>2 DEF InitCall, InitLock, InitHook, InitFinish, ScanLoad, ScanEnd, Register, InitPcs
<1>3. CASE InitCall(c) \/ InitLock(c) \/ InitHook(c) \/ ScanLoad(c) \/ ScanEnd(c) \/ Register(c)
  BY <1>1, <1>2, <1>3 DEF InitPcs
<1>4. CASE ScanStart(c)
  BY <1>1, <1>4 DEF ScanStart
<1>5. ASSUME NEW lib \in Libs, NEW byName \in BOOLEAN, HookStart(c, lib, byName)
      PROVE  /\ linker' = linker /\ loaded' = loaded /\ pc[c] = "idle"
             /\ pc' = [pc EXCEPT ![c] = "lookup"]
             /\ \A k \in Clients : k # c => task'[k] = task[k]
  BY <1>1, <1>5 DEF HookStart
<1>6. CASE \E lib \in Libs, byName \in BOOLEAN : HookStart(c, lib, byName)
  BY <1>1, <1>5, <1>6
<1>7. CASE HookLookup(c)
  BY <1>1, <1>7 DEF HookLookup, Give
<1>8. CASE HookSwitch(c)
  BY <1>1, <1>8 DEF HookSwitch, Give
<1>9. CASE HookInsert(c)
  BY <1>1, <1>9 DEF HookInsert
<1>10. CASE UnhookRemove(c)
  BY <1>1, <1>10 DEF UnhookRemove
<1>11. CASE UnhookSwitch(c)
  BY <1>1, <1>11 DEF UnhookSwitch, Give
<1>12. QED
  BY <1>3, <1>4, <1>6, <1>7, <1>8, <1>9, <1>10, <1>11 DEF ClientStep

(* The walk tries whatever it was started for.                             *)
LEMMA NextWalkCovers ==
  ASSUME FirstLoad
  PROVE  IInv /\ IInv' /\ WalkCovers /\ [Next]_vars => WalkCovers'
<1> SUFFICES ASSUME IInv, IInv', WalkCovers, [Next]_vars PROVE WalkCovers'
  OBVIOUS
<1>0. /\ linker \in Linker /\ Queued \subseteq Clients
      /\ task \in [Clients -> Task \cup {None}] /\ None \notin Task
  BY TaskAssumption, QueuedIsFinite DEF IInv, Types, TypeOK
<1>1. ASSUME NEW c \in Clients, ClientStep(c) PROVE WalkCovers'
  <2>1. CASE linker.pc \notin Opening
    BY <1>1, <2>1, ClientSteps DEF WalkCovers, Opening
  <2>2. CASE linker.pc \in Opening
    <3>1. linker.seen \subseteq Clients /\ linker.pc # "none" /\ linker' = linker
      BY <1>0, <1>1, <2>2, LinkerForms, ClientSteps DEF Opening
    <3>2. \A k \in linker.seen : pc'[k] \notin {"hook", "insert"}
      BY <1>1, <2>2, <3>1, ClientSteps DEF WalkCovers
    <3>3. \A k \in linker.seen : k \in Unfinished' => k \in Unfinished /\ task'[k] = task[k]
      <4> SUFFICES ASSUME NEW k \in linker.seen, k \in Unfinished'
                   PROVE  k \in Unfinished /\ task'[k] = task[k]
        OBVIOUS
      <4>1. pc'[k] = "stub" /\ ~ task'[k].finished
        BY <3>1 DEF Unfinished, IInv, QueueHoldsStubs
      <4>2. k # c
        BY <1>1, <2>2, <3>1, <4>1, ClientSteps DEF WalkCovers
      <4>3. pc[k] = "stub" /\ task'[k] = task[k]
        BY <1>1, <3>1, <4>1, <4>2, ClientSteps
      <4>4. QED
        BY <3>1, <4>1, <4>3 DEF Unfinished, IInv, QueueHoldsStubs
    <3>4. QED
      BY <2>2, <3>1, <3>2, <3>3 DEF WalkCovers
  <2>3. QED
    BY <2>1, <2>2
<1>2. ASSUME NEW lib \in Libs, Dlopen(lib) PROVE WalkCovers'
  <2>1. linker' = [pc |-> "init", lib |-> lib, todo |-> <<>>,
                   seen |-> {k \in Queued : task[k].lib = lib}] /\ pc' = pc
    BY <1>2 DEF Dlopen
  <2>2. \A k \in linker'.seen : pc'[k] = "stub"
    BY <1>0, <2>1 DEF IInv, QueueHoldsStubs
  <2>3. QED
    BY <2>1, <2>2 DEF WalkCovers
<1>3. ASSUME NEW lib \in Libs, Dlclose(lib) PROVE WalkCovers'
  BY <1>3 DEF Dlclose, WalkCovers, Opening
<1>4. CASE InitPre
  <2>1. linker.pc = "init" /\ UNCHANGED <<task, pc, queue, cnt>>
    BY <1>4 DEF InitPre
  <2>2. linker \in [pc : Opening, lib : Libs, todo : Seq(Clients), seen : SUBSET Clients]
    BY <1>0, <2>1, LinkerForms DEF Opening
  <2>3. /\ linker'.seen = linker.seen /\ linker'.lib = linker.lib
        /\ linker'.pc = IF CallsBack("ctors") /\ cnt > 0 THEN "rdlock" ELSE "ctors"
    BY <1>4, <2>2 DEF InitPre
  <2>4. CASE linker'.pc = "rdlock"
    BY <2>1, <2>3, <2>4 DEF WalkCovers, Opening
  <2>5. CASE linker'.pc = "ctors"
    <3>1. Unfinished = {}
      <4> SUFFICES ASSUME NEW k \in Unfinished PROVE FALSE
        OBVIOUS
      <4>1. initErrno = "ok"
        BY <1>0 DEF Unfinished, IInv, QueueHoldsStubs, TaskPhases, InitPhases
      <4>2. IsFiniteSet(Unfinished)
        BY QueuedIsFinite, FS_Subset DEF Unfinished, IInv, Types, TypeOK
      <4>3. cnt # 0 /\ cnt \in Nat
        BY <4>2, FS_EmptySet, FS_CardinalityType DEF IInv, CountMatches
      <4>4. QED
        BY <2>3, <2>5, <4>1, <4>3, TasksAreServed
    <3>2. Unfinished' = {}
      BY <2>1, <3>1 DEF Unfinished, Queued
    <3>3. QED
      BY <2>1, <2>3, <2>5, <3>2 DEF WalkCovers, Opening
  <2>6. QED
    BY <2>3, <2>4, <2>5
<1>5. CASE PendingStart
  <2>1. linker.pc = "rdlock" /\ UNCHANGED <<task, pc, queue>>
    BY <1>5 DEF PendingStart
  <2>2. linker \in [pc : Opening, lib : Libs, todo : Seq(Clients), seen : SUBSET Clients]
    BY <1>0, <2>1, LinkerForms DEF Opening
  <2>3. /\ linker'.seen = linker.seen /\ linker'.lib = linker.lib
        /\ linker'.pc = "pending" /\ linker'.todo = queue
    BY <1>5, <2>2 DEF PendingStart
  <2>4. Unfinished' \subseteq Range(linker'.todo)
    BY <2>1, <2>3 DEF Unfinished, Queued
  <2>5. QED
    BY <2>1, <2>3, <2>4 DEF WalkCovers, Opening
<1>6. CASE PendingStep
  <2> DEFINE k == Head(linker.todo)
  <2>1. /\ linker.pc = "pending" /\ linker'.lib = linker.lib /\ linker'.seen \subseteq linker.seen
        /\ linker.seen \in SUBSET Clients /\ k \in Clients /\ k \in Queued
        /\ Range(linker.todo) = {k} \cup Range(Tail(linker.todo))
        /\ UNCHANGED <<pc, queue>>
        /\ \/ ~ Matches(k) /\ UNCHANGED task
           \/ Matches(k) /\ k \notin linker'.seen /\ UNCHANGED task
           \/ /\ Matches(k) /\ task'[k].finished
              /\ \A c \in Clients : c # k => task'[c] = task[c]
    BY <1>6, PendingStepEffect DEF IInv
  <2>2. \A j \in linker'.seen : j \in Unfinished' =>
          j \in Unfinished /\ task'[j] = task[j] /\ ~ (j = k /\ Matches(k))
    BY <2>1 DEF Unfinished, Queued
  <2>3. CASE linker'.pc = "pending" /\ linker'.todo = Tail(linker.todo)
    <3>1. \A j \in linker'.seen \cap Unfinished' : task'[j].lib = linker.lib =>
            j \in Range(linker'.todo)
      BY <2>1, <2>2, <2>3 DEF WalkCovers, Matches, Unfinished
    <3>2. QED
      BY <2>1, <2>3, <3>1 DEF WalkCovers, Opening
  <2>4. CASE linker'.pc = "ctors" /\ Matches(k) /\ cnt = 1
    <3>1. k \in Unfinished
      BY <2>1, <2>4 DEF Unfinished, Matches
    <3>2. IsFiniteSet(Unfinished) /\ Cardinality(Unfinished) = 1
      BY <2>4, QueuedIsFinite, FS_Subset DEF Unfinished, IInv, Types, TypeOK, CountMatches
    <3>3. Unfinished = {k}
      BY <3>1, <3>2, FS_Singleton
    <3>4. \A j \in linker'.seen : j \notin Unfinished'
      BY <2>2, <2>4, <3>3
    <3>5. QED
      BY <2>1, <2>4, <3>4 DEF WalkCovers, Opening
  <2>5. QED
    BY <1>6, <2>3, <2>4, PendingStepEffect DEF IInv
<1>7. CASE PendingEnd
  <2>1. linker.pc = "pending" /\ linker.todo = <<>> /\ UNCHANGED <<task, pc, queue>>
    BY <1>7 DEF PendingEnd, Iterating
  <2>2. linker \in [pc : Opening, lib : Libs, todo : Seq(Clients), seen : SUBSET Clients]
    BY <1>0, <2>1, LinkerForms DEF Opening
  <2>3. linker'.seen = linker.seen /\ linker'.lib = linker.lib /\ linker'.pc = "ctors"
    BY <1>7, <2>2 DEF PendingEnd
  <2>4. Range(linker.todo) = {}
    BY <2>1 DEF Range
  <2>5. Unfinished' = Unfinished
    BY <2>1 DEF Unfinished, Queued
  <2>6. QED
    BY <2>1, <2>3, <2>4, <2>5 DEF WalkCovers, Opening
<1>8. CASE DlopenEnd \/ Unmap
  BY <1>8 DEF DlopenEnd, Unmap, NoLinker, WalkCovers, Opening
<1>9. CASE FreeSwitches \/ ResetTasks
  <2>1. linker.pc \in Closing
    BY <1>9 DEF FreeSwitches, ResetTasks, Closing
  <2>2. linker \in [pc : Closing, lib : Libs]
    BY <1>0, <2>1, LinkerForms
  <2>3. linker'.pc \in Closing
    BY <1>9, <2>2 DEF FreeSwitches, ResetTasks, Closing
  <2>4. QED
    BY <2>3 DEF WalkCovers, Opening, Closing
<1>10. CASE UNCHANGED vars
  BY <1>10 DEF vars, WalkCovers, Unfinished, Queued
<1>11. QED
  BY <1>1, <1>2, <1>3, <1>4, <1>5, <1>6, <1>7, <1>8, <1>9, <1>10 DEF Next, LinkerStep

(* If libmyhook.so is loaded for the first time when the monitor is set    *)
(* up, no constructor runs before all the tasks that waited for the        *)
(* library have been tried, or searched for without the memory for it.     *)
THEOREM LoadsHookPending == ASSUME FirstLoad PROVE Spec => []LoadHooksPending
<1>1. Init => WalkCovers
  BY InitIInv
<1>2. WalkCovers => LoadHooksPending
  BY DEF WalkCovers, LoadHooksPending, Unfinished
<1>3. IInv /\ IInv' /\ WalkCovers /\ [Next]_vars => WalkCovers'
  BY NextWalkCovers
<1>4. QED
  BY <1>1, <1>2, <1>3, Invariance, PTL DEF Spec

----------------------------------------------------------------------------
(* Proofs about the tasks in calm programs: those that neither open nor    *)
(* close a library while a hook call for it is in progress.  What is       *)
(* promised about waiting and switches holds in those, if the layout of    *)
(* soinfo is found because libmyhook.so is new when the monitor is set up. *)
Finished(c) == task[c] # None /\ task[c].finished /\ ~ task[c].error

(* Whoever is about to hook, or to wait after a search that did not fail   *)
(* for lack of memory, has its library as it found it.                     *)
LookupsHold ==
  \A c \in Clients :
    /\ pc[c] = "hook" => /\ loaded[task[c].lib] = "open"
                         /\ linker.pc \in Closing => linker.lib # task[c].lib
    /\ "search" \notin Faults =>
         (pc[c] = "insert" /\ ~ task[c].finished => loaded[task[c].lib] = "no")
    /\ task[c] # None /\ linker.pc \in Closing /\ task[c].lib = linker.lib =>
         pc[c] = "lookup" \/ (pc[c] \in {"stub", "unhook"} /\ task[c].byName)

(* If no search fails, a task that waits has a library that is not there,  *)
(* or about to come or to go.                                              *)
WaitersHaveReason ==
  \A k \in Unfinished :
    \/ loaded[task[k].lib] = "no"
    \/ /\ linker.lib = task[k].lib
       /\ \/ linker.pc \in {"init", "rdlock", "pending"} /\ k \in linker.seen
          \/ linker.pc = "unmap"

(* Switches are in libraries that are there, lead to one proxy only in     *)
(* unique mode, and the function is patched.                               *)
SwitchesAreSound ==
  \A l \in Libs :
    /\ loaded[l] = "no" => tree[l] = {}
    /\ linker.pc \in {"reset", "unmap"} /\ linker.lib = l => tree[l] = {}
    /\ tree[l] # {} => l \in patched /\ initErrno = "ok"
    /\ unique => \A c, d \in tree[l] : c = d

(* A finished task is in effect, or its library has been closed.           *)
InEffect(c) == c \in tree[task[c].lib]
Stale(c) ==
  /\ pc[c] = "unhook" /\ tree[task[c].lib] = {}
  /\ \/ loaded[task[c].lib] = "no"
     \/ linker.pc \in {"reset", "unmap"} /\ linker.lib = task[c].lib
ToWait(c) == pc[c] = "stub" /\ task[c].byName /\ linker.pc = "reset" /\ linker.lib = task[c].lib

FinishedAreHooked ==
  \A c \in Clients : Finished(c) => InEffect(c) \/ Stale(c) \/ ToWait(c)

CalmInv ==
  /\ IInv
  /\ WalkCovers
  /\ LookupsHold
  /\ "search" \notin Faults => WaitersHaveReason
  /\ SwitchesAreSound
  /\ FinishedAreHooked

----------------------------------------------------------------------------
(* What the steps of the linker leave alone, and where they lead.          *)
LEMMA OpeningSteps ==
  ASSUME IInv, InitPre \/ PendingStart \/ PendingEnd
  PROVE  /\ linker.pc \in {"init", "rdlock", "pending"} /\ linker'.pc \in Opening
         /\ linker'.lib = linker.lib /\ linker'.seen = linker.seen
         /\ UNCHANGED <<loaded, tree, patched, task, pc, queue, cnt, boot>>
<1>1. linker \in [pc : Opening, lib : Libs, todo : Seq(Clients), seen : SUBSET Clients]
  <2>1. linker.pc \in Opening /\ linker \in Linker
    BY DEF InitPre, PendingStart, PendingEnd, Iterating, Opening, IInv, Types
  <2>2. QED
    BY <2>1, LinkerForms
<1>2. CASE InitPre
  BY <1>1, <1>2 DEF InitPre, Opening
<1>3. CASE PendingStart
  BY <1>1, <1>3 DEF PendingStart, Opening
<1>4. CASE PendingEnd
  BY <1>1, <1>4 DEF PendingEnd, Iterating, Opening
<1>5. QED
  BY <1>2, <1>3, <1>4

LEMMA FreeSwitchesEffect ==
  ASSUME IInv, FreeSwitches
  PROVE  /\ linker.pc = "fini" /\ linker.lib \in Libs /\ linker'.lib = linker.lib
         /\ \/ /\ linker'.pc = "reset" /\ tree'[linker.lib] = {} /\ tree' \in [Libs -> SUBSET Clients]
               /\ \A l \in Libs : l # linker.lib => tree'[l] = tree[l]
            \/ linker'.pc = "unmap" /\ tree' = tree /\ "fini" \notin cbs
         /\ UNCHANGED <<loaded, patched, task, pc, queue, cnt, boot>>
<1>1. linker \in [pc : Closing, lib : Libs] /\ tree \in [Libs -> SUBSET Clients]
  <2>1. linker.pc \in Closing /\ linker \in Linker
    BY DEF FreeSwitches, Closing, IInv, Types
  <2>2. QED
    BY <2>1, LinkerForms DEF IInv, Types, TypeOK
<1>2. QED
  BY <1>1 DEF FreeSwitches

LEMMA ResetTasksEffect ==
  ASSUME IInv, ResetTasks
  PROVE  /\ linker.pc = "reset" /\ linker.lib \in Libs
         /\ linker'.pc = "unmap" /\ linker'.lib = linker.lib
         /\ \A c \in ToReset : /\ c \in Clients /\ task[c].lib = linker.lib
                                /\ task'[c] \in Task /\ task'[c].lib = task[c].lib
                                /\ task'[c].byName = task[c].byName /\ ~ task'[c].finished
         /\ \A c \in Clients : c \notin ToReset => task'[c] = task[c]
         /\ UNCHANGED <<loaded, tree, patched, pc, queue, boot>>
<1>1. linker \in [pc : Closing, lib : Libs]
  <2>1. linker.pc \in Closing /\ linker \in Linker
    BY DEF ResetTasks, Closing, IInv, Types
  <2>2. QED
    BY <2>1, LinkerForms
<1>2. \A c \in ToReset : c \in Clients /\ task[c] \in Task /\ task[c].lib = linker.lib
  <2> SUFFICES ASSUME NEW c \in ToReset
               PROVE  c \in Clients /\ task[c] \in Task /\ task[c].lib = linker.lib
    OBVIOUS
  <2>1. c \in Clients /\ c \in Queued
    BY QueuedIsFinite DEF ToReset, IInv, Types, TypeOK
  <2>2. task[c] # None /\ task[c].addr \in {task[c].lib, None} /\ task[c].addr = linker.lib
    BY <2>1 DEF ToReset, IInv, QueueHoldsStubs, TaskPhases
  <2>3. linker.lib # None
    BY <1>1, TaskAssumption
  <2>4. QED
    BY <2>1, <2>2, <2>3 DEF IInv, Types, TypeOK
<1>3. \A c \in ToReset : /\ task'[c] \in Task /\ task'[c].lib = task[c].lib
                         /\ task'[c].byName = task[c].byName /\ ~ task'[c].finished
  <2> SUFFICES ASSUME NEW c \in ToReset
               PROVE  LET t == [task[c] EXCEPT !.addr = None, !.error = FALSE, !.finished = FALSE]
                      IN t \in Task /\ t.lib = task[c].lib /\ t.byName = task[c].byName /\ ~ t.finished
    BY <1>2 DEF ResetTasks
  <2>1. QED
    BY <1>2 DEF Task
<1>4. QED
  BY <1>1, <1>2, <1>3 DEF ResetTasks

----------------------------------------------------------------------------
(* Lookups are not overtaken by the linker.                                *)
LEMMA NextLookupsHold ==
  ASSUME Calm
  PROVE  IInv /\ LookupsHold /\ [Next]_vars => LookupsHold'
<1> SUFFICES ASSUME IInv, LookupsHold, [Next]_vars PROVE LookupsHold'
  OBVIOUS
<1>0. /\ linker \in Linker /\ task \in [Clients -> Task \cup {None}] /\ None \notin Task
      /\ pc \in [Clients -> {"idle", "stub", "initlock"} \cup InProgress \cup InitPcs]
      /\ loaded \in [Libs -> {"no", "mapped", "open"}]
  BY TaskAssumption DEF IInv, Types, TypeOK
<1> DEFINE Holds(c) ==
      /\ pc[c] = "hook" => /\ loaded[task[c].lib] = "open"
                           /\ linker.pc \in Closing => linker.lib # task[c].lib
      /\ "search" \notin Faults =>
           (pc[c] = "insert" /\ ~ task[c].finished => loaded[task[c].lib] = "no")
      /\ task[c] # None /\ linker.pc \in Closing /\ task[c].lib = linker.lib =>
           pc[c] = "lookup" \/ (pc[c] \in {"stub", "unhook"} /\ task[c].byName)
<1>1. (\A c \in Clients : Holds(c)') => LookupsHold'
  BY DEF LookupsHold
<1>2. \A c \in Clients : Holds(c)
  BY DEF LookupsHold
<1>3. ASSUME NEW c \in Clients, ClientStep(c) PROVE LookupsHold'
  <2>1. /\ linker' = linker /\ loaded' = loaded
        /\ \A k \in Clients : k # c => pc'[k] = pc[k] /\ task'[k] = task[k]
    BY <1>3, ClientSteps
  <2>2. \A k \in Clients : k # c => Holds(k)'
    BY <1>2, <2>1
  <2>3. linker.pc = "none" => \A l \in Libs : loaded[l] # "no" => loaded[l] = "open"
    BY <1>0 DEF IInv, LinkerPhases, Opening
  <2>4. CASE \E lib \in Libs, byName \in BOOLEAN : HookStart(c, lib, byName)
    <3>1. pc'[c] = "lookup"
      BY <1>0, <2>4 DEF HookStart
    <3>2. Holds(c)'
      BY <3>1
    <3>3. QED
      BY <1>1, <2>2, <3>2
  <2>5. CASE HookLookup(c)
    <3>1. task[c] \in Task /\ task[c].lib \in Libs /\ linker.pc = "none"
      BY <1>0, <2>5 DEF HookLookup, IInv, TaskPhases, InProgress, Task
    <3>2. ASSUME task' = [task EXCEPT ![c].addr = task[c].lib], pc' = [pc EXCEPT ![c] = "hook"],
                 loaded[task[c].lib] # "no"
          PROVE  Holds(c)'
      <4>1. task'[c].lib = task[c].lib /\ pc'[c] = "hook"
        BY <1>0, <3>1, <3>2 DEF Task
      <4>2. QED
        BY <2>1, <2>3, <3>1, <3>2, <4>1 DEF Closing
    <3>3. ASSUME loaded[task[c].lib] = "no" \/ "search" \in Faults, pc' = [pc EXCEPT ![c] = "insert"], task' = task
          PROVE  Holds(c)'
      <4>1. pc'[c] = "insert"
        BY <1>0, <3>3
      <4>2. QED
        BY <2>1, <3>1, <3>3, <4>1 DEF Closing
    <3>4. ASSUME Give(c) PROVE Holds(c)'
      <4>1. pc'[c] = "idle" /\ task'[c] = None
        BY <1>0, <3>4 DEF Give
      <4>2. QED
        BY <4>1
    <3>5. Holds(c)'
      BY <2>5, <3>2, <3>3, <3>4 DEF HookLookup
    <3>6. QED
      BY <1>1, <2>2, <3>5
  <2>6. CASE HookSwitch(c)
    <3>1. task[c] \in Task /\ pc[c] = "hook"
      BY <1>0, <2>6 DEF HookSwitch, IInv, TaskPhases, InProgress
    <3>2. ASSUME task' = [task EXCEPT ![c].finished = TRUE], pc' = [pc EXCEPT ![c] = "insert"]
          PROVE  Holds(c)'
      <4>1. task'[c].lib = task[c].lib /\ task'[c].finished /\ pc'[c] = "insert"
        BY <1>0, <3>1, <3>2 DEF Task
      <4>2. ~ (linker.pc \in Closing /\ task[c].lib = linker.lib)
        BY <1>2, <3>1
      <4>3. QED
        BY <2>1, <4>1, <4>2
    <3>3. ASSUME Give(c) PROVE Holds(c)'
      <4>1. pc'[c] = "idle" /\ task'[c] = None
        BY <1>0, <3>3 DEF Give
      <4>2. QED
        BY <4>1
    <3>4. Holds(c)'
      BY <2>6, <3>2, <3>3 DEF HookSwitch
    <3>5. QED
      BY <1>1, <2>2, <3>4
  <2>7. CASE HookInsert(c)
    BY <1>0, <1>1, <1>2, <2>1, <2>2, <2>7 DEF HookInsert
  <2>8. CASE UnhookRemove(c)
    BY <1>0, <1>1, <1>2, <2>1, <2>2, <2>8 DEF UnhookRemove
  <2>9. CASE UnhookSwitch(c)
    BY <1>0, <1>1, <2>2, <2>9 DEF UnhookSwitch, Give
  <2>10. CASE \/ InitCall(c) \/ InitLock(c) \/ InitHook(c)
              \/ ScanStart(c) \/ ScanLoad(c) \/ ScanEnd(c) \/ Register(c)
    <3>1. task' = task /\ task[c] = None /\ pc'[c] \notin {"hook", "insert"}
      BY <1>0, <2>10 DEF InitCall, InitLock, InitHook, InitFinish, ScanStart, ScanLoad, ScanEnd,
                         Register, IInv, TaskPhases, InProgress
    <3>2. QED
      BY <1>1, <2>2, <3>1
  <2>11. QED
    BY <1>3, <2>4, <2>5, <2>6, <2>7, <2>8, <2>9, <2>10 DEF ClientStep
<1>4. ASSUME NEW lib \in Libs, Dlopen(lib) PROVE LookupsHold'
  <2>1. /\ ~ Busy(lib) /\ linker'.pc = "init" /\ loaded[lib] = "no" /\ UNCHANGED <<task, pc>>
        /\ loaded' = [loaded EXCEPT ![lib] = "mapped"]
    BY <1>4 DEF Dlopen
  <2>2. \A c \in Clients : pc[c] \in {"hook", "insert"} => task[c] \in Task /\ task[c].lib # lib
    BY <1>0, <2>1 DEF Busy, IInv, TaskPhases, InProgress
  <2>3. \A c \in Clients : pc[c] \in {"hook", "insert"} => loaded'[task[c].lib] = loaded[task[c].lib]
    BY <1>0, <2>1, <2>2 DEF Task
  <2>4. QED
    BY <1>1, <1>2, <2>1, <2>3 DEF Closing
<1>5. ASSUME NEW lib \in Libs, Dlclose(lib) PROVE LookupsHold'
  <2>1. ~ Busy(lib) /\ linker'.lib = lib /\ UNCHANGED <<loaded, task, pc>>
    BY <1>5 DEF Dlclose
  <2>2. \A c \in Clients : task[c] # None /\ task[c].lib = lib => pc[c] = "stub" /\ task[c].byName
    BY <2>1 DEF Busy, IInv, TaskPhases
  <2>3. \A c \in Clients : pc[c] = "hook" => task[c] # None
    BY DEF IInv, TaskPhases, InProgress
  <2>4. QED
    BY <1>1, <1>2, <2>1, <2>2, <2>3
<1>6. CASE InitPre \/ PendingStart \/ PendingEnd
  <2>1. UNCHANGED <<loaded, task, pc>> /\ linker'.pc \in Opening
    BY <1>6, OpeningSteps
  <2>2. QED
    BY <1>1, <1>2, <2>1 DEF Opening, Closing
<1>7. CASE PendingStep
  <2> DEFINE k == Head(linker.todo)
  <2>1. /\ UNCHANGED <<loaded, pc>> /\ linker'.pc \in {"pending", "ctors"} /\ pc[k] = "stub"
        /\ \A c \in Clients : c # k => task'[c] = task[c]
    BY <1>7, PendingStepEffect DEF IInv
  <2>2. QED
    BY <1>1, <1>2, <2>1 DEF Closing
<1>8. CASE DlopenEnd
  <2>1. /\ linker.pc \in Opening /\ linker'.pc = "none" /\ UNCHANGED <<task, pc>>
        /\ loaded' = [loaded EXCEPT ![linker.lib] = "open"]
    BY <1>8 DEF DlopenEnd, NoLinker, Opening
  <2>2. linker.lib \in Libs /\ loaded[linker.lib] = "mapped"
    BY <1>0, <2>1, LinkerForms DEF IInv, LinkerPhases
  <2>3. \A c \in Clients : pc[c] \in {"hook", "insert"} => task[c].lib \in Libs
    BY <1>0 DEF IInv, TaskPhases, InProgress, Task
  <2>4. QED
    BY <1>0, <1>1, <1>2, <2>1, <2>2, <2>3 DEF Closing
<1>9. CASE FreeSwitches
  <2>1. /\ UNCHANGED <<loaded, task, pc>> /\ linker'.lib = linker.lib
        /\ linker.pc \in Closing /\ linker'.pc \in Closing
    BY <1>9, FreeSwitchesEffect DEF Closing
  <2>2. QED
    BY <1>1, <1>2, <2>1
<1>10. CASE ResetTasks
  <2>1. /\ UNCHANGED <<loaded, pc>> /\ linker'.lib = linker.lib
        /\ linker.pc \in Closing /\ linker'.pc \in Closing
    BY <1>10, ResetTasksEffect DEF Closing
  <2>2. \A c \in Clients :
          \/ task'[c] = task[c]
          \/ /\ c \in ToReset /\ task'[c].lib = task[c].lib
             /\ task'[c].byName = task[c].byName /\ pc[c] = "stub"
    BY <1>10, ResetTasksEffect DEF ToReset, IInv, QueueHoldsStubs
  <2>3. \A c \in ToReset : c \in Clients => task[c] # None
    BY DEF ToReset, IInv, QueueHoldsStubs, TaskPhases
  <2>4. QED
    BY <1>1, <1>2, <2>1, <2>2, <2>3
<1>11. CASE Unmap
  <2>1. /\ linker.pc \in Closing /\ linker'.pc = "none" /\ UNCHANGED <<task, pc>>
        /\ loaded' = [loaded EXCEPT ![linker.lib] = "no"]
    BY <1>11 DEF Unmap, NoLinker, Closing
  <2>2. \A c \in Clients : pc[c] \in {"hook", "insert"} => task[c].lib \in Libs
    BY <1>0 DEF IInv, TaskPhases, InProgress, Task
  <2>3. QED
    BY <1>0, <1>1, <1>2, <2>1, <2>2 DEF Closing
<1>12. CASE UNCHANGED vars
  BY <1>1, <1>2, <1>12 DEF vars
<1>13. QED
  BY <1>3, <1>4, <1>5, <1>6, <1>7, <1>8, <1>9, <1>10, <1>11, <1>12 DEF Next, LinkerStep

----------------------------------------------------------------------------
(* Whoever has found no library waits with good reason, and what waits     *)
(* when its library comes is tried before its constructors run.            *)
LEMMA NextWaitersHaveReason ==
  ASSUME "search" \notin Faults
  PROVE  IInv /\ IInv' /\ WalkCovers' /\ LookupsHold /\ WaitersHaveReason /\ [Next]_vars =>
           WaitersHaveReason'
<1> SUFFICES ASSUME IInv, IInv', WalkCovers', LookupsHold, WaitersHaveReason, [Next]_vars,
                    NEW k \in Unfinished'
             PROVE  \/ loaded'[task'[k].lib] = "no"
                    \/ /\ linker'.lib = task'[k].lib
                       /\ \/ linker'.pc \in {"init", "rdlock", "pending"} /\ k \in linker'.seen
                          \/ linker'.pc = "unmap"
  BY DEF WaitersHaveReason
<1>0. /\ linker \in Linker /\ task \in [Clients -> Task \cup {None}] /\ None \notin Task
      /\ loaded \in [Libs -> {"no", "mapped", "open"}]
  BY TaskAssumption DEF IInv, Types, TypeOK
<1>1. k \in Clients /\ k \in Queued' /\ pc'[k] = "stub" /\ ~ task'[k].finished
  <2>1. k \in Queued' /\ ~ task'[k].finished /\ queue' \in Seq(Clients)
    BY DEF IInv, Types, TypeOK, Unfinished
  <2>2. k \in Clients
    BY <2>1 DEF Queued, Range
  <2>3. QED
    BY <2>1, <2>2 DEF IInv, QueueHoldsStubs
<1>2. ASSUME pc[k] = "stub", ~ task[k].finished
      PROVE  /\ k \in Unfinished /\ task[k] \in Task /\ task[k].lib \in Libs
             /\ \/ loaded[task[k].lib] = "no"
                \/ /\ linker.lib = task[k].lib
                   /\ \/ linker.pc \in {"init", "rdlock", "pending"} /\ k \in linker.seen
                      \/ linker.pc = "unmap"
  BY <1>0, <1>1, <1>2 DEF WaitersHaveReason, Unfinished, IInv, QueueHoldsStubs, TaskPhases, Task
<1>3. ASSUME NEW c \in Clients, ClientStep(c)
      PROVE  \/ loaded'[task'[k].lib] = "no"
             \/ /\ linker'.lib = task'[k].lib
                /\ \/ linker'.pc \in {"init", "rdlock", "pending"} /\ k \in linker'.seen
                   \/ linker'.pc = "unmap"
  <2>1. /\ linker' = linker /\ loaded' = loaded
        /\ k # c => pc'[k] = pc[k] /\ task'[k] = task[k]
        /\ k = c => pc[c] = "insert"
    BY <1>1, <1>3, ClientSteps
  <2>2. CASE k # c
    BY <1>1, <1>2, <2>1, <2>2
  <2>3. CASE k = c
    <3>1. task' = task
      BY <1>3, <2>1, <2>3 DEF ClientStep, InitCall, InitLock, InitHook, ScanStart, ScanLoad, ScanEnd,
         Register, HookStart, HookLookup, HookSwitch, HookInsert, UnhookRemove, UnhookSwitch
    <3>2. QED
      BY <1>1, <2>1, <2>3, <3>1 DEF LookupsHold
  <2>4. QED
    BY <2>2, <2>3
<1>4. ASSUME NEW lib \in Libs, Dlopen(lib)
      PROVE  \/ loaded'[task'[k].lib] = "no"
             \/ linker'.lib = task'[k].lib /\ linker'.pc = "init" /\ k \in linker'.seen
  <2>1. /\ linker.pc = "none" /\ UNCHANGED <<task, pc, queue>>
        /\ loaded' = [loaded EXCEPT ![lib] = "mapped"]
        /\ linker'.pc = "init" /\ linker'.lib = lib
        /\ linker'.seen = {j \in Queued : task[j].lib = lib}
    BY <1>4 DEF Dlopen
  <2>2. loaded[task[k].lib] = "no" /\ k \in Queued /\ task[k].lib \in Libs
    BY <1>1, <1>2, <2>1 DEF Unfinished
  <2>3. QED
    BY <1>0, <2>1, <2>2
<1>5. ASSUME NEW lib \in Libs, Dlclose(lib) PROVE loaded'[task'[k].lib] = "no"
  BY <1>1, <1>2, <1>5 DEF Dlclose
<1>6. CASE InitPre \/ PendingStart \/ PendingEnd
  <2>1. /\ linker.pc \in {"init", "rdlock", "pending"} /\ linker'.pc \in Opening
        /\ linker'.lib = linker.lib /\ linker'.seen = linker.seen
        /\ UNCHANGED <<loaded, task, pc>>
    BY <1>6, OpeningSteps
  <2>2. linker'.pc = "ctors" => ~ (k \in linker'.seen /\ task'[k].lib = linker'.lib)
    BY DEF WalkCovers
  <2>3. QED
    BY <1>1, <1>2, <2>1, <2>2 DEF Opening
<1>7. CASE PendingStep
  <2>1. /\ linker'.pc \in {"pending", "ctors"} /\ linker'.lib = linker.lib
        /\ linker'.seen = linker.seen /\ linker.pc = "pending" /\ UNCHANGED <<loaded, pc>>
        /\ task'[k] = task[k] \/ task'[k].finished
    BY <1>1, <1>7, PendingStepEffect DEF IInv
  <2>2. linker'.pc = "ctors" => ~ (k \in linker'.seen /\ task'[k].lib = linker'.lib)
    BY DEF WalkCovers
  <2>3. QED
    BY <1>1, <1>2, <2>1, <2>2
<1>8. CASE DlopenEnd
  <2>1. /\ linker.pc = "ctors" /\ UNCHANGED <<task, pc>>
        /\ loaded' = [loaded EXCEPT ![linker.lib] = "open"]
    BY <1>8 DEF DlopenEnd
  <2>2. linker.lib \in Libs /\ loaded[linker.lib] = "mapped"
    BY <1>0, <2>1, LinkerForms DEF IInv, LinkerPhases, Opening
  <2>3. QED
    BY <1>0, <1>1, <1>2, <2>1, <2>2
<1>9. CASE FreeSwitches
  BY <1>1, <1>2, <1>9, FreeSwitchesEffect
<1>10. CASE ResetTasks
  BY <1>1, <1>2, <1>10, ResetTasksEffect
<1>11. CASE Unmap
  <2>1. /\ linker.pc = "unmap" /\ UNCHANGED <<task, pc>>
        /\ loaded' = [loaded EXCEPT ![linker.lib] = "no"]
    BY <1>11 DEF Unmap
  <2>2. QED
    BY <1>0, <1>1, <1>2, <2>1
<1>12. CASE UNCHANGED vars
  BY <1>1, <1>2, <1>12 DEF vars
<1>13. QED
  BY <1>3, <1>4, <1>5, <1>6, <1>7, <1>8, <1>9, <1>10, <1>11, <1>12 DEF Next, LinkerStep

----------------------------------------------------------------------------
(* Switches come and go with their libraries, once initialisation is done. *)
LEMMA NextSwitchesAreSound ==
  ASSUME Calm, FirstLoad
  PROVE  IInv /\ LookupsHold /\ SwitchesAreSound /\ [Next]_vars => SwitchesAreSound'
<1> SUFFICES ASSUME IInv, LookupsHold, SwitchesAreSound, [Next]_vars PROVE SwitchesAreSound'
  OBVIOUS
<1> DEFINE Sound(l) ==
      /\ loaded[l] = "no" => tree[l] = {}
      /\ linker.pc \in {"reset", "unmap"} /\ linker.lib = l => tree[l] = {}
      /\ tree[l] # {} => l \in patched /\ initErrno = "ok"
      /\ unique => \A c, d \in tree[l] : c = d
<1>0. /\ linker \in Linker /\ task \in [Clients -> Task \cup {None}] /\ None \notin Task
      /\ loaded \in [Libs -> {"no", "mapped", "open"}] /\ tree \in [Libs -> SUBSET Clients]
  BY TaskAssumption DEF IInv, Types, TypeOK
<1>1. (\A l \in Libs : Sound(l)') => SwitchesAreSound'
  BY DEF SwitchesAreSound
<1>2. \A l \in Libs : Sound(l)
  BY DEF SwitchesAreSound
<1>3. initErrno = "ok" => initErrno' = "ok" /\ unique' = unique
  BY BootIsFinal DEF boot
<1>4. ASSUME NEW lib \in Libs, NEW c \in Clients, Accepts(lib, c), SwitchHook(lib, c),
             initErrno = "ok", loaded' = loaded, loaded[lib] # "no",
             linker'.pc \in {"reset", "unmap"} => linker'.pc = linker.pc /\ linker'.lib = linker.lib,
             linker.pc \in {"reset", "unmap"} => linker.lib # lib
      PROVE  SwitchesAreSound'
  <2>1. /\ tree'[lib] = tree[lib] \cup {c} /\ lib \in patched'
        /\ \A l \in Libs : l # lib => tree'[l] = tree[l] /\ (l \in patched => l \in patched')
        /\ unique => tree[lib] = {}
    BY <1>0, <1>2, <1>4 DEF Accepts, SwitchHook
  <2>2. Sound(lib)'
    BY <1>3, <1>4, <2>1
  <2>3. \A l \in Libs : l # lib => Sound(l)'
    BY <1>2, <1>3, <1>4, <2>1
  <2>4. QED
    BY <1>1, <2>2, <2>3
<1>5. ASSUME UNCHANGED <<loaded, tree, patched>>,
             linker'.pc \in {"reset", "unmap"} => linker'.pc = linker.pc /\ linker'.lib = linker.lib
      PROVE  SwitchesAreSound'
  <2>1. \A l \in Libs : Sound(l)'
    <3> SUFFICES ASSUME NEW l \in Libs PROVE Sound(l)'
      OBVIOUS
    <3>1. CASE tree[l] = {}
      BY <1>5, <3>1
    <3>2. CASE tree[l] # {}
      BY <1>2, <1>3, <1>5, <3>2
    <3>3. QED
      BY <3>1, <3>2
  <2>2. QED
    BY <1>1, <2>1
<1>6. ASSUME NEW c \in Clients, HookSwitch(c) PROVE SwitchesAreSound'
  <2>1. /\ pc[c] = "hook" /\ UNCHANGED <<loaded, linker>> /\ task[c] \in Task
    BY <1>0, <1>6 DEF HookSwitch, IInv, TaskPhases, InProgress
  <2>2. CASE UNCHANGED <<tree, patched>>
    BY <1>5, <2>1, <2>2
  <2>3. CASE Accepts(task[c].lib, c) /\ SwitchHook(task[c].lib, c)
    <3>1. task[c].lib \in Libs /\ initErrno = "ok"
      BY <1>0, <2>1 DEF Task, IInv, InitPhases
    <3>2. loaded[task[c].lib] # "no" /\ (linker.pc \in {"reset", "unmap"} => linker.lib # task[c].lib)
      BY <2>1 DEF LookupsHold, Closing
    <3>3. QED
      BY <1>4, <2>1, <2>3, <3>1, <3>2
  <2>4. QED
    BY <1>6, <2>2, <2>3 DEF HookSwitch
<1>7. ASSUME NEW c \in Clients, UnhookSwitch(c) PROVE SwitchesAreSound'
  <2>1. UNCHANGED <<loaded, linker, boot>> /\ task[c] \in Task
    BY <1>0, <1>7 DEF UnhookSwitch, IInv, TaskPhases, InProgress
  <2>2. CASE UNCHANGED <<tree, patched>>
    BY <1>5, <2>1, <2>2
  <2>3. CASE SwitchUnhook(task[c].lib, c)
    <3> DEFINE lib == task[c].lib
    <3>1. lib \in Libs
      BY <2>1 DEF Task
    <3>2. /\ tree'[lib] \subseteq tree[lib]
          /\ tree'[lib] # {} => patched' = patched
          /\ \A l \in Libs : l # lib => tree'[l] = tree[l] /\ (l \in patched => l \in patched')
      BY <1>0, <2>3, <3>1 DEF SwitchUnhook
    <3>3. \A l \in Libs : Sound(l)'
      BY <1>2, <2>1, <3>1, <3>2 DEF boot
    <3>4. QED
      BY <1>1, <3>3
  <2>4. QED
    BY <1>7, <2>2, <2>3 DEF UnhookSwitch
<1>8. ASSUME NEW c \in Clients, ClientStep(c) PROVE SwitchesAreSound'
  <2>1. CASE HookSwitch(c) \/ UnhookSwitch(c)
    BY <1>6, <1>7, <2>1
  <2>2. CASE UNCHANGED <<loaded, tree, patched, linker>>
    BY <1>5, <2>2
  <2>3. QED
    BY <1>8, <2>1, <2>2 DEF ClientStep, InitCall, InitLock, InitHook, ScanStart, ScanLoad, ScanEnd,
       Register, HookStart, HookLookup, HookInsert, UnhookRemove
<1>9. ASSUME NEW lib \in Libs, Dlopen(lib) PROVE SwitchesAreSound'
  <2>1. /\ UNCHANGED <<tree, patched, boot>> /\ linker'.pc = "init"
        /\ loaded' = [loaded EXCEPT ![lib] = "mapped"]
    BY <1>9 DEF Dlopen
  <2>2. \A l \in Libs : Sound(l)'
    BY <1>0, <1>2, <2>1 DEF boot
  <2>3. QED
    BY <1>1, <2>2
<1>10. ASSUME NEW lib \in Libs, Dlclose(lib) PROVE SwitchesAreSound'
  <2>1. /\ UNCHANGED <<loaded, tree, patched, boot>> /\ linker'.lib = lib
        /\ linker'.pc = IF CallsBack("dtors") THEN "fini" ELSE "unmap"
    BY <1>10 DEF Dlclose
  <2>2. linker'.pc = "unmap" => tree[lib] = {}
    BY <1>2, <2>1, TasksAreServed
  <2>3. \A l \in Libs : Sound(l)'
    BY <1>2, <2>1, <2>2 DEF boot
  <2>4. QED
    BY <1>1, <2>3
<1>11. CASE InitPre \/ PendingStart \/ PendingEnd
  <2>1. UNCHANGED <<loaded, tree, patched>> /\ linker'.pc \in Opening
    BY <1>11, OpeningSteps
  <2>2. QED
    BY <1>5, <2>1 DEF Opening
<1>12. CASE PendingStep
  <2> DEFINE k == Head(linker.todo)
  <2>1. /\ linker.pc = "pending" /\ linker'.pc \in {"pending", "ctors"} /\ linker.lib \in Libs
        /\ k \in Clients /\ pc[k] = "stub" /\ loaded' = loaded
        /\ \/ UNCHANGED <<tree, patched>>
           \/ Accepts(linker.lib, k) /\ SwitchHook(linker.lib, k)
    BY <1>12, PendingStepEffect DEF IInv
  <2>2. loaded[linker.lib] = "mapped" /\ initErrno = "ok"
    BY <2>1 DEF IInv, LinkerPhases, Opening, TaskPhases, InitPhases
  <2>3. QED
    BY <1>4, <1>5, <2>1, <2>2
<1>13. CASE DlopenEnd
  <2>1. /\ UNCHANGED <<tree, patched, boot>> /\ linker'.pc = "none"
        /\ loaded' = [loaded EXCEPT ![linker.lib] = "open"]
    BY <1>13 DEF DlopenEnd, NoLinker
  <2>2. \A l \in Libs : Sound(l)'
    BY <1>0, <1>2, <2>1 DEF boot
  <2>3. QED
    BY <1>1, <2>2
<1>14. CASE FreeSwitches
  <2>1. linker.lib \in Libs /\ linker'.lib = linker.lib /\ UNCHANGED <<loaded, patched, boot>>
    BY <1>14, FreeSwitchesEffect
  <2>2. CASE /\ linker'.pc = "reset" /\ tree'[linker.lib] = {}
             /\ \A l \in Libs : l # linker.lib => tree'[l] = tree[l]
    <3>1. \A l \in Libs : Sound(l)'
      BY <1>2, <2>1, <2>2 DEF boot
    <3>2. QED
      BY <1>1, <3>1
  <2>3. CASE linker'.pc = "unmap" /\ tree' = tree /\ "fini" \notin cbs
    <3>1. tree[linker.lib] = {}
      BY <1>2, <2>1, <2>3, TasksAreServed
    <3>2. \A l \in Libs : Sound(l)'
      BY <1>2, <2>1, <2>3, <3>1 DEF boot
    <3>3. QED
      BY <1>1, <3>2
  <2>4. QED
    BY <1>14, <2>2, <2>3, FreeSwitchesEffect
<1>15. CASE ResetTasks
  <2>1. /\ linker.pc = "reset" /\ linker'.pc = "unmap" /\ linker'.lib = linker.lib
        /\ UNCHANGED <<loaded, tree, patched, boot>>
    BY <1>15, ResetTasksEffect
  <2>2. \A l \in Libs : Sound(l)'
    BY <1>2, <2>1 DEF boot
  <2>3. QED
    BY <1>1, <2>2
<1>16. CASE Unmap
  <2>1. /\ linker.pc = "unmap" /\ linker'.pc = "none" /\ UNCHANGED <<tree, boot>>
        /\ loaded' = [loaded EXCEPT ![linker.lib] = "no"]
        /\ patched' = patched \ {linker.lib}
    BY <1>16 DEF Unmap, NoLinker
  <2>2. \A l \in Libs : Sound(l)'
    BY <1>0, <1>2, <2>1 DEF boot
  <2>3. QED
    BY <1>1, <2>2
<1>17. CASE UNCHANGED vars
  BY <1>5, <1>17 DEF vars
<1>18. QED
  BY <1>8, <1>9, <1>10, <1>11, <1>12, <1>13, <1>14, <1>15, <1>16, <1>17 DEF Next, LinkerStep

----------------------------------------------------------------------------
(* A finished task stays in effect until it is taken out or its library is *)
(* closed, which makes it wait, or leaves it to whoever is taking it out.  *)
LEMMA NextFinishedAreHooked ==
  ASSUME Calm
  PROVE  /\ IInv /\ LookupsHold /\ SwitchesAreSound /\ FinishedAreHooked /\ [Next]_vars
         => FinishedAreHooked'
<1> SUFFICES ASSUME IInv, LookupsHold, SwitchesAreSound, FinishedAreHooked, [Next]_vars,
                    NEW d \in Clients, Finished(d)'
             PROVE  InEffect(d)' \/ Stale(d)' \/ ToWait(d)'
  BY DEF FinishedAreHooked
<1>0. /\ linker \in Linker /\ task \in [Clients -> Task \cup {None}] /\ None \notin Task
      /\ pc \in [Clients -> {"idle", "stub", "initlock"} \cup InProgress \cup InitPcs]
      /\ loaded \in [Libs -> {"no", "mapped", "open"}] /\ tree \in [Libs -> SUBSET Clients]
  BY TaskAssumption DEF IInv, Types, TypeOK
<1>1. ASSUME Finished(d)
      PROVE  /\ task[d] \in Task /\ task[d].lib \in Libs
             /\ InEffect(d) \/ Stale(d) \/ ToWait(d)
             /\ pc[d] \in {"insert", "stub", "unhook"}
  BY <1>0, <1>1 DEF FinishedAreHooked, Finished, Task, IInv, TaskPhases, InProgress
<1>2. ASSUME task'[d] = task[d], pc'[d] = pc[d], linker' = linker, loaded' = loaded, tree' = tree
      PROVE  InEffect(d)' \/ Stale(d)' \/ ToWait(d)'
  BY <1>1, <1>2 DEF Finished, InEffect, Stale, ToWait
<1>3. ASSUME NEW c \in Clients, ClientStep(c) PROVE InEffect(d)' \/ Stale(d)' \/ ToWait(d)'
  <2>0. /\ linker' = linker /\ loaded' = loaded
        /\ d # c => pc'[d] = pc[d] /\ task'[d] = task[d]
    BY <1>3, ClientSteps
  <2>1. ASSUME tree' = tree, d = c => pc'[c] = pc[c] /\ task'[c] = task[c]
        PROVE  InEffect(d)' \/ Stale(d)' \/ ToWait(d)'
    BY <1>2, <2>0, <2>1
  <2>2. CASE HookSwitch(c)
    <3> DEFINE lib == task[c].lib
    <3>1. pc[c] = "hook" /\ task[c] \in Task /\ lib \in Libs
      BY <1>0, <2>2 DEF HookSwitch, IInv, TaskPhases, InProgress, Task
    <3>2. loaded[lib] = "open" /\ (linker.pc \in Closing => linker.lib # lib)
      BY <3>1 DEF LookupsHold
    <3>3. ASSUME SwitchHook(lib, c), task' = [task EXCEPT ![c].finished = TRUE]
          PROVE  InEffect(d)' \/ Stale(d)' \/ ToWait(d)'
      <4>1. tree'[lib] = tree[lib] \cup {c} /\ \A l \in Libs : l # lib => tree'[l] = tree[l]
        BY <1>0, <3>1, <3>3 DEF SwitchHook
      <4>2. task'[c].lib = lib
        BY <1>0, <3>1, <3>3 DEF Task
      <4>3. CASE d = c
        BY <4>1, <4>2, <4>3 DEF InEffect
      <4>4. CASE d # c
        <5>1. Finished(d) /\ task'[d] = task[d] /\ pc'[d] = pc[d]
          BY <2>0, <4>4 DEF Finished
        <5>2. CASE InEffect(d)
          BY <1>1, <4>1, <5>1, <5>2 DEF InEffect
        <5>3. CASE Stale(d)
          <6>1. task[d].lib # lib
            BY <3>2, <5>3 DEF Stale, Closing
          <6>2. QED
            BY <1>1, <2>0, <4>1, <5>1, <5>3, <6>1 DEF Stale
        <5>4. CASE ToWait(d)
          BY <2>0, <5>1, <5>4 DEF ToWait
        <5>5. QED
          BY <1>1, <5>1, <5>2, <5>3, <5>4
      <4>5. QED
        BY <4>3, <4>4
    <3>4. ASSUME Give(c), tree' = tree PROVE InEffect(d)' \/ Stale(d)' \/ ToWait(d)'
      <4>1. d # c
        BY <1>0, <3>4 DEF Give, Finished
      <4>2. QED
        BY <2>1, <3>4, <4>1
    <3>5. QED
      BY <2>2, <3>3, <3>4 DEF HookSwitch
  <2>3. CASE UnhookSwitch(c)
    <3> DEFINE lib == task[c].lib
    <3>1. pc[c] = "unhook" /\ task[c] \in Task /\ lib \in Libs
      BY <1>0, <2>3 DEF UnhookSwitch, IInv, TaskPhases, InProgress, Task
    <3>2. d # c
      BY <1>0, <2>3 DEF UnhookSwitch, Give, Finished
    <3>3. Finished(d) /\ task'[d] = task[d] /\ pc'[d] = pc[d]
      BY <2>0, <3>2 DEF Finished
    <3>4. CASE tree' = tree
      BY <2>1, <3>2, <3>4
    <3>5. CASE Finished(c) /\ SwitchUnhook(lib, c)
      <4>1. /\ tree'[lib] = IF unique THEN {} ELSE tree[lib] \ {c}
            /\ \A l \in Libs : l # lib => tree'[l] = tree[l]
        BY <1>0, <3>1, <3>5 DEF SwitchUnhook
      <4>2. InEffect(c) \/ tree[lib] = {}
        BY <3>1, <3>5 DEF FinishedAreHooked, Stale, ToWait
      <4>3. CASE InEffect(d)
        <5>1. CASE task[d].lib = lib /\ unique
          <6>1. c = d
            BY <3>1, <4>2, <4>3, <5>1 DEF InEffect, SwitchesAreSound
          <6>2. QED
            BY <3>2, <6>1
        <5>2. CASE ~ (task[d].lib = lib /\ unique)
          BY <1>1, <3>2, <3>3, <4>1, <4>3, <5>2 DEF InEffect
        <5>3. QED
          BY <5>1, <5>2
      <4>4. CASE Stale(d)
        BY <1>1, <2>0, <3>3, <4>1, <4>4 DEF Stale
      <4>5. CASE ToWait(d)
        BY <2>0, <3>3, <4>5 DEF ToWait
      <4>6. QED
        BY <1>1, <3>3, <4>3, <4>4, <4>5
    <3>6. QED
      BY <2>3, <3>1, <3>4, <3>5, TaskAssumption DEF UnhookSwitch, Finished
  <2>4. CASE UnhookRemove(c)
    <3>1. /\ task' = task /\ tree' = tree /\ pc[c] = "stub" /\ pc'[c] = "unhook"
      BY <1>0, <2>4 DEF UnhookRemove
    <3>2. CASE d = c
      <4>1. Finished(d)
        BY <3>1 DEF Finished
      <4>2. CASE InEffect(d)
        BY <3>1, <4>2 DEF InEffect
      <4>3. CASE ToWait(d)
        <5>1. tree[task[d].lib] = {}
          BY <1>1, <4>1, <4>3 DEF ToWait, SwitchesAreSound
        <5>2. QED
          BY <2>0, <3>1, <3>2, <4>3, <5>1 DEF ToWait, Stale
      <4>4. QED
        BY <1>1, <3>1, <3>2, <4>1, <4>2, <4>3 DEF Stale
    <3>3. QED
      BY <2>1, <3>1, <3>2
  <2>5. CASE HookInsert(c)
    <3>1. task' = task /\ tree' = tree /\ pc[c] = "insert"
      BY <2>5 DEF HookInsert
    <3>2. CASE d = c
      <4>1. InEffect(d)
        BY <1>1, <3>1, <3>2 DEF Finished, Stale, ToWait
      <4>2. QED
        BY <3>1, <4>1 DEF InEffect
    <3>3. QED
      BY <2>1, <3>1, <3>2
  <2>6. CASE \E lib \in Libs, byName \in BOOLEAN : HookStart(c, lib, byName)
    <3>1. PICK lib \in Libs, byName \in BOOLEAN : HookStart(c, lib, byName)
      BY <2>6
    <3>2. task'[c] = NewTask(lib, byName) /\ tree' = tree
      BY <1>0, <3>1 DEF HookStart
    <3>3. d # c
      BY <3>2 DEF NewTask, Finished
    <3>4. QED
      BY <2>1, <3>2, <3>3
  <2>7. CASE HookLookup(c)
    <3>1. task[c] \in Task /\ ~ task[c].finished /\ tree' = tree
      BY <1>0, <2>7 DEF HookLookup, IInv, TaskPhases, InProgress
    <3>2. task'[c] = None \/ ~ task'[c].finished
      BY <1>0, <2>7, <3>1 DEF HookLookup, Give, Task
    <3>3. QED
      BY <2>1, <3>1, <3>2 DEF Finished
  <2>8. CASE \/ InitCall(c) \/ InitLock(c) \/ InitHook(c)
             \/ ScanStart(c) \/ ScanLoad(c) \/ ScanEnd(c) \/ Register(c)
    <3>1. task' = task /\ task[c] = None /\ tree' = tree
      BY <1>0, <2>8 DEF InitCall, InitLock, InitHook, ScanStart, ScanLoad, ScanEnd, Register,
                        IInv, TaskPhases, InProgress
    <3>2. QED
      BY <2>1, <3>1 DEF Finished
  <2>9. QED
    BY <1>3, <2>2, <2>3, <2>4, <2>5, <2>6, <2>7, <2>8 DEF ClientStep
<1>4. ASSUME Finished(d), UNCHANGED <<task, pc, tree>>, linker.pc \notin Closing,
             loaded[task[d].lib] = "no" /\ pc[d] = "unhook" => loaded'[task[d].lib] = "no"
      PROVE  InEffect(d)' \/ Stale(d)' \/ ToWait(d)'
  <2>1. CASE InEffect(d)
    BY <1>4, <2>1 DEF InEffect
  <2>2. CASE Stale(d)
    BY <1>4, <2>2 DEF Stale, Closing
  <2>3. QED
    BY <1>1, <1>4, <2>1, <2>2 DEF ToWait, Closing
<1>5. ASSUME NEW lib \in Libs, Dlopen(lib) PROVE InEffect(d)' \/ Stale(d)' \/ ToWait(d)'
  <2>1. /\ ~ Busy(lib) /\ linker.pc = "none" /\ UNCHANGED <<task, pc, tree>>
        /\ loaded' = [loaded EXCEPT ![lib] = "mapped"]
    BY <1>5 DEF Dlopen
  <2>2. Finished(d)
    BY <2>1 DEF Finished
  <2>3. pc[d] = "unhook" => task[d].lib # lib
    BY <2>1, <2>2 DEF Busy, Finished, InProgress
  <2>4. QED
    BY <1>0, <1>1, <1>4, <2>1, <2>2, <2>3 DEF Closing
<1>6. ASSUME NEW lib \in Libs, Dlclose(lib) PROVE InEffect(d)' \/ Stale(d)' \/ ToWait(d)'
  BY <1>4, <1>6 DEF Dlclose, Finished, Closing
<1>7. CASE InitPre \/ PendingStart \/ PendingEnd
  BY <1>4, <1>7, OpeningSteps DEF Finished, Closing
<1>8. CASE PendingStep
  <2> DEFINE k == Head(linker.todo)
             lib == linker.lib
  <2>1. /\ linker.pc = "pending" /\ lib \in Libs /\ k \in Clients /\ task[k] \in Task
        /\ pc[k] = "stub" /\ UNCHANGED <<loaded, pc>>
        /\ \/ UNCHANGED <<tree, task>>
           \/ /\ Matches(k) /\ \A c \in Clients : c # k => task'[c] = task[c]
              /\ task'[k].lib = task[k].lib
              /\ \/ task'[k].error /\ tree' = tree
                 \/ SwitchHook(lib, k)
    BY <1>8, PendingStepEffect DEF IInv
  <2>2. loaded[lib] = "mapped"
    BY <2>1 DEF IInv, LinkerPhases, Opening
  <2>3. CASE UNCHANGED <<tree, task>>
    BY <1>4, <2>1, <2>3 DEF Finished, Closing
  <2>4. CASE /\ Matches(k) /\ task'[k].lib = task[k].lib
             /\ \A c \in Clients : c # k => task'[c] = task[c]
    <3>1. CASE d # k
      <4>1. Finished(d) /\ task'[d] = task[d]
        BY <2>4, <3>1 DEF Finished
      <4>2. /\ tree'[lib] \in {tree[lib], tree[lib] \cup {k}}
            /\ \A l \in Libs : l # lib => tree'[l] = tree[l]
        BY <1>0, <2>1 DEF SwitchHook
      <4>3. CASE InEffect(d)
        BY <1>1, <4>1, <4>2, <4>3 DEF InEffect
      <4>4. CASE Stale(d)
        BY <1>1, <2>1, <2>2, <4>1, <4>2, <4>4 DEF Stale
      <4>5. QED
        BY <1>1, <2>1, <4>1, <4>3, <4>4 DEF ToWait
    <3>2. CASE d = k
      <4>1. task[k].lib = lib
        BY <2>4 DEF Matches
      <4>2. CASE UNCHANGED tree /\ task'[k].error
        BY <3>2, <4>2 DEF Finished
      <4>3. CASE SwitchHook(lib, k)
        <5>1. k \in tree'[lib]
          BY <1>0, <2>1, <4>3 DEF SwitchHook
        <5>2. QED
          BY <2>4, <3>2, <4>1, <5>1 DEF InEffect
      <4>4. CASE UNCHANGED <<tree, task>>
        BY <2>3, <4>4
      <4>5. QED
        BY <2>1, <4>2, <4>3, <4>4
    <3>3. QED
      BY <3>1, <3>2
  <2>5. QED
    BY <2>1, <2>3, <2>4
<1>9. CASE DlopenEnd
  <2>1. /\ linker.pc = "ctors" /\ UNCHANGED <<task, pc, tree>>
        /\ loaded' = [loaded EXCEPT ![linker.lib] = "open"]
    BY <1>9 DEF DlopenEnd
  <2>2. linker.lib \in Libs /\ loaded[linker.lib] = "mapped"
    BY <1>0, <2>1, LinkerForms DEF IInv, LinkerPhases, Opening
  <2>3. Finished(d)
    BY <2>1 DEF Finished
  <2>4. QED
    BY <1>0, <1>1, <1>4, <2>1, <2>2, <2>3 DEF Closing
<1>10. CASE FreeSwitches
  <2>1. /\ linker.pc = "fini" /\ linker.lib \in Libs /\ linker'.lib = linker.lib
        /\ UNCHANGED <<loaded, task, pc>>
        /\ \/ /\ linker'.pc = "reset" /\ tree'[linker.lib] = {}
              /\ \A l \in Libs : l # linker.lib => tree'[l] = tree[l]
           \/ linker'.pc = "unmap" /\ tree' = tree
    BY <1>10, FreeSwitchesEffect
  <2>2. Finished(d)
    BY <2>1 DEF Finished
  <2>3. CASE task[d].lib = linker.lib /\ linker'.pc = "reset" /\ tree'[linker.lib] = {}
    <3>1. pc[d] \in {"stub", "unhook"} /\ task[d].byName
      BY <1>1, <2>1, <2>2, <2>3 DEF LookupsHold, Closing, Finished
    <3>2. QED
      BY <2>1, <2>3, <3>1 DEF Stale, ToWait
  <2>4. CASE tree'[task[d].lib] = tree[task[d].lib]
    <3>1. loaded[linker.lib] = "open"
      BY <2>1 DEF IInv, LinkerPhases, Closing
    <3>2. CASE InEffect(d)
      BY <2>1, <2>4, <3>2 DEF InEffect
    <3>3. CASE Stale(d)
      BY <2>1, <2>4, <3>1, <3>3 DEF Stale
    <3>4. QED
      BY <1>1, <2>1, <2>2, <3>2, <3>3 DEF ToWait
  <2>5. QED
    BY <1>1, <2>1, <2>2, <2>3, <2>4
<1>11. CASE ResetTasks
  <2>1. /\ linker.pc = "reset" /\ linker'.pc = "unmap" /\ linker'.lib = linker.lib
        /\ UNCHANGED <<loaded, tree, pc>>
        /\ d \notin ToReset /\ task'[d] = task[d]
    BY <1>11, ResetTasksEffect DEF Finished
  <2>2. Finished(d)
    BY <2>1 DEF Finished
  <2>3. ~ ToWait(d)
    BY <2>1, <2>2 DEF ToWait, Finished, ToReset, IInv, TaskPhases, QueueHoldsStubs
  <2>4. CASE InEffect(d)
    BY <2>1, <2>4 DEF InEffect
  <2>5. CASE Stale(d)
    BY <2>1, <2>5 DEF Stale
  <2>6. QED
    BY <1>1, <2>2, <2>3, <2>4, <2>5
<1>12. CASE Unmap
  <2>1. /\ linker.pc = "unmap" /\ UNCHANGED <<task, pc, tree>>
        /\ loaded' = [loaded EXCEPT ![linker.lib] = "no"]
    BY <1>12 DEF Unmap
  <2>2. Finished(d)
    BY <2>1 DEF Finished
  <2>3. CASE InEffect(d)
    BY <2>1, <2>3 DEF InEffect
  <2>4. CASE Stale(d)
    BY <1>0, <1>1, <2>1, <2>2, <2>4 DEF Stale
  <2>5. QED
    BY <1>1, <2>1, <2>2, <2>3, <2>4 DEF ToWait
<1>13. CASE UNCHANGED vars
  BY <1>2, <1>13 DEF vars
<1>14. QED
  BY <1>3, <1>5, <1>6, <1>7, <1>8, <1>9, <1>10, <1>11, <1>12, <1>13 DEF Next, LinkerStep

----------------------------------------------------------------------------
(* The invariant of calm programs.                                         *)
LEMMA CalmInvariance == ASSUME Calm, FirstLoad PROVE Spec => []CalmInv
<1>1. Init => CalmInv
  <2> SUFFICES ASSUME Init PROVE CalmInv
    OBVIOUS
  <2>1. IInv /\ WalkCovers
    BY InitIInv
  <2>2. Queued = {}
    BY DEF Init, Queued, Range
  <2>3. LookupsHold /\ FinishedAreHooked
    BY DEF Init, LookupsHold, FinishedAreHooked, Finished
  <2>4. WaitersHaveReason
    BY <2>2 DEF WaitersHaveReason, Unfinished
  <2>5. SwitchesAreSound
    BY DEF Init, SwitchesAreSound
  <2>6. QED
    BY <2>1, <2>3, <2>4, <2>5 DEF CalmInv
<1>2. CalmInv /\ IInv' /\ [Next]_vars => CalmInv'
  <2> SUFFICES ASSUME CalmInv, IInv', [Next]_vars PROVE CalmInv'
    OBVIOUS
  <2>1. WalkCovers'
    BY NextWalkCovers DEF CalmInv
  <2>2. LookupsHold'
    BY NextLookupsHold DEF CalmInv
  <2>3. "search" \notin Faults => WaitersHaveReason'
    BY <2>1, NextWaitersHaveReason DEF CalmInv
  <2>4. SwitchesAreSound'
    BY NextSwitchesAreSound DEF CalmInv
  <2>5. FinishedAreHooked'
    BY NextFinishedAreHooked DEF CalmInv
  <2>6. QED
    BY <2>1, <2>2, <2>3, <2>4, <2>5 DEF CalmInv
<1>3. QED
  BY <1>1, <1>2, Invariance, PTL DEF Spec

(* In a calm program whose searches do not run out of memory, a task waits *)
(* only while its library is not there: no load passes one by, and no      *)
(* close leaves one behind.                                                *)
THEOREM CalmNobodyWaitsInVain ==
  ASSUME Calm, FirstLoad, "search" \notin Faults PROVE Spec => []NobodyWaitsInVain
<1>1. CalmInv => NobodyWaitsInVain
  BY DEF CalmInv, WaitersHaveReason, NobodyWaitsInVain
<1>2. QED
  BY <1>1, CalmInvariance, PTL

(* In a calm program no switch is left in memory that has been unmapped.   *)
THEOREM CalmNoSwitchOutlivesLibrary ==
  ASSUME Calm, FirstLoad PROVE Spec => []NoSwitchOutlivesLibrary
<1>1. CalmInv => NoSwitchOutlivesLibrary
  BY DEF CalmInv, SwitchesAreSound, NoSwitchOutlivesLibrary
<1>2. QED
  BY <1>1, CalmInvariance, PTL

(* In a calm program a stub without an error is in effect or waits: loads  *)
(* and closes in between leave nothing half done.                          *)
THEOREM CalmHooksAreEffective == ASSUME Calm, FirstLoad PROVE Spec => []HooksAreEffective
<1>1. CalmInv => HooksAreEffective
  <2> SUFFICES ASSUME CalmInv, linker.pc = "none", NEW k \in Queued,
                      task[k].finished, ~ task[k].error
               PROVE  /\ loaded[task[k].lib] = "open" /\ task[k].lib \in patched
                      /\ k \in tree[task[k].lib]
    BY DEF HooksAreEffective
  <2>1. k \in Clients /\ pc[k] = "stub"
    BY QueuedIsFinite DEF CalmInv, IInv, Types, TypeOK, QueueHoldsStubs
  <2>2. Finished(k) /\ task[k].lib \in Libs
    BY <2>1 DEF Finished, CalmInv, IInv, Types, TypeOK, TaskPhases, Task
  <2>3. k \in tree[task[k].lib]
    BY <2>1, <2>2 DEF CalmInv, FinishedAreHooked, InEffect, Stale, ToWait
  <2>4. task[k].lib \in patched /\ loaded[task[k].lib] # "no"
    BY <2>2, <2>3 DEF CalmInv, SwitchesAreSound
  <2>5. loaded[task[k].lib] # "mapped"
    BY <2>2 DEF CalmInv, IInv, LinkerPhases, Opening
  <2>6. QED
    BY <2>2, <2>3, <2>4, <2>5 DEF CalmInv, IInv, Types, TypeOK
<1>2. QED
  BY <1>1, CalmInvariance, PTL
===============================================================================
