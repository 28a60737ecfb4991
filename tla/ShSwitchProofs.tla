----------------------------- MODULE ShSwitchProofs -----------------------------
(* Proofs about the switches, for any number of threads, functions,        *)
(* libraries, proxies and switches, in shared and in unique mode.  There   *)
(* are three layers: who may touch which switch, whatever fails; what of a *)
(* switch is in place, if unhooking restores what hooking wrote; and where *)
(* threads run, if moreover there is memory for the first proxy.           *)
EXTENDS ShSwitch, TLAPS

Restored  == {"restore", "free", "clear"}
LockedPcs == Inserted \cup Restored
OwningPcs == LockedPcs \cup {"insert", "destroy"}

Mid(t) == \E c \in Callers : th[c].pc \in LockedPcs /\ th[c].t = t

----------------------------------------------------------------------------
(* First layer.  Whoever changes a switch that is in the tree holds the    *)
(* lock.                                                                   *)
LockPhases == \A c \in Callers : th[c].pc \in LockedPcs <=> lock = c

InHand(c) ==
  /\ th[c].pc \in HookPcs => th[c].kind = "hook" /\ ~ th[c].took
  /\ th[c].pc \in UnhookPcs =>
       /\ th[c].kind = "unhook" /\ th[c].res \in {"ok", "fail"}
       /\ th[c].took <=> th[c].pc # "lock"
  /\ th[c].pc \in OwningPcs => th[c].w \in Sw /\ obj[th[c].w] = "live"
  /\ th[c].pc \in LockedPcs => tree[th[c].t] = th[c].w
  /\ th[c].pc \in {"insert", "destroy"} => \A t \in Targets : tree[t] # th[c].w
  /\ th[c].pc \in Inserted \cup {"insert"} =>
       funcs[th[c].w] = IF unique THEN {th[c].p} ELSE {}
  /\ th[c].pc = "proxy" => ~ unique

CallerPhases == \A c \in Callers : InHand(c)

(* No two callers have the same switch in hand.                            *)
OwnersDiffer ==
  \A c, d \in Callers :
    c # d /\ th[c].pc \in OwningPcs /\ th[d].pc \in OwningPcs => th[c].w # th[d].w

InTree(t) ==
  tree[t] # None =>
    /\ obj[tree[t]] = "live"
    /\ ~ unique => funcs[tree[t]] \subseteq items[tree[t]]
    /\ ~ Mid(t) => funcs[tree[t]] # {}
    /\ \A s \in Targets : tree[s] = tree[t] => s = t

TreePhases == \A t \in Targets : InTree(t)

ControlInv == TypeOK /\ LockPhases /\ CallerPhases /\ OwnersDiffer /\ TreePhases

----------------------------------------------------------------------------
(* Second layer: instructions and enters.                                  *)
CodeOf(c) ==
  LET t == th[c].t
      w == th[c].w
  IN /\ th[c].pc \in {"insert", "enter"} => enter[w] = "free"
     /\ th[c].pc \in LockedPcs \ {"enter", "clear"} => enter[w] = "live"
     /\ th[c].pc = "clear" => enter[w] = "cooling"
     /\ th[c].pc = "destroy" => enter[w] # "live"
     /\ th[c].pc \in {"proxy", "restore"} => code[t] = w
     /\ th[c].pc \in LockedPcs \ {"proxy", "restore"} => code[t] = None

CodePhases == \A c \in Callers : CodeOf(c)

Mirrors(t) ==
  /\ code[t] \in {None, tree[t]}
  /\ tree[t] # None /\ ~ Mid(t) => code[t] = tree[t] /\ enter[tree[t]] = "live"

CodeMirrors == \A t \in Targets : Mirrors(t)

Owned(w) ==
  /\ obj[w] = "live" =>
       \/ \E t \in Targets : tree[t] = w
       \/ \E c \in Callers : th[c].pc \in {"insert", "destroy"} /\ th[c].w = w
  /\ enter[w] = "live" => \E t \in Targets : tree[t] = w

LiveAreOwned == \A w \in Sw : Owned(w)

CodeInv == CodePhases /\ CodeMirrors /\ LiveAreOwned

----------------------------------------------------------------------------
(* Third layer: the slots of sh_safe.c and the threads that run.           *)
SafeOf(c) ==
  /\ th[c].pc = "enter" => safe[th[c].t] = None
  /\ th[c].pc \in {"patch", "patch2", "proxy"} \cup Restored /\ th[c].t \in SafeTargets =>
       safe[th[c].t] = th[c].w

Slot(t) ==
  /\ safe[t] \in {None, tree[t]}
  /\ t \notin SafeTargets => safe[t] = None
  /\ tree[t] # None /\ ~ Mid(t) /\ t \in SafeTargets => safe[t] = tree[t]

SafePhases == (\A c \in Callers : SafeOf(c)) /\ \A t \in Targets : Slot(t)

RunsIn(x) ==
  run[x] # Out =>
    LET w == run[x].w
    IN /\ enter[w] # "free"
       /\ ~ unique /\ run[x].pc \in {"hub", "proxy"} => obj[w] # "free"
       /\ \A t \in Targets : tree[t] = w => t = run[x].t
       /\ \A c \in Callers :
            /\ th[c].pc \in {"insert", "enter"} => th[c].w # w
            /\ th[c].pc \in Inserted \ {"proxy"} /\ th[c].w = w => run[x].pc \in {"safe", "enter"}

RunPhases == \A x \in Runners : RunsIn(x)

RunInv == SafePhases /\ RunPhases

----------------------------------------------------------------------------
(* What a step of a caller does to what it has in hand.                    *)
Ops == [pc : HookPcs \cup UnhookPcs, kind : {"hook", "unhook"}, t : Targets,
        p : Proxies, w : Sw \cup {None}, took : BOOLEAN, res : Results]

Changes(c, d) ==
  /\ d \in {Idle} \cup Ops
  /\ th' \in [Callers -> {Idle} \cup Ops] /\ th'[c] = d
  /\ \A e \in Callers : e # c => th'[e] = th[e]

LEMMA CallersAreInOps ==
  ASSUME TypeOK, NEW c \in Callers, th[c].pc # "idle"
  PROVE  /\ th[c] \in Ops /\ th \in [Callers -> {Idle} \cup Ops]
         /\ th[c].t \in Targets /\ th[c].p \in Proxies /\ th[c].w \in Sw \cup {None}
         /\ th[c].pc \in HookPcs \cup UnhookPcs /\ th[c].res \in Results
BY DEF TypeOK, Ops, Idle

LEMMA ChangesTo ==
  ASSUME TypeOK, NEW c \in Callers, NEW d \in {Idle} \cup Ops, th' = [th EXCEPT ![c] = d]
  PROVE  Changes(c, d)
BY DEF TypeOK, Changes, Ops

(* Steps that go on with what they have.                                   *)
Goes(c, d, pc, w, took, res) ==
  /\ Changes(c, d) /\ d \in Ops /\ d.pc = pc /\ d.t = th[c].t /\ d.p = th[c].p
  /\ d.w = w /\ d.kind = th[c].kind /\ d.took = took /\ d.res = res

LEMMA GoesOn ==
  ASSUME TypeOK, NEW c \in Callers, th[c].pc # "idle", NEW pc \in HookPcs \cup UnhookPcs,
         NEW w \in Sw \cup {None}, NEW took \in BOOLEAN, NEW res \in Results
  PROVE  /\ Goto(c, pc) => \E d : Goes(c, d, pc, th[c].w, th[c].took, th[c].res)
         /\ th' = [th EXCEPT ![c].pc = pc, ![c].w = w] =>
              \E d : Goes(c, d, pc, w, th[c].took, th[c].res)
         /\ th' = [th EXCEPT ![c].pc = pc, ![c].w = w, ![c].took = took] =>
              \E d : Goes(c, d, pc, w, took, th[c].res)
         /\ th' = [th EXCEPT ![c].pc = pc, ![c].res = res] =>
              \E d : Goes(c, d, pc, th[c].w, th[c].took, res)
<1>1. th[c] \in Ops
  BY CallersAreInOps
<1> DEFINE d1 == [th[c] EXCEPT !.pc = pc]
           d2 == [th[c] EXCEPT !.pc = pc, !.w = w]
           d3 == [th[c] EXCEPT !.pc = pc, !.w = w, !.took = took]
           d4 == [th[c] EXCEPT !.pc = pc, !.res = res]
<1>2. \A d \in {d1, d2, d3, d4} :
        d \in Ops /\ d.pc = pc /\ d.t = th[c].t /\ d.p = th[c].p /\ d.kind = th[c].kind
  <2>1. d1 \in Ops /\ d2 \in Ops /\ d3 \in Ops /\ d4 \in Ops
    <3>1. d1 \in Ops /\ d2 \in Ops
      BY <1>1 DEF Ops
    <3>2. d3 \in Ops /\ d4 \in Ops
      BY <1>1 DEF Ops
    <3>3. QED
      BY <3>1, <3>2
  <2>2. /\ \A d \in {d1, d2} : d.pc = pc /\ d.t = th[c].t /\ d.p = th[c].p /\ d.kind = th[c].kind
        /\ \A d \in {d3, d4} : d.pc = pc /\ d.t = th[c].t /\ d.p = th[c].p /\ d.kind = th[c].kind
    BY <1>1 DEF Ops
  <2>3. QED
    BY <2>1, <2>2
<1>3. /\ d1.w = th[c].w /\ d1.took = th[c].took /\ d1.res = th[c].res
      /\ d2.w = w /\ d2.took = th[c].took /\ d2.res = th[c].res
      /\ d3.w = w /\ d3.took = took /\ d3.res = th[c].res
      /\ d4.w = th[c].w /\ d4.took = th[c].took /\ d4.res = res
  BY <1>1 DEF Ops
<1>4. /\ Goto(c, pc) => th' = [th EXCEPT ![c] = d1]
      /\ th' = [th EXCEPT ![c].pc = pc, ![c].w = w] => th' = [th EXCEPT ![c] = d2]
      /\ th' = [th EXCEPT ![c].pc = pc, ![c].w = w, ![c].took = took] => th' = [th EXCEPT ![c] = d3]
      /\ th' = [th EXCEPT ![c].pc = pc, ![c].res = res] => th' = [th EXCEPT ![c] = d4]
  BY DEF Goto
<1> HIDE DEF d1, d2, d3, d4
<1>5. \A d \in {d1, d2, d3, d4} : th' = [th EXCEPT ![c] = d] => Changes(c, d)
  BY <1>2, ChangesTo
<1>6. Goto(c, pc) => Goes(c, d1, pc, th[c].w, th[c].took, th[c].res)
  BY <1>2, <1>3, <1>4, <1>5 DEF Goes
<1>7. th' = [th EXCEPT ![c].pc = pc, ![c].w = w] => Goes(c, d2, pc, w, th[c].took, th[c].res)
  BY <1>2, <1>3, <1>4, <1>5, Zenon DEF Goes
<1>8. th' = [th EXCEPT ![c].pc = pc, ![c].w = w, ![c].took = took] =>
        Goes(c, d3, pc, w, took, th[c].res)
  BY <1>2, <1>3, <1>4, <1>5, Zenon DEF Goes
<1>9. th' = [th EXCEPT ![c].pc = pc, ![c].res = res] => Goes(c, d4, pc, th[c].w, th[c].took, res)
  BY <1>2, <1>3, <1>4, <1>5, Zenon DEF Goes
<1>10. QED
  BY <1>6, <1>7, <1>8, <1>9, Zenon

LEMMA Returns ==
  ASSUME TypeOK, NEW c \in Callers, NEW r, Return(c, r)
  PROVE  Changes(c, Idle) /\ result' = [result EXCEPT ![c] = r]
BY ChangesTo DEF Return

LEMMA Begins ==
  ASSUME TypeOK, NEW c \in Callers, NEW kind \in {"hook", "unhook"}, NEW t \in Targets, NEW p \in Proxies,
         Begin(c, kind, t, p)
  PROVE  \E d \in Ops :
           /\ Changes(c, d) /\ th[c].pc = "idle"
           /\ d.pc = (IF kind = "hook" THEN "find" ELSE "lock") /\ d.kind = kind
           /\ d.t = t /\ d.p = p /\ d.took = FALSE /\ d.res = "ok"
<1> DEFINE d == [pc |-> IF kind = "hook" THEN "find" ELSE "lock", kind |-> kind,
                 t |-> t, p |-> p, w |-> None, took |-> FALSE, res |-> "ok"]
<1>1. d \in Ops
  BY DEF Ops, HookPcs, UnhookPcs, Results
<1>2. /\ d.pc = (IF kind = "hook" THEN "find" ELSE "lock") /\ d.kind = kind
      /\ d.t = t /\ d.p = p /\ d.took = FALSE /\ d.res = "ok"
  OBVIOUS
<1>3. th' = [th EXCEPT ![c] = d] /\ th[c].pc = "idle"
  BY DEF Begin, At
<1> HIDE DEF d
<1>4. Changes(c, d)
  BY <1>1, <1>3, ChangesTo
<1>5. QED
  BY <1>1, <1>2, <1>3, <1>4

----------------------------------------------------------------------------
(* The kinds of steps of a caller.                                         *)
Result(c, r) == result' = [result EXCEPT ![c] = r]

Starts(c) ==
  \E d \in Ops :
    /\ Changes(c, d) /\ th[c].pc = "idle" /\ d.pc = (IF d.kind = "hook" THEN "find" ELSE "lock")
    /\ d.took = FALSE /\ d.res = "ok" /\ Result(c, "none")
    /\ UNCHANGED <<lock, parts>>

LooksOn(c) ==
  /\ UNCHANGED <<lock, parts, result>>
  /\ \/ th[c].pc = "len" /\ Changes(c, Idle)
     \/ /\ th[c].pc = "find" /\ lock = None /\ tree[th[c].t] = None
        /\ \E d : Goes(c, d, "create", th[c].w, th[c].took, th[c].res)

Refuses(c) ==
  /\ UNCHANGED <<lock, parts>> /\ Changes(c, Idle)
  /\ \/ /\ th[c].pc = "find" /\ lock = None /\ unique /\ tree[th[c].t] # None
        /\ Result(c, "dup")
     \/ th[c].pc = "create" /\ Result(c, "fail")
     \/ /\ th[c].pc = "lock" /\ lock = None /\ Result(c, "notfound")
        /\ tree[th[c].t] = None \/ (~ unique /\ th[c].p \notin items[tree[th[c].t]])

Joins(c) ==
  LET t == th[c].t
      p == th[c].p
  IN /\ th[c].pc \in {"find", "insert"} /\ lock = None /\ tree[t] # None
     /\ UNCHANGED <<lock, tree, code, safe, enter>>
     /\ obj' = IF th[c].pc = "insert" THEN [obj EXCEPT ![th[c].w] = "free"] ELSE obj
     /\ \/ Changes(c, Idle) /\ th[c].pc = "insert"
        \/ th[c].pc = "find" /\ \E d : Goes(c, d, "len", tree[t], th[c].took, th[c].res)
     /\ \/ unique /\ UNCHANGED proxies /\ Result(c, "dup")
        \/ ~ unique /\ \E r \in ResultsOfAdd(tree[t], p) : AddProxy(tree[t], p, r) /\ Result(c, r)

Creates(c) ==
  /\ th[c].pc = "create" /\ UNCHANGED <<lock, tree, code, safe, items, enter, result>>
  /\ \E w \in Sw :
       /\ IsFresh(w) /\ obj' = [obj EXCEPT ![w] = "live"]
       /\ funcs' = [funcs EXCEPT ![w] = IF unique THEN {th[c].p} ELSE {}]
       /\ \E d : Goes(c, d, "insert", w, th[c].took, th[c].res)

Inserts(c) ==
  /\ th[c].pc = "insert" /\ lock = None /\ tree[th[c].t] = None
  /\ tree' = [tree EXCEPT ![th[c].t] = th[c].w] /\ lock' = c
  /\ \E d : Goes(c, d, "enter", th[c].w, th[c].took, th[c].res)
  /\ UNCHANGED <<code, safe, obj, proxies, enter, result>>

Proceeds(c) ==
  LET t == th[c].t
      w == th[c].w
      To(pc, res) == \E d : Goes(c, d, pc, w, th[c].took, res)
  IN /\ UNCHANGED <<lock, tree, obj, proxies, result>>
     /\ \/ /\ th[c].pc = "enter" /\ To("rewrite", th[c].res)
           /\ enter' = [enter EXCEPT ![w] = "live"] /\ UNCHANGED <<code, safe>>
        \/ /\ th[c].pc \in {"rewrite", "rewrite2"} /\ \E pc \in {"patch", "patch2"} : To(pc, th[c].res)
           /\ safe' = (IF HasOrig2(t, w) THEN [safe EXCEPT ![t] = w] ELSE safe)
           /\ UNCHANGED <<code, enter>>
        \/ /\ th[c].pc \in {"rewrite", "patch"} /\ To("rewrite2", th[c].res)
           /\ UNCHANGED <<code, safe, enter>>
        \/ /\ th[c].pc \in {"patch", "patch2"} /\ ~ unique /\ To("proxy", th[c].res)
           /\ code' = [code EXCEPT ![t] = w] /\ UNCHANGED <<safe, enter>>
        \/ /\ th[c].pc = "restore" /\ To("free", th[c].res)
           /\ code' = [code EXCEPT ![t] = None] /\ UNCHANGED <<safe, enter>>
        \/ /\ th[c].pc = "restore" /\ To("clear", "fail") /\ "restore" \in Faults
           /\ code' \in {code, [code EXCEPT ![t] = None]} /\ UNCHANGED <<safe, enter>>
        \/ /\ th[c].pc = "free" /\ To("clear", th[c].res)
           /\ enter' = [enter EXCEPT ![w] = "cooling"] /\ UNCHANGED <<code, safe>>

GivesUp(c) ==
  LET t == th[c].t
      w == th[c].w
  IN /\ Changes(c, Idle) /\ lock' = None /\ Result(c, "fail")
     /\ tree' = [tree EXCEPT ![t] = None] /\ obj' = [obj EXCEPT ![w] = "free"]
     /\ \/ th[c].pc = "enter" /\ UNCHANGED <<code, safe, enter, proxies>>
        \/ /\ th[c].pc \in {"rewrite2", "patch2"}
           /\ safe' = (IF HasOrig2(t, w) THEN [safe EXCEPT ![t] = None] ELSE safe)
           /\ enter' = [enter EXCEPT ![w] = "cooling"] /\ UNCHANGED <<code, proxies>>
        \/ /\ th[c].pc = "proxy" /\ \E r \in ResultsOfAdd(w, th[c].p) : r # "ok"
           /\ UNCHANGED <<safe, proxies>>
           /\ \/ /\ code' = [code EXCEPT ![t] = None]
                 /\ enter' = [enter EXCEPT ![w] = "cooling"]
              \/ /\ "restore" \in Faults
                 /\ code' \in {code, [code EXCEPT ![t] = None]} /\ UNCHANGED enter

Completes(c) ==
  LET t == th[c].t
      w == th[c].w
  IN /\ Changes(c, Idle) /\ lock' = None /\ Result(c, "ok")
     /\ UNCHANGED <<tree, safe, obj, enter>>
     /\ \/ /\ th[c].pc \in {"patch", "patch2"} /\ unique
           /\ code' = [code EXCEPT ![t] = w] /\ UNCHANGED proxies
        \/ /\ th[c].pc = "proxy" /\ UNCHANGED code
           /\ "ok" \in ResultsOfAdd(w, th[c].p) /\ AddProxy(w, th[c].p, "ok")

Disables(c) ==
  LET w == tree[th[c].t]
      p == th[c].p
  IN /\ th[c].pc = "lock" /\ lock = None /\ w # None /\ ~ unique /\ p \in items[w]
     /\ funcs' = [funcs EXCEPT ![w] = @ \ {p}] /\ funcs[w] \ {p} # {}
     /\ Changes(c, Idle) /\ Result(c, "ok")
     /\ UNCHANGED <<lock, tree, code, safe, obj, items, enter>>

Takes(c) ==
  LET w == tree[th[c].t]
      p == th[c].p
  IN /\ th[c].pc = "lock" /\ lock = None /\ lock' = c /\ w # None
     /\ \/ unique /\ funcs' = funcs
        \/ /\ ~ unique /\ p \in items[w]
           /\ funcs' = [funcs EXCEPT ![w] = {}] /\ funcs[w] \ {p} = {}
     /\ \E d : Goes(c, d, "restore", w, TRUE, th[c].res)
     /\ UNCHANGED <<tree, code, safe, obj, items, enter, result>>

Clears(c) ==
  LET t == th[c].t
  IN /\ th[c].pc = "clear" /\ lock' = None
     /\ safe' = [safe EXCEPT ![t] = None] /\ tree' = [tree EXCEPT ![t] = None]
     /\ \E d : Goes(c, d, "destroy", th[c].w, th[c].took, th[c].res)
     /\ UNCHANGED <<code, obj, proxies, enter, result>>

Destroys(c) ==
  /\ th[c].pc = "destroy"
  /\ obj' = [obj EXCEPT ![th[c].w] = IF unique THEN "free" ELSE "retired"]
  /\ Changes(c, Idle) /\ Result(c, th[c].res)
  /\ UNCHANGED <<lock, tree, code, safe, proxies, enter>>

Steps(c) ==
  \/ Starts(c) \/ LooksOn(c) \/ Refuses(c) \/ Joins(c) \/ Creates(c) \/ Inserts(c)
  \/ Proceeds(c) \/ GivesUp(c) \/ Completes(c) \/ Disables(c) \/ Takes(c) \/ Clears(c)
  \/ Destroys(c)

(* A caller takes no other steps.                                          *)
LEMMA CallerSteps ==
  ASSUME TypeOK, NEW c \in Callers, CallerStep(c)
  PROVE  Steps(c) /\ UNCHANGED <<unique, run>>
<1>1. UNCHANGED <<unique, run>>
  BY DEF CallerStep, Begin, HookFind, HookReadLen, HookCreate, HookInsert, HookEnter, HookRewrite,
         HookPatch, HookProxy, UnhookFind, UnhookRestore, UnhookFree, UnhookClear, UnhookDestroy
<1>2. ASSUME NEW kind \in {"hook", "unhook"}, NEW t \in Targets, NEW p \in Proxies, Begin(c, kind, t, p)
      PROVE  Starts(c)
  BY <1>2, Begins DEF Begin, Starts, Result
<1>3. ASSUME th[c].pc # "idle", NEW pc \in HookPcs \cup UnhookPcs, Goto(c, pc)
      PROVE  \E d : Goes(c, d, pc, th[c].w, th[c].took, th[c].res)
  <2>1. FALSE \in BOOLEAN /\ "ok" \in Results /\ None \in Sw \cup {None}
    BY DEF Results
  <2>2. QED
    BY <1>3, <2>1, GoesOn
<1>4. ASSUME th[c].pc # "idle", NEW pc \in HookPcs \cup UnhookPcs, NEW w \in Sw \cup {None},
             th' = [th EXCEPT ![c].pc = pc, ![c].w = w]
      PROVE  \E d : Goes(c, d, pc, w, th[c].took, th[c].res)
  <2>1. FALSE \in BOOLEAN /\ "ok" \in Results
    BY DEF Results
  <2>2. QED
    BY <1>4, <2>1, GoesOn, Zenon
<1>5. "find" \in HookPcs \cup UnhookPcs /\ "len" \in HookPcs \cup UnhookPcs
      /\ "create" \in HookPcs \cup UnhookPcs /\ "insert" \in HookPcs \cup UnhookPcs
      /\ Inserted \subseteq HookPcs \cup UnhookPcs /\ UnhookPcs \subseteq HookPcs \cup UnhookPcs
      /\ "fail" \in Results
      /\ \A t \in Targets : tree[t] \in Sw \cup {None}
  BY DEF HookPcs, Results, TypeOK
<1>6. \A pc \in HookPcs \cup UnhookPcs : pc # "idle"
  BY DEF HookPcs, UnhookPcs, Inserted
<1>7. th[c].pc # "idle" => th[c].t \in Targets /\ th[c].took \in BOOLEAN /\ th[c].w \in Sw \cup {None}
  BY CallersAreInOps DEF Ops
<1>8. \A r : Return(c, r) => Changes(c, Idle) /\ Result(c, r)
  BY Returns DEF Result
<1>9. CASE HookFind(c)
  <2> DEFINE w == tree[th[c].t]
  <2>1. th[c].pc = "find" /\ lock = None /\ UNCHANGED <<lock, tree, code, safe, obj, enter>>
    BY <1>9 DEF HookFind, At
  <2>2. CASE w = None
    <3>1. Goto(c, "create") /\ UNCHANGED <<proxies, result>>
      BY <1>9, <2>2 DEF HookFind
    <3>2. LooksOn(c)
      BY <1>3, <1>5, <2>1, <2>2, <3>1 DEF LooksOn, parts, proxies
    <3>3. QED
      BY <1>1, <3>2 DEF Steps
  <2>3. CASE w # None /\ unique
    <3>1. Return(c, "dup") /\ UNCHANGED proxies
      BY <1>9, <2>3 DEF HookFind
    <3>2. Refuses(c)
      BY <1>8, <2>1, <2>3, <3>1 DEF Refuses, parts, proxies
    <3>3. QED
      BY <1>1, <3>2 DEF Steps
  <2>4. CASE w # None /\ ~ unique
    <3>1. PICK r \in ResultsOfAdd(w, th[c].p) :
            /\ AddProxy(w, th[c].p, r) /\ result' = [result EXCEPT ![c] = r]
            /\ th' = [th EXCEPT ![c].pc = "len", ![c].w = w]
      BY <1>9, <2>4 DEF HookFind
    <3>2. \E d : Goes(c, d, "len", w, th[c].took, th[c].res)
      BY <1>4, <1>5, <1>7, <2>1, <3>1
    <3>3. Joins(c)
      BY <2>1, <2>4, <3>1, <3>2 DEF Joins, Result
    <3>4. QED
      BY <1>1, <3>3 DEF Steps
  <2>5. QED
    BY <2>2, <2>3, <2>4
<1>10. CASE HookReadLen(c)
  <2>1. th[c].pc = "len" /\ th' = [th EXCEPT ![c] = Idle] /\ UNCHANGED <<lock, parts, result>>
    BY <1>10 DEF HookReadLen, At
  <2>2. LooksOn(c)
    BY <2>1, ChangesTo DEF LooksOn
  <2>3. QED
    BY <1>1, <2>2 DEF Steps
<1>11. CASE HookCreate(c)
  <2>1. th[c].pc = "create" /\ UNCHANGED <<lock, tree, code, safe, items, enter>>
    BY <1>11 DEF HookCreate, At
  <2>2. CASE Return(c, "fail") /\ UNCHANGED <<obj, funcs>>
    <3>1. Refuses(c)
      BY <1>8, <2>1, <2>2 DEF Refuses, parts
    <3>2. QED
      BY <1>1, <3>1 DEF Steps
  <2>3. ASSUME NEW w \in Sw, IsFresh(w), obj' = [obj EXCEPT ![w] = "live"],
               funcs' = [funcs EXCEPT ![w] = IF unique THEN {th[c].p} ELSE {}],
               th' = [th EXCEPT ![c].pc = "insert", ![c].w = w], UNCHANGED result
        PROVE  Creates(c)
    <3>1. \E d : Goes(c, d, "insert", w, th[c].took, th[c].res)
      BY <1>4, <1>5, <2>1, <2>3
    <3>2. QED
      BY <2>1, <2>3, <3>1 DEF Creates
  <2>4. QED
    BY <1>1, <1>11, <2>2, <2>3 DEF HookCreate, Steps
<1>12. CASE HookInsert(c)
  <2> DEFINE t == th[c].t
  <2>1. th[c].pc = "insert" /\ lock = None /\ UNCHANGED <<code, safe, enter>>
    BY <1>12 DEF HookInsert, At
  <2>2. CASE tree[t] = None
    <3>1. /\ tree' = [tree EXCEPT ![t] = th[c].w] /\ lock' = c
          /\ Goto(c, "enter") /\ UNCHANGED <<obj, proxies, result>>
      BY <1>12, <2>2 DEF HookInsert
    <3>2. Inserts(c)
      BY <1>3, <1>5, <2>1, <2>2, <3>1 DEF Inserts, Inserted
    <3>3. QED
      BY <1>1, <3>2 DEF Steps
  <2>3. CASE tree[t] # None
    <3>1. /\ obj' = [obj EXCEPT ![th[c].w] = "free"] /\ UNCHANGED <<lock, tree>>
          /\ IF unique THEN Return(c, "dup") /\ UNCHANGED proxies
             ELSE \E r \in ResultsOfAdd(tree[t], th[c].p) :
                    AddProxy(tree[t], th[c].p, r) /\ Return(c, r)
      BY <1>12, <2>3 DEF HookInsert
    <3>2. Joins(c)
      BY <1>8, <2>1, <2>3, <3>1 DEF Joins
    <3>3. QED
      BY <1>1, <3>2 DEF Steps
  <2>4. QED
    BY <2>2, <2>3
<1>13. ASSUME Abandon(c)
       PROVE  /\ Changes(c, Idle) /\ lock' = None /\ Result(c, "fail")
              /\ tree' = [tree EXCEPT ![th[c].t] = None] /\ obj' = [obj EXCEPT ![th[c].w] = "free"]
  BY <1>8, <1>13 DEF Abandon
<1>14. ASSUME HookFailed(c), th[c].pc \in {"rewrite2", "patch2"}, UNCHANGED <<code, proxies>>
       PROVE  GivesUp(c)
  BY <1>13, <1>14 DEF HookFailed, GivesUp
<1>15. CASE HookEnter(c)
  <2>1. th[c].pc = "enter" /\ UNCHANGED <<code, safe, proxies>>
    BY <1>15 DEF HookEnter, At
  <2>2. CASE enter' = [enter EXCEPT ![th[c].w] = "live"] /\ Goto(c, "rewrite") /\ UNCHANGED <<lock, tree, obj, result>>
    BY <1>1, <1>3, <1>5, <2>1, <2>2 DEF Proceeds, Inserted, Steps
  <2>3. CASE Abandon(c) /\ UNCHANGED enter
    BY <1>1, <1>13, <2>1, <2>3 DEF GivesUp, Steps
  <2>4. QED
    BY <1>15, <2>2, <2>3 DEF HookEnter
<1>16. CASE HookRewrite(c)
  <2> DEFINE safeSet == IF HasOrig2(th[c].t, th[c].w) THEN [safe EXCEPT ![th[c].t] = th[c].w] ELSE safe
  <2>1. th[c].pc \in {"rewrite", "rewrite2"} /\ th[c].pc # "idle" /\ UNCHANGED <<code, proxies>>
    BY <1>16 DEF HookRewrite
  <2>2. ASSUME NEW pc \in {"patch", "patch2"}, Goto(c, pc), safe' = safeSet,
               UNCHANGED <<lock, tree, obj, enter, result>>
        PROVE  Proceeds(c)
    BY <1>3, <1>5, <2>1, <2>2 DEF Proceeds, Inserted
  <2>3. ASSUME th[c].pc = "rewrite", Goto(c, "rewrite2"), UNCHANGED <<lock, tree, safe, obj, enter, result>>
        PROVE  Proceeds(c)
    BY <1>3, <1>5, <2>1, <2>3 DEF Proceeds, Inserted
  <2>4. ASSUME th[c].pc = "rewrite2", HookFailed(c) PROVE GivesUp(c)
    BY <1>14, <2>1, <2>4
  <2>5. \/ /\ \E pc \in {"patch", "patch2"} : Goto(c, pc)
           /\ safe' = safeSet /\ UNCHANGED <<lock, tree, obj, enter, result>>
        \/ th[c].pc = "rewrite" /\ Goto(c, "rewrite2") /\ UNCHANGED <<lock, tree, safe, obj, enter, result>>
        \/ th[c].pc = "rewrite2" /\ HookFailed(c)
    BY <1>16, <2>1 DEF HookRewrite, At
  <2>6. QED
    BY <1>1, <2>2, <2>3, <2>4, <2>5 DEF Steps
<1>17. CASE HookPatch(c)
  <2>1. th[c].pc \in {"patch", "patch2"} /\ th[c].pc # "idle" /\ UNCHANGED proxies
    BY <1>17 DEF HookPatch
  <2>2. ASSUME code' = [code EXCEPT ![th[c].t] = th[c].w], unique, lock' = None, Return(c, "ok"),
               UNCHANGED <<tree, safe, obj, enter>>
        PROVE  Completes(c)
    BY <1>8, <2>1, <2>2 DEF Completes
  <2>3. ASSUME code' = [code EXCEPT ![th[c].t] = th[c].w], ~ unique, Goto(c, "proxy"),
               UNCHANGED <<lock, tree, safe, obj, enter, result>>
        PROVE  Proceeds(c)
    BY <1>3, <1>5, <2>1, <2>3 DEF Proceeds, Inserted
  <2>4. ASSUME th[c].pc = "patch", Goto(c, "rewrite2"), UNCHANGED <<lock, tree, code, safe, obj, enter, result>>
        PROVE  Proceeds(c)
    BY <1>3, <1>5, <2>1, <2>4 DEF Proceeds, Inserted
  <2>5. ASSUME th[c].pc = "patch2", HookFailed(c), UNCHANGED code PROVE GivesUp(c)
    BY <1>14, <2>1, <2>5
  <2>6. QED
    BY <1>1, <1>17, <2>1, <2>2, <2>3, <2>4, <2>5 DEF HookPatch, At, Steps
<1>18. CASE HookProxy(c)
  <2>1. th[c].pc = "proxy" /\ UNCHANGED safe
    BY <1>18 DEF HookProxy, At
  <2>2. PICK r \in ResultsOfAdd(th[c].w, th[c].p) :
          /\ AddProxy(th[c].w, th[c].p, r)
          /\ IF r = "ok"
             THEN /\ lock' = None /\ Return(c, "ok") /\ UNCHANGED <<tree, code, obj, enter>>
             ELSE /\ Abandon(c)
                  /\ \/ /\ code' = [code EXCEPT ![th[c].t] = None]
                        /\ enter' = [enter EXCEPT ![th[c].w] = "cooling"]
                     \/ /\ "restore" \in Faults
                        /\ code' \in {code, [code EXCEPT ![th[c].t] = None]} /\ UNCHANGED enter
    BY <1>18 DEF HookProxy
  <2>3. CASE r = "ok"
    BY <1>1, <1>8, <2>1, <2>2, <2>3 DEF Completes, Steps
  <2>4. CASE r # "ok"
    <3>1. UNCHANGED proxies
      BY <2>2, <2>4 DEF AddProxy
    <3>2. GivesUp(c)
      BY <1>13, <2>1, <2>2, <2>4, <3>1 DEF GivesUp
    <3>3. QED
      BY <1>1, <3>2 DEF Steps
  <2>5. QED
    BY <2>3, <2>4
<1>19. CASE UnhookFind(c)
  <2> DEFINE w == tree[th[c].t]
             p == th[c].p
             left == IF unique THEN {} ELSE funcs[w] \ {p}
  <2>1. th[c].pc = "lock" /\ lock = None /\ UNCHANGED <<tree, code, safe, obj, items, enter>>
    BY <1>19 DEF UnhookFind, At
  <2>2. CASE w = None \/ (~ unique /\ p \notin items[w])
    <3>1. Return(c, "notfound") /\ UNCHANGED <<lock, funcs>>
      BY <1>19, <2>2 DEF UnhookFind
    <3>2. Refuses(c)
      BY <1>8, <2>1, <2>2, <3>1 DEF Refuses, parts
    <3>3. QED
      BY <1>1, <3>2 DEF Steps
  <2>3. CASE ~ (w = None \/ (~ unique /\ p \notin items[w]))
    <3>1. /\ funcs' = IF unique THEN funcs ELSE [funcs EXCEPT ![w] = left]
          /\ IF left # {} THEN Return(c, "ok") /\ UNCHANGED lock
             ELSE /\ lock' = c
                  /\ th' = [th EXCEPT ![c].pc = "restore", ![c].w = w, ![c].took = TRUE]
                  /\ UNCHANGED result
      BY <1>19, <2>3 DEF UnhookFind
    <3>2. CASE left # {}
      BY <1>1, <1>8, <2>1, <2>3, <3>1, <3>2 DEF Disables, Steps
    <3>3. CASE left = {}
      <4>1. \E d : Goes(c, d, "restore", w, TRUE, th[c].res)
        <5>1. "restore" \in HookPcs \cup UnhookPcs /\ w \in Sw \cup {None} /\ TRUE \in BOOLEAN
              /\ th[c].pc # "idle" /\ "ok" \in Results
          BY <1>5, <1>7, <2>1 DEF UnhookPcs, Results
        <5>2. th' = [th EXCEPT ![c].pc = "restore", ![c].w = w, ![c].took = TRUE]
          BY <3>1, <3>3
        <5>3. QED
          BY <5>1, <5>2, GoesOn, Zenon
      <4>2. Takes(c)
        BY <2>1, <2>3, <3>1, <3>3, <4>1 DEF Takes
      <4>3. QED
        BY <1>1, <4>2 DEF Steps
    <3>4. QED
      BY <3>2, <3>3
  <2>4. QED
    BY <2>2, <2>3
<1>20. CASE UnhookRestore(c)
  <2>1. th[c].pc = "restore" /\ UNCHANGED <<lock, tree, safe, obj, proxies, enter, result>>
    BY <1>20 DEF UnhookRestore, At
  <2>2. CASE code' = [code EXCEPT ![th[c].t] = None] /\ Goto(c, "free")
    <3>1. "free" \in UnhookPcs
      BY DEF UnhookPcs
    <3>2. QED
      BY <1>1, <1>3, <1>5, <2>1, <2>2, <3>1 DEF Proceeds, Steps
  <2>3. CASE /\ "restore" \in Faults /\ code' \in {code, [code EXCEPT ![th[c].t] = None]}
             /\ th' = [th EXCEPT ![c].pc = "clear", ![c].res = "fail"]
    <3>1. \E d : Goes(c, d, "clear", th[c].w, th[c].took, "fail")
      <4>1. "clear" \in HookPcs \cup UnhookPcs /\ None \in Sw \cup {None} /\ TRUE \in BOOLEAN
            /\ th[c].pc # "idle" /\ "fail" \in Results
        BY <1>5, <2>1 DEF UnhookPcs
      <4>2. QED
        BY <2>3, <4>1, GoesOn, Zenon
    <3>2. QED
      BY <1>1, <2>1, <2>3, <3>1 DEF Proceeds, Steps
  <2>4. QED
    BY <1>20, <2>2, <2>3 DEF UnhookRestore
<1>21. CASE UnhookFree(c)
  <2>1. "clear" \in HookPcs \cup UnhookPcs
    BY <1>5 DEF UnhookPcs
  <2>2. QED
    BY <1>1, <1>3, <1>21, <2>1 DEF UnhookFree, At, Proceeds, Steps
<1>22. CASE UnhookClear(c)
  <2>1. "destroy" \in HookPcs \cup UnhookPcs
    BY <1>5 DEF UnhookPcs
  <2>2. QED
    BY <1>1, <1>3, <1>22, <2>1 DEF UnhookClear, At, Clears, Steps
<1>23. CASE UnhookDestroy(c)
  BY <1>1, <1>8, <1>23 DEF UnhookDestroy, At, Destroys, Steps
<1>24. QED
  BY <1>1, <1>2, <1>9, <1>10, <1>11, <1>12, <1>15, <1>16, <1>17, <1>18, <1>19, <1>20, <1>21, <1>22, <1>23
     DEF CallerStep, Steps

----------------------------------------------------------------------------
Runs == [pc : {"hub", "proxy", "enter", "safe"}, t : Targets, w : Sw]

(* What runs where.                                                        *)
LEMMA RunnerSteps ==
  ASSUME TypeOK, NEW x \in Runners, RunnerStep(x)
  PROVE  /\ UNCHANGED <<unique, lock, parts, th, result>>
         /\ run' \in [Runners -> {Out} \cup Runs] /\ \A y \in Runners : y # x => run'[y] = run[y]
         /\ \/ run'[x] = Out
            \/ \E t \in Targets, w \in Sw, pc \in {"hub", "proxy", "enter", "safe"} :
                 /\ run'[x] = [pc |-> pc, t |-> t, w |-> w]
                 /\ \/ run[x] = Out /\ code[t] = w /\ pc = (IF unique THEN "proxy" ELSE "hub")
                    \/ run[x] = Out /\ safe[t] = w /\ pc = "safe"
                    \/ /\ run[x] \in Runs /\ run[x].t = t /\ run[x].w = w
                       /\ pc = "enter" \/ (run[x].pc = "hub" /\ pc = "proxy")
<1>1. /\ run \in [Runners -> {Out} \cup Runs] /\ code \in [Targets -> Sw \cup {None}]
      /\ safe \in [Targets -> Sw \cup {None}]
  BY DEF TypeOK, Runs
<1>2. UNCHANGED <<unique, lock, parts, th, result>>
  BY DEF RunnerStep, Call, SafeLoad, Push, CallOriginal, Leave, SafeJump
<1>3. run[x].pc # "out" => run[x] \in Runs
  BY <1>1 DEF Out
<1>4. Out.pc = "out"
  BY DEF Out
<1>5. run[x].pc = "out" => run[x] = Out
  BY <1>1 DEF Runs
<1>6. ASSUME NEW t \in Targets, NEW w \in Sw, NEW pc \in {"hub", "proxy", "enter", "safe"},
             Enters(x, pc, t, w)
      PROVE  /\ run' \in [Runners -> {Out} \cup Runs] /\ \A y \in Runners : y # x => run'[y] = run[y]
             /\ run'[x] = [pc |-> pc, t |-> t, w |-> w]
  <2> DEFINE r == [pc |-> pc, t |-> t, w |-> w]
  <2>1. r \in Runs
    BY DEF Runs
  <2>2. run' = [run EXCEPT ![x] = r]
    BY <1>6 DEF Enters
  <2> HIDE DEF r
  <2>3. run'[x] = r /\ run' \in [Runners -> {Out} \cup Runs] /\ \A y \in Runners : y # x => run'[y] = run[y]
    BY <1>1, <2>1, <2>2
  <2>4. QED
    BY <2>3 DEF r
<1>7. CASE \E t \in Targets : Call(x, t)
  <2>1. PICK t \in Targets : Call(x, t)
    BY <1>7
  <2>2. /\ code[t] \in Sw /\ run[x] = Out
        /\ Enters(x, IF unique THEN "proxy" ELSE "hub", t, code[t])
    BY <1>1, <1>5, <2>1 DEF Call, Running
  <2> DEFINE pc == IF unique THEN "proxy" ELSE "hub"
  <2>3. pc \in {"hub", "proxy", "enter", "safe"}
    OBVIOUS
  <2>4. /\ run' \in [Runners -> {Out} \cup Runs] /\ \A y \in Runners : y # x => run'[y] = run[y]
        /\ run'[x] = [pc |-> pc, t |-> t, w |-> code[t]]
    BY <1>6, <2>2, <2>3, Zenon
  <2>5. QED
    BY <1>2, <2>2, <2>4
<1>8. CASE \E t \in Targets : SafeLoad(x, t)
  <2>1. PICK t \in Targets : SafeLoad(x, t)
    BY <1>8
  <2>2. safe[t] \in Sw /\ run[x] = Out /\ Enters(x, "safe", t, safe[t])
    BY <1>1, <1>5, <2>1 DEF SafeLoad, Running
  <2>3. /\ run' \in [Runners -> {Out} \cup Runs] /\ \A y \in Runners : y # x => run'[y] = run[y]
        /\ run'[x] = [pc |-> "safe", t |-> t, w |-> safe[t]]
    BY <1>6, <2>2, Zenon
  <2>4. QED
    BY <1>2, <2>2, <2>3
<1>9. CASE Push(x) \/ CallOriginal(x) \/ SafeJump(x)
  <2>1. run[x] \in Runs
    BY <1>3, <1>9 DEF Push, CallOriginal, SafeJump, Running
  <2>2. run[x].t \in Targets /\ run[x].w \in Sw
    BY <2>1 DEF Runs
  <2>3. PICK pc \in {"proxy", "enter"} :
          Enters(x, pc, run[x].t, run[x].w) /\ (pc = "proxy" => run[x].pc = "hub")
    BY <1>9, Zenon DEF Push, CallOriginal, SafeJump, Running
  <2>4. pc \in {"hub", "proxy", "enter", "safe"}
    OBVIOUS
  <2>5. /\ run' \in [Runners -> {Out} \cup Runs] /\ \A y \in Runners : y # x => run'[y] = run[y]
        /\ run'[x] = [pc |-> pc, t |-> run[x].t, w |-> run[x].w]
    BY <1>6, <2>2, <2>3, <2>4, Zenon
  <2>6. QED
    BY <1>2, <2>1, <2>2, <2>3, <2>5
<1>10. CASE Leave(x)
  BY <1>1, <1>2, <1>10 DEF Leave
<1>11. QED
  BY <1>7, <1>8, <1>9, <1>10 DEF RunnerStep

(* In unique mode there are no hubs.                                       *)
LEMMA NextWithoutHubs ==
  ASSUME TypeOK, [Next]_vars
  PROVE  (unique => WithoutHubs)'
<1>1. /\ obj \in [Sw -> {"free", "live", "retired"}] /\ items \in [Sw -> SUBSET Proxies]
      /\ unique => WithoutHubs
  BY DEF TypeOK
<1>2. ASSUME NEW c \in Callers, CallerStep(c) PROVE (unique => WithoutHubs)'
  <2>1. Steps(c) /\ unique' = unique
    BY <1>2, CallerSteps
  <2> SUFFICES ASSUME unique PROVE WithoutHubs'
    BY <2>1
  <2>2. WithoutHubs /\ th[c].pc # "proxy"
    BY <1>1 DEF WithoutHubs, At
  <2>3. UNCHANGED items
    BY <2>1, <2>2 DEF Steps, Starts, LooksOn, Refuses, Joins, Creates, Inserts, Proceeds, GivesUp,
                      Completes, Disables, Takes, Clears, Destroys, parts, proxies
  <2>4. \/ UNCHANGED obj
        \/ \E w, s : s \in {"free", "live"} /\ obj' = [obj EXCEPT ![w] = s]
    <3>1. CASE Joins(c)
      BY <3>1 DEF Joins
    <3>2. CASE Creates(c) \/ GivesUp(c) \/ Destroys(c)
      BY <3>2 DEF Creates, GivesUp, Destroys
    <3>3. QED
      BY <2>1, <3>1, <3>2 DEF Steps, Starts, LooksOn, Refuses, Inserts, Proceeds, Completes,
                              Disables, Takes, Clears, parts
  <2>5. \E d : Changes(c, d) /\ d.pc # "proxy"
    <3>1. CASE Changes(c, Idle)
      BY <3>1 DEF Idle
    <3>2. CASE Starts(c) \/ LooksOn(c) \/ Joins(c) \/ Creates(c) \/ Inserts(c)
      BY <3>2 DEF Starts, LooksOn, Joins, Creates, Inserts, Goes, Idle
    <3>3. CASE Proceeds(c)
      BY <3>3 DEF Proceeds, Goes
    <3>4. CASE Takes(c) \/ Clears(c)
      BY <3>4 DEF Takes, Clears, Goes
    <3>5. QED
      BY <2>1, <3>1, <3>2, <3>3, <3>4 DEF Steps, Refuses, GivesUp, Completes, Disables, Destroys
  <2>6. \A e \in Callers : th'[e].pc # "proxy"
    BY <2>2, <2>5 DEF Changes, WithoutHubs, At
  <2>7. \A w \in Sw : items'[w] = {} /\ obj'[w] # "retired"
    BY <1>1, <2>2, <2>3, <2>4 DEF WithoutHubs
  <2>8. QED
    BY <2>6, <2>7 DEF WithoutHubs, At
<1>3. ASSUME NEW x \in Runners, RunnerStep(x) PROVE (unique => WithoutHubs)'
  <2>1. UNCHANGED <<unique, lock, parts, th, result>>
    BY <1>3, RunnerSteps
  <2>2. QED
    BY <1>1, <2>1 DEF parts, WithoutHubs, At
<1>4. ASSUME NEW w \in Sw, Reap(w) \/ CoolEnter(w) PROVE (unique => WithoutHubs)'
  <2>1. CASE Reap(w)
    BY <1>1, <2>1 DEF Reap, WithoutHubs, At
  <2>2. CASE CoolEnter(w)
    BY <1>1, <2>2 DEF CoolEnter, proxies, WithoutHubs, At
  <2>3. QED
    BY <1>4, <2>1, <2>2
<1>5. ASSUME NEW lib, Dlclose(lib) PROVE (unique => WithoutHubs)'
  <2>1. UNCHANGED <<unique, th>> /\ \A w \in Sw : items'[w] \in {items[w], {}} /\ obj'[w] \in {obj[w], "free"}
    BY <1>5 DEF Dlclose
  <2>2. QED
    BY <1>1, <2>1 DEF WithoutHubs, At
<1>6. CASE UNCHANGED vars
  BY <1>1, <1>6 DEF vars, parts, WithoutHubs, At
<1>7. QED
  BY <1>2, <1>3, <1>4, <1>5, <1>6 DEF Next

(* Types.                                                                  *)
LEMMA NextTypeOK == TypeOK /\ [Next]_vars => TypeOK'
<1> SUFFICES ASSUME TypeOK, [Next]_vars PROVE TypeOK'
  OBVIOUS
<1>0. /\ unique \in Modes /\ lock \in Callers \cup {None}
      /\ tree \in [Targets -> Sw \cup {None}] /\ code \in [Targets -> Sw \cup {None}]
      /\ safe \in [Targets -> Sw \cup {None}] /\ obj \in [Sw -> {"free", "live", "retired"}]
      /\ items \in [Sw -> SUBSET Proxies] /\ funcs \in [Sw -> SUBSET Proxies]
      /\ enter \in [Sw -> {"free", "live", "cooling"}] /\ th \in [Callers -> {Idle} \cup Ops]
      /\ result \in [Callers -> Results] /\ run \in [Runners -> {Out} \cup Runs]
  BY DEF TypeOK, Ops, Runs
<1>1. ASSUME unique' \in Modes, lock' \in Callers \cup {None},
             tree' \in [Targets -> Sw \cup {None}], code' \in [Targets -> Sw \cup {None}],
             safe' \in [Targets -> Sw \cup {None}], obj' \in [Sw -> {"free", "live", "retired"}],
             items' \in [Sw -> SUBSET Proxies], funcs' \in [Sw -> SUBSET Proxies],
             enter' \in [Sw -> {"free", "live", "cooling"}], th' \in [Callers -> {Idle} \cup Ops],
             result' \in [Callers -> Results], run' \in [Runners -> {Out} \cup Runs]
      PROVE  TypeOK'
  BY <1>1, NextWithoutHubs DEF TypeOK, Ops, Runs
<1>2. ASSUME NEW c \in Callers, CallerStep(c) PROVE TypeOK'
  <2>1. Steps(c) /\ UNCHANGED <<unique, run>>
    BY <1>2, CallerSteps
  <2>2. th' \in [Callers -> {Idle} \cup Ops]
    BY <2>1 DEF Steps, Starts, LooksOn, Refuses, Joins, Creates, Inserts, Proceeds, GivesUp,
                Completes, Disables, Takes, Clears, Destroys, Goes, Changes
  <2>3. th[c].pc # "idle" =>
          th[c].t \in Targets /\ th[c].p \in Proxies /\ th[c].w \in Sw \cup {None} /\ th[c].res \in Results
    BY CallersAreInOps
  <2>4. {"none", "ok", "dup", "notfound", "fail"} \subseteq Results
    BY DEF Results
  <2>5. \A w, p : ResultsOfAdd(w, p) \subseteq {"ok", "dup", "fail"}
    BY DEF ResultsOfAdd
  <2>6. \A r \in Results : Result(c, r) => result' \in [Callers -> Results]
    BY <1>0 DEF Result
  <2>7. \A w, r : AddProxy(w, th[c].p, r) /\ th[c].pc # "idle" =>
          items' \in [Sw -> SUBSET Proxies] /\ funcs' \in [Sw -> SUBSET Proxies]
    BY <1>0, <2>3 DEF AddProxy, proxies
  <2>8. CASE Starts(c)
    BY <1>0, <1>1, <2>1, <2>2, <2>4, <2>6, <2>8 DEF Starts, parts
  <2>9. CASE LooksOn(c) \/ Refuses(c)
    BY <1>0, <1>1, <2>1, <2>2, <2>4, <2>6, <2>9 DEF LooksOn, Refuses, parts
  <2>10. CASE Joins(c)
    <3>1. UNCHANGED <<lock, tree, code, safe, enter>> /\ th[c].pc # "idle"
      BY <2>10 DEF Joins
    <3>2. obj' \in [Sw -> {"free", "live", "retired"}]
      BY <1>0, <2>10 DEF Joins
    <3>3. /\ items' \in [Sw -> SUBSET Proxies] /\ funcs' \in [Sw -> SUBSET Proxies]
          /\ result' \in [Callers -> Results]
      <4>1. CASE UNCHANGED proxies /\ Result(c, "dup")
        BY <1>0, <2>4, <2>6, <4>1 DEF proxies
      <4>2. ASSUME NEW r \in ResultsOfAdd(tree[th[c].t], th[c].p),
                   AddProxy(tree[th[c].t], th[c].p, r), Result(c, r)
            PROVE  /\ items' \in [Sw -> SUBSET Proxies] /\ funcs' \in [Sw -> SUBSET Proxies]
                   /\ result' \in [Callers -> Results]
        BY <2>4, <2>5, <2>6, <2>7, <3>1, <4>2
      <4>3. QED
        BY <2>10, <4>1, <4>2 DEF Joins
    <3>4. QED
      BY <1>0, <1>1, <2>1, <2>2, <3>1, <3>2, <3>3
  <2>11. CASE Creates(c)
    <3>1. PICK w \in Sw :
            /\ obj' = [obj EXCEPT ![w] = "live"]
            /\ funcs' = [funcs EXCEPT ![w] = IF unique THEN {th[c].p} ELSE {}]
      BY <2>11 DEF Creates
    <3>2. UNCHANGED <<lock, tree, code, safe, items, enter, result>> /\ th[c].p \in Proxies
      BY <2>3, <2>11 DEF Creates
    <3>3. (IF unique THEN {th[c].p} ELSE {}) \in SUBSET Proxies
      BY <3>2
    <3>4. obj' \in [Sw -> {"free", "live", "retired"}] /\ funcs' \in [Sw -> SUBSET Proxies]
      BY <1>0, <3>1, <3>3
    <3>5. QED
      BY <1>0, <1>1, <2>1, <2>2, <3>2, <3>4
  <2>12. CASE Inserts(c)
    BY <1>0, <1>1, <2>1, <2>2, <2>3, <2>12 DEF Inserts, proxies
  <2>13. CASE Proceeds(c)
    <3>1. UNCHANGED <<lock, tree, obj, proxies, result>> /\ th[c].w \in Sw \cup {None}
      BY <2>3, <2>13 DEF Proceeds
    <3>2. code' \in [Targets -> Sw \cup {None}]
      BY <1>0, <2>13, <3>1 DEF Proceeds
    <3>3. safe' \in [Targets -> Sw \cup {None}]
      BY <1>0, <2>13, <3>1 DEF Proceeds
    <3>4. enter' \in [Sw -> {"free", "live", "cooling"}]
      BY <1>0, <2>13, <3>1 DEF Proceeds
    <3>5. QED
      BY <1>0, <1>1, <2>1, <2>2, <3>1, <3>2, <3>3, <3>4 DEF proxies
  <2>14. CASE GivesUp(c)
    <3>1. lock' = None /\ Result(c, "fail") /\ UNCHANGED proxies
      BY <2>14 DEF GivesUp
    <3>2. tree' \in [Targets -> Sw \cup {None}] /\ obj' \in [Sw -> {"free", "live", "retired"}]
      BY <1>0, <2>14 DEF GivesUp
    <3>3. /\ code' \in [Targets -> Sw \cup {None}] /\ safe' \in [Targets -> Sw \cup {None}]
          /\ enter' \in [Sw -> {"free", "live", "cooling"}]
      BY <1>0, <2>14 DEF GivesUp
    <3>4. QED
      BY <1>0, <1>1, <2>1, <2>2, <2>4, <2>6, <3>1, <3>2, <3>3 DEF proxies
  <2>15. CASE Completes(c)
    <3>1. lock' = None /\ Result(c, "ok") /\ UNCHANGED <<tree, safe, obj, enter>> /\ th[c].pc # "idle"
      BY <2>15 DEF Completes
    <3>2. code' \in [Targets -> Sw \cup {None}]
      BY <1>0, <2>3, <2>15, <3>1 DEF Completes
    <3>3. items' \in [Sw -> SUBSET Proxies] /\ funcs' \in [Sw -> SUBSET Proxies]
      BY <1>0, <2>7, <2>15, <3>1 DEF Completes, proxies
    <3>4. QED
      BY <1>0, <1>1, <2>1, <2>2, <2>4, <2>6, <3>1, <3>2, <3>3
  <2>16. CASE Disables(c)
    <3>1. /\ UNCHANGED <<lock, tree, code, safe, obj, items, enter>> /\ Result(c, "ok")
          /\ funcs' \in [Sw -> SUBSET Proxies]
      BY <1>0, <2>16 DEF Disables
    <3>2. QED
      BY <1>0, <1>1, <2>1, <2>2, <2>4, <2>6, <3>1
  <2>17. CASE Takes(c)
    <3>1. /\ UNCHANGED <<tree, code, safe, obj, items, enter, result>> /\ lock' = c
          /\ funcs' \in [Sw -> SUBSET Proxies]
      BY <1>0, <2>17 DEF Takes
    <3>2. QED
      BY <1>0, <1>1, <2>1, <2>2, <3>1
  <2>18. CASE Clears(c)
    <3>1. /\ UNCHANGED <<code, obj, proxies, enter, result>> /\ lock' = None
          /\ safe' \in [Targets -> Sw \cup {None}] /\ tree' \in [Targets -> Sw \cup {None}]
      BY <1>0, <2>18 DEF Clears
    <3>2. QED
      BY <1>0, <1>1, <2>1, <2>2, <3>1 DEF proxies
  <2>19. CASE Destroys(c)
    <3>1. /\ UNCHANGED <<lock, tree, code, safe, proxies, enter>> /\ Result(c, th[c].res)
          /\ th[c].res \in Results
      BY <2>3, <2>19 DEF Destroys
    <3>2. obj' \in [Sw -> {"free", "live", "retired"}]
      <4>1. (IF unique THEN "free" ELSE "retired") \in {"free", "live", "retired"}
        OBVIOUS
      <4>2. QED
        BY <1>0, <2>19, <4>1 DEF Destroys
    <3>3. QED
      BY <1>0, <1>1, <2>1, <2>2, <2>6, <3>1, <3>2 DEF proxies
  <2>20. QED
    BY <2>1, <2>8, <2>9, <2>10, <2>11, <2>12, <2>13, <2>14, <2>15, <2>16, <2>17, <2>18, <2>19 DEF Steps
<1>3. ASSUME NEW x \in Runners, RunnerStep(x) PROVE TypeOK'
  <2>1. UNCHANGED <<unique, lock, parts, th, result>> /\ run' \in [Runners -> {Out} \cup Runs]
    BY <1>3, RunnerSteps
  <2>2. QED
    BY <1>0, <1>1, <2>1 DEF parts
<1>4. ASSUME NEW w \in Sw, Reap(w) \/ CoolEnter(w) PROVE TypeOK'
  <2>1. CASE Reap(w)
    BY <1>0, <1>1, <2>1 DEF Reap
  <2>2. CASE CoolEnter(w)
    BY <1>0, <1>1, <2>2 DEF CoolEnter, proxies
  <2>3. QED
    BY <1>4, <2>1, <2>2
<1>5. ASSUME NEW lib, Dlclose(lib) PROVE TypeOK'
  <2>1. tree' \in [Targets -> Sw \cup {None}] /\ code' \in [Targets -> Sw \cup {None}]
    BY <1>0, <1>5 DEF Dlclose
  <2>2. enter' \in [Sw -> {"free", "live", "cooling"}] /\ obj' \in [Sw -> {"free", "live", "retired"}]
    BY <1>0, <1>5 DEF Dlclose
  <2>3. items' \in [Sw -> SUBSET Proxies] /\ funcs' \in [Sw -> SUBSET Proxies]
    BY <1>0, <1>5 DEF Dlclose
  <2>4. UNCHANGED <<unique, lock, safe, th, result, run>>
    BY <1>5 DEF Dlclose
  <2>5. QED
    BY <1>0, <1>1, <2>1, <2>2, <2>3, <2>4
<1>6. CASE UNCHANGED vars
  BY <1>0, <1>1, <1>6 DEF vars, parts
<1>7. QED
  BY <1>2, <1>3, <1>4, <1>5, <1>6 DEF Next

----------------------------------------------------------------------------
(* The first layer holds in every state.                                   *)
LEMMA LocksAfter ==
  ASSUME ControlInv, NEW c \in Callers, NEW d, Changes(c, d),
         \/ lock' = lock /\ (d.pc \in LockedPcs <=> th[c].pc \in LockedPcs)
         \/ lock = None /\ lock' = c /\ d.pc \in LockedPcs
         \/ th[c].pc \in LockedPcs /\ lock' = None /\ d.pc \notin LockedPcs
  PROVE  LockPhases'
BY SwitchAssumption DEF ControlInv, LockPhases, Changes

LEMMA OwnersAfter ==
  ASSUME ControlInv, NEW c \in Callers, NEW d, Changes(c, d),
         d.pc \in OwningPcs =>
           \/ th[c].pc \in OwningPcs /\ d.w = th[c].w
           \/ \A e \in Callers : e # c /\ th[e].pc \in OwningPcs => th[e].w # d.w
  PROVE  OwnersDiffer'
BY DEF ControlInv, OwnersDiffer, Changes

LEMMA OthersKeepHold ==
  ASSUME ControlInv, NEW c \in Callers, NEW d, Changes(c, d), unique' = unique,
         NEW e \in Callers, e # c,
         th[e].pc \in OwningPcs => obj'[th[e].w] = obj[th[e].w],
         th[e].pc \in LockedPcs => tree'[th[e].t] = tree[th[e].t],
         th[e].pc \in {"insert", "destroy"} =>
           \A t \in Targets : tree'[t] = tree[t] \/ tree'[t] # th[e].w,
         th[e].pc \in Inserted \cup {"insert"} => funcs'[th[e].w] = funcs[th[e].w]
  PROVE  InHand(e)'
<1>1. th'[e] = th[e] /\ InHand(e)
  BY DEF Changes, ControlInv, CallerPhases
<1>2. QED
  BY <1>1 DEF InHand

(* Who holds the lock is alone.                                            *)
LEMMA Alone ==
  ASSUME ControlInv, NEW c \in Callers, th[c].pc \in LockedPcs \/ lock = None
  PROVE  /\ \A e \in Callers : e # c => th[e].pc \notin LockedPcs
         /\ \A t \in Targets : Mid(t) <=> th[c].pc \in LockedPcs /\ th[c].t = t
<1>1. \A e \in Callers : e # c => th[e].pc \notin LockedPcs
  BY SwitchAssumption DEF ControlInv, LockPhases
<1>2. QED
  BY <1>1 DEF Mid

LEMMA MidAfter ==
  ASSUME ControlInv, NEW c \in Callers, NEW d, Changes(c, d), th[c].pc \in LockedPcs \/ lock = None
  PROVE  \A t \in Targets : Mid(t)' <=> d.pc \in LockedPcs /\ d.t = t
<1>1. \A e \in Callers : e # c => th[e].pc \notin LockedPcs
  BY Alone
<1>2. QED
  BY <1>1 DEF Mid, Changes

(* A step that concerns one switch, v, which nobody else has in hand,      *)
(* leaves what the others have as it was, and the rest of the tree.        *)
OnlyChanges(v) ==
  /\ \A u \in Sw : u # v => obj'[u] = obj[u] /\ funcs'[u] = funcs[u] /\ items'[u] = items[u]
  /\ \A s \in Targets : tree'[s] \in {tree[s], None, v}
  /\ unique' = unique

LEMMA OthersStay ==
  ASSUME ControlInv, NEW c \in Callers, NEW d, Changes(c, d), NEW v \in Sw, OnlyChanges(v),
         \A e \in Callers : e # c /\ th[e].pc \in OwningPcs => th[e].w # v,
         tree' = tree \/ th[c].pc \in LockedPcs \/ lock = None
  PROVE  \A e \in Callers : e # c => InHand(e)'
<1> SUFFICES ASSUME NEW e \in Callers, e # c PROVE InHand(e)'
  OBVIOUS
<1>1. InHand(e) /\ LockedPcs \subseteq OwningPcs /\ Inserted \cup {"insert", "destroy"} \subseteq OwningPcs
      /\ Inserted \subseteq LockedPcs /\ None \notin Sw
  BY SwitchAssumption DEF ControlInv, CallerPhases, OwningPcs, LockedPcs, Inserted
<1>2. th[e].pc \in OwningPcs => th[e].w \in Sw /\ th[e].w # v /\ th[e].w # None
  BY <1>1 DEF InHand
<1>3. th[e].pc \in OwningPcs => obj'[th[e].w] = obj[th[e].w] /\ funcs'[th[e].w] = funcs[th[e].w]
  BY <1>2 DEF OnlyChanges
<1>4. th[e].pc \in LockedPcs => tree'[th[e].t] = tree[th[e].t]
  BY Alone
<1>5. th[e].pc \in {"insert", "destroy"} =>
        \A t \in Targets : tree'[t] = tree[t] \/ tree'[t] # th[e].w
  <2>1. \A t \in Targets : tree'[t] \in {tree[t], None, v}
    BY DEF OnlyChanges
  <2>2. QED
    BY <1>1, <1>2, <2>1
<1>6. QED
  BY <1>1, <1>3, <1>4, <1>5, OthersKeepHold DEF OnlyChanges

LEMMA TreeStays ==
  ASSUME ControlInv, NEW v \in Sw, OnlyChanges(v),
         \A s \in Targets : tree[s] # None /\ tree[s] # v /\ Mid(s) => Mid(s)',
         \A s \in Targets : tree'[s] = v => InTree(s)'
  PROVE  TreePhases'
<1> SUFFICES ASSUME NEW s \in Targets, tree'[s] # None, tree'[s] # v
             PROVE  /\ obj'[tree'[s]] = "live"
                    /\ ~ unique' => funcs'[tree'[s]] \subseteq items'[tree'[s]]
                    /\ ~ Mid(s)' => funcs'[tree'[s]] # {}
                    /\ \A r \in Targets : tree'[r] = tree'[s] => r = s
  BY DEF TreePhases, InTree
<1>1. \A r \in Targets : tree'[r] \in {tree[r], None, v}
  BY DEF OnlyChanges
<1>2. tree[s] \in Sw /\ tree[s] # None /\ tree[s] # v /\ tree'[s] = tree[s] /\ InTree(s)
  BY <1>1 DEF ControlInv, TypeOK, TreePhases
<1>3. /\ obj'[tree[s]] = obj[tree[s]] /\ funcs'[tree[s]] = funcs[tree[s]]
      /\ items'[tree[s]] = items[tree[s]] /\ unique' = unique
  BY <1>2 DEF OnlyChanges
<1>4. /\ obj[tree[s]] = "live"
      /\ ~ unique => funcs[tree[s]] \subseteq items[tree[s]]
      /\ ~ Mid(s) => funcs[tree[s]] # {}
  BY <1>2 DEF InTree
<1>5. \A r \in Targets : tree'[r] = tree'[s] => r = s
  <2>1. \A r \in Targets : tree[r] = tree[s] => r = s
    BY <1>2 DEF InTree
  <2>2. QED
    BY <1>1, <1>2, <2>1
<1>6. ~ Mid(s)' => ~ Mid(s)
  BY <1>2
<1>7. obj'[tree'[s]] = "live" /\ (~ Mid(s)' => funcs'[tree'[s]] # {})
  BY <1>2, <1>3, <1>4, <1>6
<1>8. ~ unique' => funcs'[tree'[s]] \subseteq items'[tree'[s]]
  BY <1>2, <1>3, <1>4
<1>9. QED
  BY <1>5, <1>7, <1>8

LEMMA CallersControl ==
  ASSUME ControlInv, NEW c \in Callers, Steps(c), unique' = unique
  PROVE  LockPhases' /\ CallerPhases' /\ OwnersDiffer' /\ TreePhases'
<1> DEFINE t == th[c].t
           w == th[c].w
           p == th[c].p
           Done == LockPhases' /\ CallerPhases' /\ OwnersDiffer' /\ TreePhases'
<1>0. /\ TypeOK /\ InHand(c) /\ \A e \in Callers : InHand(e)
      /\ tree \in [Targets -> Sw \cup {None}] /\ None \notin Sw
      /\ obj \in [Sw -> {"free", "live", "retired"}] /\ funcs \in [Sw -> SUBSET Proxies]
      /\ items \in [Sw -> SUBSET Proxies]
      /\ \A s \in Targets : InTree(s)
  BY SwitchAssumption DEF ControlInv, CallerPhases, TreePhases, TypeOK
<1>1. th[c].pc # "idle" => t \in Targets /\ p \in Proxies /\ th[c] \in Ops
  BY <1>0, CallersAreInOps
<1>2. Idle.pc = "idle" /\ "idle" \notin HookPcs \cup UnhookPcs \cup OwningPcs \cup LockedPcs \cup Inserted
      /\ LockedPcs \subseteq OwningPcs
  BY DEF Idle, HookPcs, UnhookPcs, Inserted, OwningPcs, LockedPcs, Restored
<1>3. ASSUME NEW d, Changes(c, d) PROVE th'[c] = d /\ (d = Idle => InHand(c)')
  BY <1>2, <1>3 DEF Changes, InHand
<1>4. CASE (Starts(c) \/ LooksOn(c) \/ Refuses(c))
  <2>1. UNCHANGED <<lock, parts>> /\ th[c].pc \notin OwningPcs
    BY <1>4 DEF Starts, LooksOn, Refuses, OwningPcs, LockedPcs, Inserted, Restored
  <2>2. PICK d : /\ Changes(c, d)
                 /\ \/ d = Idle
                    \/ /\ d \in Ops /\ d.pc = (IF d.kind = "hook" THEN "find" ELSE "lock")
                       /\ d.took = FALSE /\ d.res = "ok"
                    \/ th[c].pc = "find" /\ d.pc = "create" /\ d.kind = th[c].kind /\ d.took = th[c].took
    BY <1>4 DEF Starts, LooksOn, Refuses, Goes
  <2>3. d.pc \notin OwningPcs
    BY <1>2, <2>2 DEF OwningPcs, LockedPcs, Inserted, Restored, Ops
  <2>4. InHand(c)'
    <3>1. CASE d = Idle
      BY <1>3, <2>2, <3>1
    <3>2. CASE /\ d \in Ops /\ d.pc = (IF d.kind = "hook" THEN "find" ELSE "lock")
               /\ d.took = FALSE /\ d.res = "ok"
      <4>1. th'[c] = d /\ d.kind \in {"hook", "unhook"}
        BY <1>3, <2>2, <3>2 DEF Ops
      <4>2. QED
        BY <3>2, <4>1 DEF InHand, HookPcs, UnhookPcs, Inserted, OwningPcs, LockedPcs, Restored
    <3>3. CASE th[c].pc = "find" /\ d.pc = "create" /\ d.kind = th[c].kind /\ d.took = th[c].took
      <4>1. th'[c] = d
        BY <1>3, <2>2
      <4>2. QED
        BY <1>0, <3>3, <4>1 DEF InHand, HookPcs, UnhookPcs, Inserted, OwningPcs, LockedPcs, Restored
    <3>4. QED
      BY <2>2, <3>1, <3>2, <3>3
  <2>5. CallerPhases'
    BY <2>1, <2>2, <2>4, OthersKeepHold DEF CallerPhases, parts
  <2>6. LockPhases' /\ OwnersDiffer'
    BY <1>2, <2>1, <2>2, <2>3, LocksAfter, OwnersAfter
  <2>7. \A s \in Targets : Mid(s)' <=> Mid(s)
    BY <1>2, <2>1, <2>2, <2>3 DEF Mid, Changes
  <2>8. TreePhases'
    BY <1>0, <2>1, <2>7 DEF TreePhases, InTree, parts
  <2>9. QED
    BY <2>5, <2>6, <2>8
<1>5. CASE Joins(c)
  <2>1. /\ lock = None /\ tree[t] # None /\ UNCHANGED <<lock, tree>> /\ t \in Targets
        /\ obj' = (IF th[c].pc = "insert" THEN [obj EXCEPT ![w] = "free"] ELSE obj)
    BY <1>1, <1>5 DEF Joins
  <2>2. PICK d : Changes(c, d) /\ d.pc \in {"idle", "len"} /\ (d = Idle \/ (d.pc = "len" /\ th[c].pc = "find" /\ d.kind = th[c].kind /\ d.took = th[c].took))
    BY <1>2, <1>5 DEF Joins, Goes
  <2>3. d.pc \notin OwningPcs /\ th[c].pc \notin LockedPcs /\ (th[c].pc \in OwningPcs => th[c].pc = "insert")
    BY <1>5, <2>2 DEF Joins, OwningPcs, LockedPcs, Inserted, Restored
  <2>4. /\ \A v \in Sw : v # tree[t] => funcs'[v] = funcs[v] /\ items'[v] = items[v]
        /\ tree[t] \in Sw /\ funcs[tree[t]] \subseteq funcs'[tree[t]]
        /\ (~ unique => funcs'[tree[t]] \subseteq items'[tree[t]])
    <3>1. tree[t] \in Sw /\ InTree(t)
      BY <1>0, <2>1
    <3>2. CASE UNCHANGED proxies
      BY <2>1, <3>1, <3>2 DEF proxies, InTree
    <3>3. CASE /\ items' = [items EXCEPT ![tree[t]] = @ \cup {p}]
               /\ funcs' = [funcs EXCEPT ![tree[t]] = @ \cup {p}]
      BY <1>0, <2>1, <3>1, <3>3 DEF InTree
    <3>4. QED
      BY <1>5, <3>2, <3>3 DEF Joins, AddProxy
  <2>5. InHand(c)'
    <3>1. CASE d.pc = "len" /\ th[c].pc = "find" /\ d.kind = th[c].kind /\ d.took = th[c].took
      <4>1. th'[c] = d
        BY <1>3, <2>2
      <4>2. QED
        BY <1>0, <3>1, <4>1 DEF InHand, HookPcs, UnhookPcs, Inserted, OwningPcs, LockedPcs, Restored
    <3>2. QED
      BY <1>3, <2>2, <3>1
  <2>6. \A e \in Callers : e # c => th[e].pc \notin LockedPcs
    BY <2>1, Alone
  <2>7. ASSUME NEW e \in Callers, e # c PROVE InHand(e)'
    <3>1. th[e].pc \in OwningPcs => th[e].w \in Sw /\ obj'[th[e].w] = obj[th[e].w]
      BY <1>0, <2>1, <2>3, <2>7 DEF InHand, ControlInv, OwnersDiffer, OwningPcs
    <3>2. th[e].pc \in Inserted \cup {"insert"} => th[e].pc = "insert"
      BY <2>6, <2>7 DEF LockedPcs
    <3>3. th[e].pc = "insert" => funcs'[th[e].w] = funcs[th[e].w]
      BY <1>0, <2>1, <2>4 DEF InHand, OwningPcs
    <3>4. QED
      BY <2>1, <2>2, <2>6, <2>7, <3>1, <3>2, <3>3, OthersKeepHold
  <2>8. CallerPhases'
    BY <2>5, <2>7 DEF CallerPhases
  <2>9. LockPhases' /\ OwnersDiffer'
    BY <1>2, <2>1, <2>2, <2>3, LocksAfter, OwnersAfter
  <2>10. TreePhases'
    <3> SUFFICES ASSUME NEW s \in Targets, tree[s] # None
                 PROVE  /\ obj'[tree[s]] = "live"
                        /\ ~ unique => funcs'[tree[s]] \subseteq items'[tree[s]]
                        /\ funcs'[tree[s]] # {}
                        /\ \A r \in Targets : tree[r] = tree[s] => r = s
      BY <2>1 DEF TreePhases, InTree
    <3>1. InTree(s) /\ ~ Mid(s) /\ tree[s] \in Sw
      <4>1. th[c].pc \notin LockedPcs
        BY <2>3
      <4>2. QED
        BY <1>0, <2>1, <4>1, Alone
    <3>2. obj'[tree[s]] = "live"
      BY <1>0, <2>1, <3>1 DEF InTree, InHand
    <3>3. QED
      BY <2>4, <3>1, <3>2 DEF InTree
  <2>11. QED
    BY <2>8, <2>9, <2>10
<1>6. th[c].pc \in OwningPcs => w \in Sw /\ \A e \in Callers : e # c /\ th[e].pc \in OwningPcs => th[e].w # w
  BY <1>0 DEF InHand, ControlInv, OwnersDiffer
<1>7. CASE Creates(c)
  <2>1. PICK v \in Sw :
          /\ IsFresh(v) /\ obj' = [obj EXCEPT ![v] = "live"]
          /\ funcs' = [funcs EXCEPT ![v] = IF unique THEN {p} ELSE {}]
          /\ \E d : Goes(c, d, "insert", v, th[c].took, th[c].res)
    BY <1>7 DEF Creates
  <2>2. PICK d : Goes(c, d, "insert", v, th[c].took, th[c].res)
    BY <2>1
  <2>3. Changes(c, d) /\ d.pc = "insert" /\ d.w = v /\ th'[c] = d
    BY <2>2 DEF Goes, Changes
  <2>4. th[c].pc = "create" /\ UNCHANGED <<lock, tree, items>>
    BY <1>7 DEF Creates
  <2>5. OnlyChanges(v) /\ obj'[v] = "live" /\ funcs'[v] = IF unique THEN {p} ELSE {}
    BY <1>0, <2>1, <2>4 DEF OnlyChanges
  <2>6. \A e \in Callers : e # c /\ th[e].pc \in OwningPcs => th[e].w # v
    BY <1>2, <2>1 DEF IsFresh, At
  <2>7. \A s \in Targets : tree[s] # v
    BY <2>1 DEF IsFresh
  <2>8. InHand(c)'
    <3>1. th[c].kind = "hook" /\ ~ th[c].took /\ d.kind = th[c].kind /\ d.took = th[c].took
          /\ d.p = p /\ unique' = unique
      BY <1>0, <2>2, <2>4 DEF InHand, Goes, HookPcs
    <3>2. \A s \in Targets : tree'[s] # v
      BY <2>4, <2>7
    <3>3. QED
      BY <2>3, <2>5, <3>1, <3>2
         DEF InHand, HookPcs, UnhookPcs, Inserted, OwningPcs, LockedPcs, Restored
  <2>9. CallerPhases'
    BY <2>3, <2>4, <2>5, <2>6, <2>8, OthersStay DEF CallerPhases
  <2>10. d.pc \notin LockedPcs /\ th[c].pc \notin LockedPcs
    BY <2>3, <2>4 DEF LockedPcs, Inserted, Restored
  <2>11. LockPhases' /\ OwnersDiffer'
    BY <2>3, <2>4, <2>6, <2>10, LocksAfter, OwnersAfter
  <2>12. TreePhases'
    <3>1. \A s \in Targets : Mid(s)' <=> Mid(s)
      BY <2>3, <2>10 DEF Mid, Changes
    <3>2. QED
      BY <2>4, <2>5, <2>7, <3>1, TreeStays
  <2>13. QED
    BY <2>9, <2>11, <2>12
<1>8. CASE Inserts(c)
  <2>1. PICK d : Goes(c, d, "enter", w, th[c].took, th[c].res)
    BY <1>8 DEF Inserts
  <2>2. Changes(c, d) /\ d.pc = "enter" /\ d.w = w /\ d.t = t /\ th'[c] = d
    BY <2>1 DEF Goes, Changes
  <2>3. /\ th[c].pc = "insert" /\ lock = None /\ lock' = c /\ tree[t] = None
        /\ tree' = [tree EXCEPT ![t] = w] /\ UNCHANGED <<obj, items, funcs>>
    BY <1>8 DEF Inserts, proxies
  <2>4. th[c].pc \in OwningPcs /\ th[c].pc \notin LockedPcs /\ d.pc \in LockedPcs /\ t \in Targets
    BY <1>1, <2>2, <2>3 DEF LockedPcs, Inserted, Restored, OwningPcs
  <2>5. OnlyChanges(w) /\ tree'[t] = w
    BY <1>0, <2>3, <2>4 DEF OnlyChanges
  <2>6. \A s \in Targets : tree[s] # w
    BY <1>0, <2>3 DEF InHand
  <2>7. InHand(c)'
    BY <1>0, <1>1, <2>1, <2>2, <2>3, <2>5
       DEF InHand, Goes, HookPcs, UnhookPcs, Inserted, OwningPcs, LockedPcs, Restored
  <2>8. CallerPhases'
    BY <1>6, <2>2, <2>3, <2>4, <2>5, <2>7, OthersStay DEF CallerPhases
  <2>9. LockPhases' /\ OwnersDiffer'
    BY <2>2, <2>3, <2>4, LocksAfter, OwnersAfter
  <2>10. TreePhases'
    <3>1. \A s \in Targets : (~ Mid(s)) /\ (Mid(s)' <=> s = t)
      BY <2>2, <2>3, <2>4, Alone, MidAfter
    <3>2. ASSUME NEW s \in Targets, tree'[s] = w PROVE InTree(s)'
      <4>1. s = t /\ \A r \in Targets : tree'[r] = w => r = t
        BY <1>0, <2>3, <2>4, <2>6, <3>2
      <4>2. obj[w] = "live" /\ (~ unique => funcs[w] = {})
        BY <1>0, <2>3, <2>4 DEF InHand
      <4>3. unique' = unique /\ items'[w] = items[w] /\ funcs'[w] = funcs[w] /\ obj'[w] = obj[w]
        BY <2>3, <2>5 DEF OnlyChanges
      <4>4. QED
        BY <2>5, <3>1, <3>2, <4>1, <4>2, <4>3 DEF InTree
    <3>3. QED
      BY <1>6, <2>4, <2>5, <3>1, <3>2, TreeStays
  <2>11. QED
    BY <2>8, <2>9, <2>10
<1>9. CASE Proceeds(c)
  <2>1. UNCHANGED <<lock, tree, obj, items, funcs>>
    BY <1>9 DEF Proceeds, proxies
  <2>2. PICK d, pc, res :
          /\ Goes(c, d, pc, w, th[c].took, res)
          /\ \/ th[c].pc \in Inserted \ {"proxy"} /\ pc \in Inserted /\ (pc = "proxy" => ~ unique) /\ res = th[c].res
             \/ th[c].pc \in {"restore", "free"} /\ pc \in {"free", "clear"} /\ res \in {th[c].res, "fail"}
    BY <1>9 DEF Proceeds, Inserted
  <2>3. Changes(c, d) /\ d.pc = pc /\ d.w = w /\ d.t = t /\ th'[c] = d /\ d.res = res
        /\ d.p = p /\ d.kind = th[c].kind /\ d.took = th[c].took
    BY <2>2 DEF Goes, Changes
  <2>4. th[c].pc \in LockedPcs /\ th[c].pc \in OwningPcs /\ d.pc \in LockedPcs /\ t \in Targets
    BY <1>1, <1>2, <2>2, <2>3 DEF LockedPcs, Inserted, Restored, OwningPcs
  <2>5. OnlyChanges(w)
    BY <2>1 DEF OnlyChanges
  <2>6. InHand(c)'
    <3>1. CASE th[c].pc \in Inserted \ {"proxy"} /\ pc \in Inserted /\ (pc = "proxy" => ~ unique)
      BY <1>0, <1>1, <2>1, <2>3, <2>4, <3>1
         DEF InHand, HookPcs, UnhookPcs, Inserted, OwningPcs, LockedPcs, Restored
    <3>2. CASE th[c].pc \in {"restore", "free"} /\ pc \in {"free", "clear"} /\ res \in {th[c].res, "fail"}
      BY <1>0, <1>1, <2>1, <2>3, <2>4, <3>2
         DEF InHand, HookPcs, UnhookPcs, Inserted, OwningPcs, LockedPcs, Restored
    <3>3. QED
      BY <2>2, <3>1, <3>2
  <2>7. CallerPhases'
    BY <1>6, <2>1, <2>3, <2>4, <2>5, <2>6, OthersStay DEF CallerPhases
  <2>8. LockPhases' /\ OwnersDiffer'
    BY <2>1, <2>3, <2>4, LocksAfter, OwnersAfter
  <2>9. TreePhases'
    <3>1. \A s \in Targets : Mid(s)' <=> Mid(s)
      BY <2>3, <2>4, Alone, MidAfter
    <3>2. \A s \in Targets : InTree(s) => InTree(s)'
      BY <2>1, <3>1 DEF InTree
    <3>3. QED
      BY <1>0, <3>2 DEF TreePhases
  <2>10. QED
    BY <2>7, <2>8, <2>9
<1>10. CASE GivesUp(c)
  <2>1. Changes(c, Idle) /\ th'[c] = Idle /\ lock' = None
        /\ tree' = [tree EXCEPT ![t] = None] /\ obj' = [obj EXCEPT ![w] = "free"]
        /\ UNCHANGED <<items, funcs>> /\ th[c].pc \in Inserted
    BY <1>10 DEF GivesUp, Changes, proxies, Inserted
  <2>2. th[c].pc \in LockedPcs /\ th[c].pc \in OwningPcs /\ t \in Targets /\ Idle.pc \notin OwningPcs
        /\ Idle.pc \notin LockedPcs
    BY <1>1, <1>2, <2>1 DEF LockedPcs, OwningPcs
  <2>3. OnlyChanges(w)
    BY <1>0, <1>6, <2>1, <2>2 DEF OnlyChanges
  <2>4. InHand(c)'
    BY <1>3, <2>1
  <2>5. CallerPhases'
    BY <1>6, <2>1, <2>2, <2>3, <2>4, OthersStay DEF CallerPhases
  <2>6. LockPhases' /\ OwnersDiffer'
    BY <2>1, <2>2, LocksAfter, OwnersAfter
  <2>7. TreePhases'
    <3>1. \A s \in Targets : Mid(s) => s = t
      BY <2>2, Alone
    <3>2. tree[t] = w /\ \A s \in Targets : tree'[s] # w
      <4>1. tree[t] = w /\ InTree(t) /\ w # None
        BY <1>0, <1>6, <2>2 DEF InHand
      <4>2. QED
        BY <1>0, <2>1, <2>2, <4>1 DEF InTree
    <3>3. QED
      BY <1>6, <2>2, <2>3, <3>1, <3>2, TreeStays
  <2>8. QED
    BY <2>5, <2>6, <2>7
<1>11. CASE Completes(c)
  <2>1. Changes(c, Idle) /\ th'[c] = Idle /\ lock' = None /\ UNCHANGED <<tree, obj>>
        /\ th[c].pc \in Inserted
    BY <1>11 DEF Completes, Changes, Inserted
  <2>2. th[c].pc \in LockedPcs /\ th[c].pc \in OwningPcs /\ t \in Targets /\ Idle.pc \notin OwningPcs
        /\ Idle.pc \notin LockedPcs /\ w \in Sw /\ th[c].pc \in Inserted \cup {"insert"}
    BY <1>1, <1>2, <1>6, <2>1 DEF LockedPcs, OwningPcs
  <2>3. /\ OnlyChanges(w) /\ funcs'[w] # {}
        /\ ~ unique => funcs'[w] \subseteq items'[w]
    <3>1. CASE th[c].pc \in {"patch", "patch2"} /\ unique /\ UNCHANGED proxies
      <4>1. funcs[w] = {p}
        BY <1>0, <2>2, <3>1 DEF InHand
      <4>2. QED
        BY <2>1, <3>1, <4>1 DEF OnlyChanges, proxies
    <3>2. CASE th[c].pc = "proxy" /\ AddProxy(w, p, "ok")
      <4>1. ~ unique /\ funcs[w] = {}
        BY <1>0, <2>2, <3>2 DEF InHand
      <4>2. items' = [items EXCEPT ![w] = @ \cup {p}] /\ funcs' = [funcs EXCEPT ![w] = @ \cup {p}]
        BY <3>2 DEF AddProxy
      <4>3. funcs'[w] = {p} /\ p \in items'[w] /\ \A u \in Sw : u # w => funcs'[u] = funcs[u] /\ items'[u] = items[u]
        BY <1>0, <2>2, <4>1, <4>2
      <4>4. QED
        BY <2>1, <4>3 DEF OnlyChanges
    <3>3. QED
      BY <1>11, <3>1, <3>2 DEF Completes
  <2>4. InHand(c)'
    BY <1>3, <2>1
  <2>5. CallerPhases'
    BY <1>6, <2>1, <2>2, <2>3, <2>4, OthersStay DEF CallerPhases
  <2>6. LockPhases' /\ OwnersDiffer'
    BY <2>1, <2>2, LocksAfter, OwnersAfter
  <2>7. TreePhases'
    <3>1. \A s \in Targets : Mid(s) => s = t
      BY <2>2, Alone
    <3>2. tree[t] = w /\ InTree(t) /\ w # None /\ obj[w] = "live"
      BY <1>0, <2>2 DEF InHand
    <3>3. ASSUME NEW s \in Targets, tree'[s] = w PROVE InTree(s)'
      BY <2>1, <2>2, <2>3, <3>2, <3>3 DEF InTree, OnlyChanges
    <3>4. QED
      BY <2>2, <2>3, <3>1, <3>2, <3>3, TreeStays
  <2>8. QED
    BY <2>5, <2>6, <2>7
<1>12. ASSUME th[c].pc = "lock", lock = None, tree[t] # None
       PROVE  /\ t \in Targets /\ tree[t] \in Sw /\ InTree(t)
              /\ \A e \in Callers : e # c /\ th[e].pc \in OwningPcs => th[e].w # tree[t]
              /\ th[c].pc \notin OwningPcs /\ th[c].pc \notin LockedPcs /\ \A s \in Targets : ~ Mid(s)
  <2>1. t \in Targets /\ th[c].pc \notin OwningPcs /\ th[c].pc \notin LockedPcs
    BY <1>1, <1>12 DEF OwningPcs, LockedPcs, Inserted, Restored
  <2>2. \A e \in Callers : th[e].pc \in OwningPcs => th[e].pc \in {"insert", "destroy"}
    BY <1>12, <2>1, Alone DEF OwningPcs
  <2>3. \A e \in Callers : th[e].pc \in OwningPcs => th[e].w # tree[t]
    <3> SUFFICES ASSUME NEW e \in Callers, th[e].pc \in OwningPcs PROVE tree[t] # th[e].w
      OBVIOUS
    <3>1. InHand(e) /\ th[e].pc \in {"insert", "destroy"}
      BY <1>0, <2>2
    <3>2. QED
      BY <2>1, <3>1 DEF InHand
  <2>4. \A s \in Targets : ~ Mid(s)
    BY <1>12, <2>1, Alone
  <2>5. tree[t] \in Sw /\ InTree(t)
    BY <1>0, <1>12, <2>1
  <2>6. QED
    BY <2>1, <2>3, <2>4, <2>5
<1>13. CASE Disables(c)
  <2> DEFINE v == tree[t]
  <2>1. /\ th[c].pc = "lock" /\ lock = None /\ v # None /\ ~ unique /\ Changes(c, Idle) /\ th'[c] = Idle
        /\ UNCHANGED <<lock, tree, obj, items>>
        /\ funcs' = [funcs EXCEPT ![v] = @ \ {p}] /\ funcs[v] \ {p} # {}
    BY <1>13 DEF Disables, Changes
  <2>2. /\ t \in Targets /\ v \in Sw /\ InTree(t)
        /\ \A e \in Callers : e # c /\ th[e].pc \in OwningPcs => th[e].w # v
        /\ th[c].pc \notin OwningPcs /\ th[c].pc \notin LockedPcs /\ \A s \in Targets : ~ Mid(s)
    BY <1>12, <2>1
  <2>3. OnlyChanges(v) /\ funcs'[v] # {} /\ funcs'[v] \subseteq funcs[v]
    BY <1>0, <2>1, <2>2 DEF OnlyChanges
  <2>4. InHand(c)'
    BY <1>3, <2>1
  <2>5. CallerPhases'
    BY <2>1, <2>2, <2>3, <2>4, OthersStay DEF CallerPhases
  <2>6. LockPhases' /\ OwnersDiffer'
    BY <1>2, <2>1, <2>2, LocksAfter, OwnersAfter
  <2>7. TreePhases'
    <3>1. ASSUME NEW s \in Targets, tree'[s] = v PROVE InTree(s)'
      BY <2>1, <2>2, <2>3, <3>1 DEF InTree, OnlyChanges
    <3>2. QED
      BY <2>2, <2>3, <3>1, TreeStays
  <2>8. QED
    BY <2>5, <2>6, <2>7
<1>14. CASE Takes(c)
  <2> DEFINE v == tree[t]
  <2>1. /\ th[c].pc = "lock" /\ lock = None /\ lock' = c /\ v # None
        /\ UNCHANGED <<tree, obj, items>>
        /\ \/ unique /\ funcs' = funcs
           \/ ~ unique /\ funcs' = [funcs EXCEPT ![v] = {}]
    BY <1>14 DEF Takes
  <2>2. /\ t \in Targets /\ v \in Sw /\ InTree(t)
        /\ \A e \in Callers : e # c /\ th[e].pc \in OwningPcs => th[e].w # v
        /\ th[c].pc \notin OwningPcs /\ th[c].pc \notin LockedPcs /\ \A s \in Targets : ~ Mid(s)
    BY <1>12, <2>1
  <2>3. PICK d : Goes(c, d, "restore", v, TRUE, th[c].res)
    BY <1>14 DEF Takes
  <2>4. Changes(c, d) /\ th'[c] = d /\ d.pc = "restore" /\ d.w = v /\ d.t = t
        /\ d.kind = th[c].kind /\ d.res = th[c].res /\ d.took
    BY <2>3 DEF Goes, Changes
  <2>5. d.pc \in LockedPcs /\ d.pc \in OwningPcs
    BY <2>4 DEF OwningPcs, LockedPcs, Restored
  <2>6. OnlyChanges(v) /\ (~ unique => funcs'[v] = {})
    BY <1>0, <2>1, <2>2 DEF OnlyChanges
  <2>7. InHand(c)'
    BY <1>0, <1>1, <2>1, <2>2, <2>4
       DEF InHand, InTree, HookPcs, UnhookPcs, Inserted, OwningPcs, LockedPcs, Restored
  <2>8. CallerPhases'
    BY <2>1, <2>2, <2>4, <2>6, <2>7, OthersStay DEF CallerPhases
  <2>9. LockPhases' /\ OwnersDiffer'
    BY <2>1, <2>2, <2>4, <2>5, LocksAfter, OwnersAfter
  <2>10. TreePhases'
    <3>1. \A s \in Targets : Mid(s)' <=> s = t
      BY <2>1, <2>4, <2>5, MidAfter
    <3>2. ASSUME NEW s \in Targets, tree'[s] = v PROVE InTree(s)'
      BY <2>1, <2>2, <2>6, <3>1, <3>2 DEF InTree, OnlyChanges
    <3>3. QED
      BY <2>2, <2>6, <3>2, TreeStays
  <2>11. QED
    BY <2>8, <2>9, <2>10
<1>15. CASE Clears(c)
  <2>1. /\ th[c].pc = "clear" /\ lock' = None /\ tree' = [tree EXCEPT ![t] = None]
        /\ UNCHANGED <<obj, items, funcs>>
    BY <1>15 DEF Clears, proxies
  <2>2. PICK d : Goes(c, d, "destroy", w, th[c].took, th[c].res)
    BY <1>15 DEF Clears
  <2>3. Changes(c, d) /\ th'[c] = d /\ d.pc = "destroy" /\ d.w = w /\ d.t = t
        /\ d.kind = th[c].kind /\ d.res = th[c].res /\ d.took = th[c].took
    BY <2>2 DEF Goes, Changes
  <2>4. th[c].pc \in LockedPcs /\ th[c].pc \in OwningPcs /\ d.pc \notin LockedPcs /\ t \in Targets
    BY <1>1, <2>1, <2>3 DEF LockedPcs, OwningPcs, Restored, Inserted
  <2>5. OnlyChanges(w)
    BY <1>0, <2>1, <2>4 DEF OnlyChanges
  <2>6. tree[t] = w /\ \A s \in Targets : tree'[s] # w
    <3>1. tree[t] = w /\ InTree(t) /\ w # None
      BY <1>0, <1>6, <2>4 DEF InHand
    <3>2. QED
      BY <1>0, <2>1, <2>4, <3>1 DEF InTree
  <2>7. InHand(c)'
    BY <1>0, <1>1, <2>1, <2>3, <2>4, <2>6
       DEF InHand, HookPcs, UnhookPcs, Inserted, OwningPcs, LockedPcs, Restored
  <2>8. CallerPhases'
    BY <1>6, <2>3, <2>4, <2>5, <2>7, OthersStay DEF CallerPhases
  <2>9. LockPhases' /\ OwnersDiffer'
    BY <2>1, <2>3, <2>4, LocksAfter, OwnersAfter
  <2>10. TreePhases'
    <3>1. \A s \in Targets : Mid(s) => s = t
      BY <2>4, Alone
    <3>2. QED
      BY <1>6, <2>4, <2>5, <2>6, <3>1, TreeStays
  <2>11. QED
    BY <2>8, <2>9, <2>10
<1>16. CASE Destroys(c)
  <2>1. /\ th[c].pc = "destroy" /\ Changes(c, Idle) /\ th'[c] = Idle
        /\ UNCHANGED <<lock, tree, items, funcs>>
        /\ obj' = [obj EXCEPT ![w] = IF unique THEN "free" ELSE "retired"]
    BY <1>16 DEF Destroys, Changes, proxies
  <2>2. th[c].pc \in OwningPcs /\ th[c].pc \notin LockedPcs
    BY <2>1 DEF OwningPcs, LockedPcs, Inserted, Restored
  <2>3. OnlyChanges(w) /\ w \in Sw
    BY <1>0, <1>6, <2>1, <2>2 DEF OnlyChanges
  <2>4. InHand(c)'
    BY <1>3, <2>1
  <2>5. CallerPhases'
    BY <1>6, <2>1, <2>2, <2>3, <2>4, OthersStay DEF CallerPhases
  <2>6. LockPhases' /\ OwnersDiffer'
    BY <1>2, <2>1, <2>2, LocksAfter, OwnersAfter
  <2>7. TreePhases'
    <3>1. \A s \in Targets : tree'[s] # w
      BY <1>0, <2>1 DEF InHand
    <3>2. \A s \in Targets : Mid(s)' <=> Mid(s)
      BY <1>2, <2>1, <2>2 DEF Mid, Changes
    <3>3. QED
      BY <2>3, <3>1, <3>2, TreeStays
  <2>8. QED
    BY <2>5, <2>6, <2>7
<1>17. QED
  BY <1>4, <1>5, <1>7, <1>8, <1>9, <1>10, <1>11, <1>13, <1>14, <1>15, <1>16 DEF Steps

(* What the closing of a library takes with it, no caller has in hand.     *)
LEMMA ClosingControl ==
  ASSUME ControlInv, NEW lib, Dlclose(lib)
  PROVE  LockPhases' /\ CallerPhases' /\ OwnersDiffer' /\ TreePhases'
<1> DEFINE gone == {w \in Sw : \E t \in Targets : LibOf[t] = lib /\ tree[t] = w}
<1>0. /\ TypeOK /\ None \notin Sw /\ \A e \in Callers : InHand(e)
      /\ tree \in [Targets -> Sw \cup {None}]
      /\ \A s \in Targets : InTree(s)
  BY SwitchAssumption DEF ControlInv, CallerPhases, TreePhases, TypeOK
<1>1. /\ lock = None /\ UNCHANGED <<unique, lock, th>>
      /\ \A c \in Callers : th[c].pc # "idle" => LibOf[th[c].t] # lib
      /\ \A s \in Targets : tree'[s] = IF LibOf[s] = lib THEN None ELSE tree[s]
      /\ \A w \in Sw : w \notin gone => obj'[w] = obj[w] /\ items'[w] = items[w] /\ funcs'[w] = funcs[w]
  BY DEF Dlclose, At
<1>2. \A c \in Callers : th[c].pc \notin LockedPcs
  BY <1>1, SwitchAssumption DEF ControlInv, LockPhases
<1>3. LockPhases' /\ OwnersDiffer'
  BY <1>1 DEF ControlInv, LockPhases, OwnersDiffer
<1>4. ASSUME NEW c \in Callers PROVE InHand(c)'
  <2>1. th[c].pc \in OwningPcs => th[c].w \in Sw /\ th[c].w \notin gone
    BY <1>0, <1>2 DEF InHand, OwningPcs
  <2>2. th[c].pc \in OwningPcs => obj'[th[c].w] = obj[th[c].w] /\ funcs'[th[c].w] = funcs[th[c].w]
    BY <1>1, <2>1
  <2>3. th[c].pc \in {"insert", "destroy"} => th[c].w \in Sw /\ \A t \in Targets : tree'[t] # th[c].w
    <3>1. th[c].pc \in {"insert", "destroy"} => th[c].w \in Sw /\ \A t \in Targets : tree[t] # th[c].w
      BY <1>0 DEF InHand, OwningPcs
    <3>2. \A t \in Targets : tree'[t] \in {None, tree[t]}
      BY <1>1
    <3>3. QED
      BY <1>0, <3>1, <3>2
  <2>4. InHand(c) /\ th'[c] = th[c] /\ unique' = unique
    BY <1>0, <1>1
  <2>5. th[c].pc \in Inserted \cup {"insert"} => th[c].pc \in OwningPcs
    BY DEF OwningPcs, LockedPcs
  <2>6. QED
    BY <1>2, <2>2, <2>3, <2>4, <2>5 DEF InHand
<1>5. ASSUME NEW s \in Targets, tree'[s] # None
      PROVE  /\ obj'[tree'[s]] = "live"
             /\ ~ unique' => funcs'[tree'[s]] \subseteq items'[tree'[s]]
             /\ ~ Mid(s)' => funcs'[tree'[s]] # {}
             /\ \A r \in Targets : tree'[r] = tree'[s] => r = s
  <2>1. tree'[s] = tree[s] /\ LibOf[s] # lib /\ tree[s] \in Sw /\ InTree(s)
    BY <1>0, <1>1, <1>5
  <2>2. \A r \in Targets : tree[r] = tree[s] => r = s
    BY <1>5, <2>1 DEF InTree
  <2>3. tree[s] \notin gone
    BY <2>1, <2>2
  <2>4. /\ obj'[tree[s]] = obj[tree[s]] /\ items'[tree[s]] = items[tree[s]]
        /\ funcs'[tree[s]] = funcs[tree[s]] /\ unique' = unique
    BY <1>1, <2>1, <2>3
  <2>5. ~ Mid(s)
    BY <1>2 DEF Mid
  <2>6. \A r \in Targets : tree'[r] = tree'[s] => r = s
    BY <1>1, <1>5, <2>1, <2>2
  <2>7. obj[tree[s]] = "live" /\ funcs[tree[s]] # {} /\ (~ unique => funcs[tree[s]] \subseteq items[tree[s]])
    BY <1>5, <2>1, <2>5 DEF InTree
  <2>8. QED
    BY <2>1, <2>4, <2>6, <2>7
<1>6. TreePhases'
  BY <1>5 DEF TreePhases, InTree
<1>7. QED
  BY <1>3, <1>4, <1>6 DEF CallerPhases

LEMMA ControlInvariance == Init /\ [][Next]_vars => []ControlInv
<1>1. Init => ControlInv
  <2> SUFFICES ASSUME Init PROVE ControlInv
    OBVIOUS
  <2>1. TypeOK
    BY DEF Init, TypeOK, Results, WithoutHubs, At, Idle
  <2>2. /\ \A c \in Callers : th[c] = Idle
        /\ \A t \in Targets : tree[t] = None /\ lock = None
    BY DEF Init
  <2>3. Idle.pc = "idle" /\ "idle" \notin HookPcs \cup UnhookPcs \cup OwningPcs \cup LockedPcs \cup Inserted
    BY DEF Idle, HookPcs, UnhookPcs, Inserted, OwningPcs, LockedPcs, Restored
  <2>4. LockPhases
    BY <2>2, <2>3, SwitchAssumption DEF LockPhases, Init
  <2>5. CallerPhases /\ OwnersDiffer
    BY <2>2, <2>3 DEF CallerPhases, InHand, OwnersDiffer
  <2>6. TreePhases
    BY <2>2 DEF TreePhases, InTree
  <2>7. QED
    BY <2>1, <2>4, <2>5, <2>6 DEF ControlInv
<1>2. ControlInv /\ [Next]_vars => ControlInv'
  <2> SUFFICES ASSUME ControlInv, [Next]_vars
               PROVE  LockPhases' /\ CallerPhases' /\ OwnersDiffer' /\ TreePhases'
    BY NextTypeOK DEF ControlInv
  <2>1. ASSUME NEW c \in Callers, CallerStep(c)
        PROVE  LockPhases' /\ CallerPhases' /\ OwnersDiffer' /\ TreePhases'
    <3>1. Steps(c) /\ unique' = unique
      BY <2>1, CallerSteps DEF ControlInv
    <3>2. QED
      BY <3>1, CallersControl
  <2>2. ASSUME UNCHANGED <<unique, lock, tree, funcs, th>>,
               \A w \in Sw : obj[w] = "live" => obj'[w] = obj[w] /\ items'[w] = items[w]
        PROVE  LockPhases' /\ CallerPhases' /\ OwnersDiffer' /\ TreePhases'
    <3>1. LockPhases' /\ OwnersDiffer'
      BY <2>2 DEF ControlInv, LockPhases, OwnersDiffer
    <3>2. CallerPhases'
      <4> SUFFICES ASSUME NEW c \in Callers PROVE InHand(c)'
        BY DEF CallerPhases
      <4>1. InHand(c) /\ (th[c].pc \in OwningPcs => obj'[th[c].w] = "live")
        BY <2>2 DEF ControlInv, CallerPhases, InHand
      <4>2. QED
        BY <2>2, <4>1 DEF InHand
    <3>3. TreePhases'
      <4> SUFFICES ASSUME NEW s \in Targets, tree[s] # None PROVE InTree(s)'
        BY <2>2 DEF TreePhases, InTree
      <4>1. InTree(s) /\ tree[s] \in Sw /\ (Mid(s)' <=> Mid(s))
        BY <2>2 DEF ControlInv, TreePhases, TypeOK, Mid
      <4>2. obj'[tree[s]] = "live" /\ items'[tree[s]] = items[tree[s]]
        BY <2>2, <4>1 DEF InTree
      <4>3. QED
        BY <2>2, <4>1, <4>2 DEF InTree
    <3>4. QED
      BY <3>1, <3>2, <3>3
  <2>3. ASSUME NEW x \in Runners, RunnerStep(x)
        PROVE  LockPhases' /\ CallerPhases' /\ OwnersDiffer' /\ TreePhases'
    <3>1. UNCHANGED <<unique, lock, parts, th>>
      BY <2>3, RunnerSteps DEF ControlInv
    <3>2. QED
      BY <2>2, <3>1 DEF parts
  <2>4. ASSUME NEW w \in Sw, Reap(w) \/ CoolEnter(w)
        PROVE  LockPhases' /\ CallerPhases' /\ OwnersDiffer' /\ TreePhases'
    <3>1. obj \in [Sw -> {"free", "live", "retired"}] /\ items \in [Sw -> SUBSET Proxies]
      BY DEF ControlInv, TypeOK
    <3>2. QED
      BY <2>2, <2>4, <3>1 DEF Reap, CoolEnter, proxies
  <2>5. CASE UNCHANGED vars
    BY <2>2, <2>5 DEF vars, parts
  <2>6. QED
    BY <2>1, <2>3, <2>4, <2>5, ClosingControl DEF Next
<1>3. QED
  BY <1>1, <1>2, PTL

(* Every variable stays within its type: in particular an operation of a   *)
(* caller is at one of its steps and ends with one of the five results.    *)
THEOREM TypeCorrect == Spec => []TypeOK
<1>1. ControlInv => TypeOK
  BY DEF ControlInv
<1>2. QED
  BY <1>1, ControlInvariance, PTL DEF Spec

----------------------------------------------------------------------------
(* The second layer holds as long as every unhook finds its own jump.      *)
LEMMA CodeStays ==
  ASSUME ControlInv, CodeInv, NEW c \in Callers, NEW d, Changes(c, d), th[c].pc # "idle",
         NEW v \in Sw, NEW t, t = th[c].t,
         \A u \in Sw : u # v => obj'[u] = obj[u] /\ enter'[u] = enter[u],
         \A s \in Targets : s # t => tree'[s] = tree[s] /\ code'[s] = code[s] /\ tree[s] # v,
         (tree' = tree /\ code' = code) \/ th[c].pc \in LockedPcs \/ lock = None,
         \A e \in Callers : e # c /\ th[e].pc \in OwningPcs => th[e].w # v,
         th[c].pc \in {"insert", "destroy"} => th[c].w = v,
         tree[t] \in {None, v} \/ tree' = tree,
         CodeOf(c)', t \in Targets => Mirrors(t)', Owned(v)'
  PROVE  CodeInv'
<1>0. /\ \A e \in Callers : CodeOf(e) /\ InHand(e)
      /\ \A s \in Targets : Mirrors(s)
      /\ \A u \in Sw : Owned(u)
      /\ tree \in [Targets -> Sw \cup {None}] /\ None \notin Sw
  BY SwitchAssumption DEF ControlInv, TypeOK, CallerPhases, CodeInv, CodePhases, CodeMirrors, LiveAreOwned
<1>1. \A e \in Callers : e # c => th'[e] = th[e]
  BY DEF Changes
<1>2. ASSUME NEW e \in Callers, e # c PROVE CodeOf(e)'
  <2>1. th[e].pc \in OwningPcs => enter'[th[e].w] = enter[th[e].w]
    BY <1>0, <1>2 DEF InHand
  <2>2. th[e].pc \in LockedPcs => code'[th[e].t] = code[th[e].t]
    BY <1>2, Alone
  <2>3. CodeOf(e) /\ th'[e] = th[e]
    BY <1>0, <1>1, <1>2
  <2>4. LockedPcs \cup {"insert", "destroy"} = OwningPcs /\ {"enter", "proxy", "restore", "clear"} \subseteq LockedPcs
    BY DEF OwningPcs, LockedPcs, Inserted, Restored
  <2>5. QED
    BY <2>1, <2>2, <2>3, <2>4 DEF CodeOf
<1>3. ASSUME NEW s \in Targets, s # t PROVE Mirrors(s)'
  <2>1. /\ tree'[s] = tree[s] /\ code'[s] = code[s] /\ tree[s] # v
        /\ tree[s] # None => tree[s] \in Sw /\ enter'[tree[s]] = enter[tree[s]]
    BY <1>0, <1>3
  <2>2. Mid(s) => Mid(s)'
    BY <1>1, <1>3 DEF Mid
  <2>3. QED
    BY <1>0, <2>1, <2>2 DEF Mirrors
<1>4. ASSUME NEW u \in Sw, u # v PROVE Owned(u)'
  <2>1. obj'[u] = obj[u] /\ enter'[u] = enter[u] /\ Owned(u)
    BY <1>0, <1>4
  <2>2. (\E s \in Targets : tree[s] = u) => \E s \in Targets : tree'[s] = u
    BY <1>0, <1>4
  <2>3. ASSUME NEW e \in Callers, th[e].pc \in {"insert", "destroy"} /\ th[e].w = u
        PROVE  \E a \in Callers : th'[a].pc \in {"insert", "destroy"} /\ th'[a].w = u
    BY <1>1, <1>4, <2>3
  <2>4. QED
    BY <2>1, <2>2, <2>3 DEF Owned
<1>5. QED
  BY <1>2, <1>3, <1>4 DEF CodeInv, CodePhases, CodeMirrors, LiveAreOwned

LEMMA CallersCode ==
  ASSUME "restore" \notin Faults, ControlInv, ControlInv', CodeInv, NEW c \in Callers, Steps(c), unique' = unique,
         NEW t, NEW w, t = th[c].t, w = th[c].w
  PROVE  CodeInv'
<1>0. /\ TypeOK /\ InHand(c) /\ InHand(c)' /\ CodeOf(c) /\ None \notin Sw
      /\ \A e \in Callers : CodeOf(e) /\ InHand(e)
      /\ tree \in [Targets -> Sw \cup {None}] /\ enter \in [Sw -> {"free", "live", "cooling"}]
      /\ obj \in [Sw -> {"free", "live", "retired"}] /\ code \in [Targets -> Sw \cup {None}]
      /\ \A s \in Targets : InTree(s) /\ Mirrors(s)
      /\ \A u \in Sw : Owned(u)
  BY SwitchAssumption
     DEF ControlInv, CallerPhases, TreePhases, TypeOK, CodeInv, CodePhases, CodeMirrors, LiveAreOwned
<1>1. th[c].pc # "idle" => t \in Targets
  BY <1>0, CallersAreInOps
<1>2. Idle.pc = "idle" /\ "idle" \notin HookPcs \cup UnhookPcs \cup OwningPcs \cup LockedPcs \cup Inserted
      /\ LockedPcs \subseteq OwningPcs
  BY DEF Idle, HookPcs, UnhookPcs, Inserted, OwningPcs, LockedPcs, Restored
<1>3. th[c].pc \in OwningPcs =>
        /\ w \in Sw /\ w # None
        /\ \A e \in Callers : e # c /\ th[e].pc \in OwningPcs => th[e].w # w
  BY <1>0 DEF InHand, ControlInv, OwnersDiffer
<1>4. th[c].pc \in LockedPcs =>
        tree[t] = w /\ (\A s \in Targets : s # t => tree[s] # w) /\ \A s \in Targets : Mid(s) <=> s = t
  <2> SUFFICES ASSUME th[c].pc \in LockedPcs
               PROVE  tree[t] = w /\ (\A s \in Targets : s # t => tree[s] # w) /\ \A s \in Targets : Mid(s) <=> s = t
    OBVIOUS
  <2>1. tree[t] = w /\ t \in Targets /\ w # None
    BY <1>0, <1>1, <1>2, <1>3 DEF InHand
  <2>2. InTree(t)
    BY <1>0, <2>1
  <2>3. QED
    BY <2>1, <2>2, Alone DEF InTree
<1>5. ASSUME NEW d, Changes(c, d) PROVE th'[c] = d /\ (d = Idle => CodeOf(c)')
  BY <1>2, <1>5 DEF Changes, CodeOf, LockedPcs
(* Steps that change no code and give nothing away.                        *)
<1>6. ASSUME NEW d, Changes(c, d), d.pc \notin OwningPcs, th[c].pc \notin OwningPcs,
             UNCHANGED <<tree, code, enter, obj>>
      PROVE  CodeInv'
  <2>1. \A e \in Callers : e # c => th'[e] = th[e]
    BY <1>6 DEF Changes
  <2>2. CodeOf(c)'
    BY <1>2, <1>5, <1>6 DEF CodeOf, OwningPcs, LockedPcs, Inserted, Restored
  <2>3. CodePhases'
    BY <1>0, <1>6, <2>1, <2>2 DEF CodePhases, CodeOf
  <2>4. \A s \in Targets : Mid(s)' <=> Mid(s)
    BY <1>2, <1>5, <1>6, <2>1 DEF Mid
  <2>5. CodeMirrors'
    BY <1>0, <1>6, <2>4 DEF CodeMirrors, Mirrors
  <2>6. \A e \in Callers : th[e].pc \in {"insert", "destroy"} => th'[e] = th[e]
    BY <1>6, <2>1 DEF OwningPcs
  <2>7. LiveAreOwned'
    BY <1>0, <1>6, <2>6 DEF LiveAreOwned, Owned
  <2>8. QED
    BY <2>3, <2>5, <2>7 DEF CodeInv
<1>7. CASE Starts(c) \/ LooksOn(c) \/ Refuses(c) \/ Disables(c) \/ (Joins(c) /\ th[c].pc = "find")
  <2>1. UNCHANGED <<tree, code, enter, obj>> /\ th[c].pc \notin OwningPcs
    BY <1>7 DEF Starts, LooksOn, Refuses, Disables, Joins, OwningPcs, LockedPcs, Inserted, Restored, parts
  <2>2. PICK d : Changes(c, d) /\ (d.pc \in {"find", "lock", "len", "create"} \/ d = Idle)
    BY <1>7 DEF Starts, LooksOn, Refuses, Disables, Joins, Goes
  <2>3. d.pc \notin OwningPcs
    BY <1>2, <2>2 DEF OwningPcs, LockedPcs, Inserted, Restored
  <2>4. QED
    BY <1>6, <2>1, <2>2, <2>3
<1>8. CASE (Joins(c) /\ th[c].pc = "insert") \/ Destroys(c)
  <2>1. th[c].pc \in {"insert", "destroy"} /\ UNCHANGED <<tree, code, enter>> /\ Changes(c, Idle)
        /\ \E o \in {"free", "retired"} : obj' = [obj EXCEPT ![w] = o]
    BY <1>8 DEF Joins, Destroys, Goes
  <2>2. t \in Targets /\ w \in Sw /\ th[c].pc \in OwningPcs /\ th[c].pc \notin LockedPcs
    BY <1>1, <1>3, <2>1 DEF OwningPcs, LockedPcs, Inserted, Restored
  <2>3. \A s \in Targets : tree[s] # w
    BY <1>0, <2>1 DEF InHand
  <2>4. CodeOf(c)'
    BY <1>5, <2>1
  <2>5. Mid(t)' <=> Mid(t)
    BY <1>2, <1>5, <2>1, <2>2 DEF Mid, Changes
  <2>6. Mirrors(t)'
    BY <1>0, <2>1, <2>2, <2>5 DEF Mirrors
  <2>7. Owned(w)'
    BY <1>0, <2>1, <2>2, <2>3 DEF Owned
  <2>8. QED
    BY <1>3, <2>1, <2>2, <2>3, <2>4, <2>6, <2>7, CodeStays
<1>9. CASE Creates(c)
  <2>1. PICK v \in Sw :
          /\ IsFresh(v) /\ obj' = [obj EXCEPT ![v] = "live"]
          /\ \E d : Goes(c, d, "insert", v, th[c].took, th[c].res)
    BY <1>9 DEF Creates
  <2>2. PICK d : Goes(c, d, "insert", v, th[c].took, th[c].res)
    BY <2>1
  <2>3. Changes(c, d) /\ d.pc = "insert" /\ d.w = v /\ th'[c] = d
    BY <2>2 DEF Goes, Changes
  <2>4. th[c].pc = "create" /\ UNCHANGED <<tree, code, enter>> /\ t \in Targets
    BY <1>1, <1>9 DEF Creates
  <2>5. enter[v] = "free" /\ \A s \in Targets : tree[s] # v
    BY <2>1 DEF IsFresh
  <2>6. \A e \in Callers : e # c /\ th[e].pc \in OwningPcs => th[e].w # v
    BY <1>2, <2>1 DEF IsFresh, At
  <2>7. d.pc \notin LockedPcs /\ th[c].pc \notin LockedPcs
    BY <2>3, <2>4 DEF LockedPcs, Inserted, Restored
  <2>8. CodeOf(c)'
    BY <2>3, <2>4, <2>5, <2>7 DEF CodeOf, LockedPcs, Restored
  <2>9. Mid(t)' <=> Mid(t)
    BY <2>3, <2>7 DEF Mid, Changes
  <2>10. Mirrors(t)'
    BY <1>0, <2>4, <2>9 DEF Mirrors
  <2>11. Owned(v)'
    BY <2>3, <2>4, <2>5 DEF Owned
  <2>12. QED
    BY <1>0, <2>1, <2>3, <2>4, <2>5, <2>6, <2>8, <2>10, <2>11, CodeStays
<1>10. CASE Inserts(c)
  <2>1. PICK d : Goes(c, d, "enter", w, th[c].took, th[c].res)
    BY <1>10 DEF Inserts
  <2>2. Changes(c, d) /\ d.pc = "enter" /\ d.w = w /\ d.t = t /\ th'[c] = d
    BY <2>1 DEF Goes, Changes
  <2>3. /\ th[c].pc = "insert" /\ lock = None /\ tree[t] = None
        /\ tree' = [tree EXCEPT ![t] = w] /\ UNCHANGED <<obj, enter, code>>
    BY <1>10 DEF Inserts
  <2>4. th[c].pc \in OwningPcs /\ t \in Targets /\ w \in Sw /\ d.pc \in LockedPcs
    BY <1>1, <1>3, <2>2, <2>3 DEF OwningPcs, LockedPcs, Inserted
  <2>5. \A s \in Targets : tree[s] # w
    BY <1>0, <2>3 DEF InHand
  <2>6. tree'[t] = w /\ code[t] = None /\ enter[w] = "free"
    BY <1>0, <2>3, <2>4 DEF Mirrors, CodeOf
  <2>7. CodeOf(c)'
    BY <2>2, <2>3, <2>6 DEF CodeOf
  <2>8. Mid(t)'
    BY <2>2, <2>4 DEF Mid
  <2>9. Mirrors(t)' /\ Owned(w)'
    BY <2>3, <2>4, <2>6, <2>8 DEF Mirrors, Owned
  <2>10. QED
    BY <1>0, <1>3, <2>2, <2>3, <2>4, <2>5, <2>7, <2>9, CodeStays
<1>11. CASE Proceeds(c)
  <2>1. UNCHANGED <<tree, obj>>
    BY <1>11 DEF Proceeds
  <2>2. PICK d, pc, res :
          /\ Goes(c, d, pc, w, th[c].took, res)
          /\ \/ /\ th[c].pc = "enter" /\ pc = "rewrite"
                /\ enter' = [enter EXCEPT ![w] = "live"] /\ UNCHANGED code
             \/ /\ th[c].pc \in {"rewrite", "rewrite2", "patch"} /\ pc \in {"rewrite2", "patch", "patch2"}
                /\ UNCHANGED <<code, enter>>
             \/ /\ th[c].pc \in {"patch", "patch2"} /\ pc = "proxy"
                /\ code' = [code EXCEPT ![t] = w] /\ UNCHANGED enter
             \/ /\ th[c].pc = "restore" /\ pc = "free"
                /\ code' = [code EXCEPT ![t] = None] /\ UNCHANGED enter
             \/ /\ th[c].pc = "free" /\ pc = "clear"
                /\ enter' = [enter EXCEPT ![w] = "cooling"] /\ UNCHANGED code
    BY <1>11 DEF Proceeds
  <2>3. Changes(c, d) /\ d.pc = pc /\ d.w = w /\ d.t = t /\ th'[c] = d
    BY <2>2 DEF Goes, Changes
  <2>4. th[c].pc \in LockedPcs /\ th[c].pc \in OwningPcs /\ t \in Targets /\ d.pc \in LockedPcs
    BY <1>1, <1>2, <2>2, <2>3 DEF LockedPcs, Inserted, Restored
  <2>5. /\ tree[t] = w /\ w \in Sw /\ \A s \in Targets : s # t => tree[s] # w
        /\ \A e \in Callers : e # c /\ th[e].pc \in OwningPcs => th[e].w # w
    BY <1>3, <1>4, <2>4
  <2>6. /\ \A u \in Sw : u # w => enter'[u] = enter[u]
        /\ \A s \in Targets : s # t => code'[s] = code[s]
        /\ code'[t] \in {None, w}
    BY <1>0, <2>2, <2>4, <2>5 DEF Mirrors
  <2>7. CodeOf(c)'
    <3>1. CASE th[c].pc = "enter" /\ pc = "rewrite" /\ enter' = [enter EXCEPT ![w] = "live"] /\ UNCHANGED code
      BY <1>0, <2>3, <2>4, <2>5, <3>1 DEF CodeOf, LockedPcs, Inserted, Restored
    <3>2. CASE /\ th[c].pc \in {"rewrite", "rewrite2", "patch"} /\ pc \in {"rewrite2", "patch", "patch2"}
               /\ UNCHANGED <<code, enter>>
      BY <1>0, <2>3, <2>4, <2>5, <3>2 DEF CodeOf, LockedPcs, Inserted, Restored
    <3>3. CASE th[c].pc \in {"patch", "patch2"} /\ pc = "proxy" /\ code' = [code EXCEPT ![t] = w] /\ UNCHANGED enter
      BY <1>0, <2>3, <2>4, <2>5, <3>3 DEF CodeOf, LockedPcs, Inserted, Restored
    <3>4. CASE th[c].pc = "restore" /\ pc = "free" /\ code' = [code EXCEPT ![t] = None] /\ UNCHANGED enter
      BY <1>0, <2>3, <2>4, <2>5, <3>4 DEF CodeOf, LockedPcs, Inserted, Restored
    <3>5. CASE th[c].pc = "free" /\ pc = "clear" /\ enter' = [enter EXCEPT ![w] = "cooling"] /\ UNCHANGED code
      BY <1>0, <2>3, <2>4, <2>5, <3>5 DEF CodeOf, LockedPcs, Inserted, Restored
    <3>6. QED
      BY <2>2, <3>1, <3>2, <3>3, <3>4, <3>5
  <2>8. Mid(t)'
    BY <2>3, <2>4 DEF Mid
  <2>9. Mirrors(t)' /\ Owned(w)'
    BY <2>1, <2>4, <2>5, <2>6, <2>8 DEF Mirrors, Owned
  <2>10. th[c].pc \notin {"insert", "destroy"} /\ th[c].pc # "idle"
    BY <2>2
  <2>11. QED
    BY <2>1, <2>3, <2>4, <2>5, <2>6, <2>7, <2>9, <2>10, CodeStays
<1>12. CASE GivesUp(c) \/ Clears(c)
  <2>1. /\ tree' = [tree EXCEPT ![t] = None] /\ th[c].pc \in LockedPcs /\ t \in Targets
        /\ obj' \in {obj, [obj EXCEPT ![w] = "free"]}
    BY <1>1, <1>2, <1>12 DEF GivesUp, Clears, LockedPcs, Inserted, Restored
  <2>2. /\ tree[t] = w /\ w \in Sw /\ \A s \in Targets : s # t => tree[s] # w
        /\ \A e \in Callers : e # c /\ th[e].pc \in OwningPcs => th[e].w # w
    BY <1>2, <1>3, <1>4, <2>1
  <2>3. /\ code'[t] = None /\ \A s \in Targets : s # t => code'[s] = code[s]
        /\ enter'[w] # "live" /\ \A u \in Sw : u # w => enter'[u] = enter[u]
    <3>1. CASE th[c].pc = "enter" /\ UNCHANGED <<code, enter>>
      BY <1>0, <3>1 DEF CodeOf, LockedPcs, Inserted
    <3>2. CASE th[c].pc \in {"rewrite2", "patch2"} /\ enter' = [enter EXCEPT ![w] = "cooling"] /\ UNCHANGED code
      BY <1>0, <2>2, <3>2 DEF CodeOf, LockedPcs, Inserted
    <3>3. CASE code' = [code EXCEPT ![t] = None] /\ enter' = [enter EXCEPT ![w] = "cooling"]
      BY <1>0, <2>1, <2>2, <3>3
    <3>4. CASE th[c].pc = "clear" /\ UNCHANGED <<code, enter>>
      BY <1>0, <3>4 DEF CodeOf, LockedPcs, Restored
    <3>5. QED
      BY <1>12, <3>1, <3>2, <3>3, <3>4 DEF GivesUp, Clears
  <2>4. tree'[t] = None
    BY <1>0, <2>1
  <2>5. PICK d : Changes(c, d) /\ \/ d = Idle /\ obj' = [obj EXCEPT ![w] = "free"]
                                  \/ d.pc = "destroy" /\ d.w = w
    BY <1>12 DEF GivesUp, Clears, Goes
  <2>6. CodeOf(c)'
    <3>1. CASE d = Idle
      BY <1>5, <2>5, <3>1
    <3>2. CASE d.pc = "destroy" /\ d.w = w
      BY <1>5, <2>3, <2>5, <3>2 DEF CodeOf, LockedPcs, Inserted, Restored
    <3>3. QED
      BY <2>5, <3>1, <3>2
  <2>7. Mirrors(t)'
    BY <2>3, <2>4 DEF Mirrors
  <2>8. Owned(w)'
    BY <1>0, <1>5, <2>2, <2>3, <2>5 DEF Owned
  <2>9. \A s \in Targets : s # t => tree'[s] = tree[s]
    BY <2>1
  <2>10. th[c].pc \notin {"insert", "destroy"} /\ th[c].pc # "idle"
    BY <2>1 DEF LockedPcs, Inserted, Restored
  <2>11. \A u \in Sw : u # w => obj'[u] = obj[u]
    BY <1>0, <2>1
  <2>12. QED
    BY <2>1, <2>2, <2>3, <2>5, <2>6, <2>7, <2>8, <2>9, <2>10, <2>11, CodeStays
<1>13. CASE Completes(c)
  <2>1. /\ UNCHANGED <<tree, obj, enter>> /\ Changes(c, Idle)
        /\ \/ th[c].pc \in {"patch", "patch2"} /\ code' = [code EXCEPT ![t] = w]
           \/ th[c].pc = "proxy" /\ code' = code
    BY <1>13 DEF Completes
  <2>2. th[c].pc \in LockedPcs \ {"enter", "clear"} /\ th[c].pc \in OwningPcs /\ t \in Targets
    BY <1>1, <1>2, <2>1 DEF LockedPcs, Inserted
  <2>3. /\ tree[t] = w /\ w \in Sw /\ \A s \in Targets : s # t => tree[s] # w
        /\ \A e \in Callers : e # c /\ th[e].pc \in OwningPcs => th[e].w # w
    BY <1>3, <1>4, <2>2
  <2>4. code'[t] = w /\ enter[w] = "live" /\ \A s \in Targets : s # t => code'[s] = code[s]
    BY <1>0, <2>1, <2>2 DEF CodeOf
  <2>5. CodeOf(c)'
    BY <1>5, <2>1
  <2>6. Mirrors(t)' /\ Owned(w)'
    BY <2>1, <2>2, <2>3, <2>4 DEF Mirrors, Owned
  <2>7. th[c].pc \notin {"insert", "destroy"} /\ th[c].pc # "idle"
    BY <2>1
  <2>8. QED
    BY <2>1, <2>2, <2>3, <2>4, <2>5, <2>6, <2>7, CodeStays
<1>14. CASE Takes(c)
  <2>1. /\ th[c].pc = "lock" /\ lock = None /\ tree[t] # None /\ UNCHANGED <<tree, obj, enter, code>>
        /\ t \in Targets
    BY <1>1, <1>14 DEF Takes
  <2>2. PICK d : Goes(c, d, "restore", tree[t], TRUE, th[c].res)
    BY <1>14 DEF Takes
  <2>3. Changes(c, d) /\ th'[c] = d /\ d.pc = "restore" /\ d.w = tree[t] /\ d.t = t
    BY <2>2 DEF Goes, Changes
  <2>4. th[c].pc \notin LockedPcs /\ ~ Mid(t) /\ tree[t] \in Sw
    BY <1>0, <2>1, Alone DEF LockedPcs, Inserted, Restored
  <2>5. code[t] = tree[t] /\ enter[tree[t]] = "live" /\ InTree(t)
    BY <1>0, <2>1, <2>4 DEF Mirrors
  <2>6. CodeOf(c)'
    BY <2>1, <2>3, <2>5 DEF CodeOf, LockedPcs, Inserted
  <2>7. PICK v \in Sw : v = tree[t]
    BY <2>4
  <2>10. Mirrors(t)' /\ Owned(v)'
    BY <2>1, <2>5, <2>7 DEF Mirrors, Owned
  <2>8. \A e \in Callers : e # c /\ th[e].pc \in OwningPcs => th[e].w # tree[t]
    <3> SUFFICES ASSUME NEW e \in Callers, th[e].pc \in OwningPcs PROVE tree[t] # th[e].w
      OBVIOUS
    <3>1. th[e].pc \in {"insert", "destroy"} /\ InHand(e)
      BY <1>0, <2>1, <2>4, Alone DEF OwningPcs
    <3>2. QED
      BY <2>1, <3>1 DEF InHand
  <2>9. \A s \in Targets : s # t => tree[s] # tree[t]
    BY <2>1, <2>5 DEF InTree
  <2>11. th[c].pc \notin {"insert", "destroy"} /\ th[c].pc # "idle"
    BY <2>1
  <2>12. QED
    BY <2>1, <2>3, <2>6, <2>7, <2>8, <2>9, <2>10, <2>11, CodeStays
<1>15. QED
  BY <1>7, <1>8, <1>9, <1>10, <1>11, <1>12, <1>13, <1>14 DEF Steps, Joins

LEMMA ClosingCode ==
  ASSUME ControlInv, CodeInv, NEW lib, Dlclose(lib)
  PROVE  CodeInv'
<1> DEFINE gone == {w \in Sw : \E t \in Targets : LibOf[t] = lib /\ tree[t] = w}
<1>0. /\ TypeOK /\ None \notin Sw
      /\ \A e \in Callers : InHand(e) /\ CodeOf(e)
      /\ \A s \in Targets : InTree(s) /\ Mirrors(s)
      /\ \A u \in Sw : Owned(u)
      /\ tree \in [Targets -> Sw \cup {None}]
  BY SwitchAssumption
     DEF ControlInv, CallerPhases, TreePhases, TypeOK, CodeInv, CodePhases, CodeMirrors, LiveAreOwned
<1>1. /\ lock = None /\ UNCHANGED <<unique, lock, th>>
      /\ \A s \in Targets : tree'[s] = IF LibOf[s] = lib THEN None ELSE tree[s]
      /\ \A s \in Targets : code'[s] = IF LibOf[s] = lib THEN None ELSE code[s]
      /\ \A u \in Sw : obj'[u] = IF u \in gone THEN "free" ELSE obj[u]
      /\ \A u \in Sw : enter'[u] = IF u \in gone THEN "cooling" ELSE enter[u]
  BY DEF Dlclose
<1>2. \A c \in Callers : th[c].pc \notin LockedPcs
  BY <1>1, SwitchAssumption DEF ControlInv, LockPhases
<1>3. ASSUME NEW c \in Callers PROVE CodeOf(c)'
  <2>1. th[c].pc \in {"insert", "destroy"} => th[c].w \in Sw /\ th[c].w \notin gone
    BY <1>0 DEF InHand, OwningPcs
  <2>2. th'[c] = th[c] /\ CodeOf(c) /\ "enter" \in LockedPcs /\ "clear" \in LockedPcs
        /\ "proxy" \in LockedPcs /\ "restore" \in LockedPcs
    BY <1>0, <1>1 DEF LockedPcs, Inserted, Restored
  <2>3. QED
    BY <1>1, <1>2, <2>1, <2>2 DEF CodeOf
<1>4. ASSUME NEW s \in Targets PROVE Mirrors(s)'
  <2>1. CASE LibOf[s] = lib
    BY <1>1, <2>1 DEF Mirrors
  <2>2. CASE LibOf[s] # lib
    <3>1. tree[s] # None => tree[s] \in Sw /\ tree[s] \notin gone
      BY <1>0, <2>2 DEF InTree
    <3>2. Mid(s) <=> Mid(s)'
      BY <1>1 DEF Mid
    <3>3. QED
      BY <1>0, <1>1, <2>2, <3>1, <3>2 DEF Mirrors
  <2>3. QED
    BY <2>1, <2>2
<1>5. ASSUME NEW u \in Sw PROVE Owned(u)'
  <2>1. CASE u \in gone
    BY <1>1, <2>1 DEF Owned
  <2>2. CASE u \notin gone
    <3>1. \A s \in Targets : tree[s] = u => tree'[s] = u
      BY <1>1, <2>2
    <3>2. QED
      BY <1>0, <1>1, <2>2, <3>1 DEF Owned
  <2>3. QED
    BY <2>1, <2>2
<1>6. QED
  BY <1>3, <1>4, <1>5 DEF CodeInv, CodePhases, CodeMirrors, LiveAreOwned

LEMMA CodeInvariance ==
  ASSUME "restore" \notin Faults
  PROVE  Init /\ [][Next]_vars => [](ControlInv /\ CodeInv)
<1>1. Init => CodeInv
  <2> SUFFICES ASSUME Init PROVE CodeInv
    OBVIOUS
  <2>1. /\ \A c \in Callers : th[c] = Idle
        /\ \A t \in Targets : tree[t] = None /\ code[t] = None
        /\ \A w \in Sw : obj[w] = "free" /\ enter[w] = "free"
    BY DEF Init
  <2>2. Idle.pc = "idle" /\ "idle" \notin LockedPcs
    BY DEF Idle, Inserted, LockedPcs, Restored
  <2>3. QED
    BY <2>1, <2>2 DEF CodeInv, CodePhases, CodeOf, CodeMirrors, Mirrors, LiveAreOwned, Owned
<1>2. ControlInv /\ ControlInv' /\ CodeInv /\ [Next]_vars => CodeInv'
  <2> SUFFICES ASSUME ControlInv, ControlInv', CodeInv, [Next]_vars PROVE CodeInv'
    OBVIOUS
  <2>1. ASSUME NEW c \in Callers, CallerStep(c) PROVE CodeInv'
    <3>1. Steps(c) /\ unique' = unique
      BY <2>1, CallerSteps DEF ControlInv
    <3>2. QED
      BY <3>1, CallersCode
  <2>2. CASE UNCHANGED <<tree, code, obj, enter, th>>
    BY <2>2 DEF CodeInv, CodePhases, CodeOf, CodeMirrors, Mirrors, LiveAreOwned, Owned, Mid
  <2>3. ASSUME NEW x \in Runners, RunnerStep(x) PROVE CodeInv'
    BY <2>2, <2>3, RunnerSteps DEF ControlInv, parts
  <2>4. ASSUME NEW w \in Sw, Reap(w) PROVE CodeInv'
    <3>1. UNCHANGED <<tree, code, enter, th>> /\ \A u \in Sw : obj'[u] \in {"free", obj[u]}
      BY <2>4 DEF Reap, ControlInv, TypeOK
    <3>2. QED
      BY <3>1 DEF CodeInv, CodePhases, CodeOf, CodeMirrors, Mirrors, LiveAreOwned, Owned, Mid
  <2>5. ASSUME NEW w \in Sw, CoolEnter(w) PROVE CodeInv'
    <3>1. /\ UNCHANGED <<tree, code, obj, th>> /\ \A c \in Callers : th[c].pc = "clear" => th[c].w # w
          /\ enter[w] = "cooling" /\ enter' = [enter EXCEPT ![w] = "free"]
      BY <2>5 DEF CoolEnter, At
    <3>2. \A u \in Sw : enter'[u] = IF u = w THEN "free" ELSE enter[u]
      BY <3>1 DEF ControlInv, TypeOK
    <3>3. CodePhases'
      <4> SUFFICES ASSUME NEW c \in Callers PROVE CodeOf(c)'
        BY DEF CodePhases
      <4>1. CodeOf(c) /\ InHand(c)
        BY DEF CodeInv, CodePhases, ControlInv, CallerPhases
      <4>2. th[c].pc \in OwningPcs => th[c].w \in Sw
        BY <4>1 DEF InHand
      <4>3. LockedPcs \cup {"insert", "destroy"} = OwningPcs /\ {"enter", "proxy", "restore", "clear"} \subseteq LockedPcs
        BY DEF OwningPcs, LockedPcs, Inserted, Restored
      <4>4. QED
        BY <3>1, <3>2, <4>1, <4>2, <4>3 DEF CodeOf
    <3>4. CodeMirrors'
      <4> SUFFICES ASSUME NEW s \in Targets PROVE Mirrors(s)'
        BY DEF CodeMirrors
      <4>1. Mirrors(s) /\ (Mid(s)' <=> Mid(s)) /\ (tree[s] # None => tree[s] \in Sw)
        BY <3>1 DEF CodeInv, CodeMirrors, Mid, ControlInv, TypeOK
      <4>2. QED
        BY <3>1, <3>2, <4>1 DEF Mirrors
    <3>5. LiveAreOwned'
      BY <3>1, <3>2 DEF CodeInv, LiveAreOwned, Owned
    <3>6. QED
      BY <3>3, <3>4, <3>5 DEF CodeInv
  <2>6. CASE UNCHANGED vars
    BY <2>2, <2>6 DEF vars, parts
  <2>7. QED
    BY <2>1, <2>3, <2>4, <2>5, <2>6, ClosingCode DEF Next
<1>3. QED
  BY <1>1, <1>2, ControlInvariance, PTL

(* sh_switch_hook() and sh_switch_unhook(), with every failure but that of *)
(* sh_inst_unhook(): the tree tells what is written at the entries of the  *)
(* functions, and between two critical sections every switch in the tree   *)
(* is patched in, has a live enter and a proxy to call.                    *)
THEOREM TreeIsMirrored ==
  ASSUME "restore" \notin Faults
  PROVE  Spec => []TreeMirrorsCode
<1>1. ControlInv /\ CodeInv => TreeMirrorsCode
  <2> SUFFICES ASSUME ControlInv, CodeInv, NEW t \in Targets
               PROVE  /\ code[t] # None => tree[t] = code[t] /\ obj[code[t]] = "live"
                      /\ lock = None /\ tree[t] # None =>
                           code[t] = tree[t] /\ enter[tree[t]] = "live" /\ funcs[tree[t]] # {}
    BY DEF TreeMirrorsCode
  <2>1. Mirrors(t) /\ InTree(t) /\ (lock = None => ~ Mid(t))
    BY SwitchAssumption DEF ControlInv, LockPhases, TreePhases, CodeInv, CodeMirrors, Mid
  <2>2. QED
    BY <2>1 DEF Mirrors, InTree
<1>2. QED
  BY <1>1, CodeInvariance, PTL DEF Spec

(* Under the same assumption no switch and no enter is lost: what is live  *)
(* while nobody hooks or unhooks is in the tree, also after two callers    *)
(* raced to hook the same function, after any failure, and after dlclose().*)
THEOREM NothingIsLost ==
  ASSUME "restore" \notin Faults
  PROVE  Spec => []NothingLeaks
<1>1. ControlInv /\ CodeInv => NothingLeaks
  BY DEF CodeInv, LiveAreOwned, Owned, NothingLeaks, At
<1>2. QED
  BY <1>1, CodeInvariance, PTL DEF Spec

----------------------------------------------------------------------------
(* The third layer holds if moreover there is memory for the first proxy.  *)
LEMMA SafeStays ==
  ASSUME ControlInv, SafePhases, NEW c \in Callers, NEW d, Changes(c, d), th[c].pc # "idle",
         NEW t, t = th[c].t,
         \A s \in Targets : s # t => tree'[s] = tree[s] /\ safe'[s] = safe[s],
         (tree' = tree /\ safe' = safe) \/ th[c].pc \in LockedPcs \/ lock = None,
         SafeOf(c)', t \in Targets => Slot(t)'
  PROVE  SafePhases'
<1>1. \A e \in Callers : e # c => th'[e] = th[e]
  BY DEF Changes
<1>2. ASSUME NEW e \in Callers, e # c PROVE SafeOf(e)'
  <2>1. th[e].pc \in LockedPcs => safe'[th[e].t] = safe[th[e].t]
    BY <1>2, Alone
  <2>2. {"enter", "patch", "patch2", "proxy"} \cup Restored \subseteq LockedPcs
    BY DEF LockedPcs, Inserted
  <2>3. SafeOf(e) /\ th'[e] = th[e]
    BY <1>1, <1>2 DEF SafePhases
  <2>4. QED
    BY <2>1, <2>2, <2>3 DEF SafeOf
<1>3. ASSUME NEW s \in Targets, s # t PROVE Slot(s)'
  <2>1. tree'[s] = tree[s] /\ safe'[s] = safe[s] /\ Slot(s)
    BY <1>3 DEF SafePhases
  <2>2. Mid(s) => Mid(s)'
    BY <1>1, <1>3 DEF Mid
  <2>3. QED
    BY <2>1, <2>2 DEF Slot
<1>4. QED
  BY <1>2, <1>3 DEF SafePhases

LEMMA RunsStay ==
  ASSUME ControlInv, RunPhases, NEW c \in Callers, NEW d, Changes(c, d), UNCHANGED <<unique, run>>,
         NEW v \in Sw,
         \A u \in Sw : u # v => obj'[u] = obj[u] /\ enter'[u] = enter[u],
         \A s \in Targets : tree'[s] \in {tree[s], None, v},
         d.pc \in Inserted \cup {"insert"} => d.w = v,
         \A x \in Runners : run[x] # Out /\ run[x].w = v => RunsIn(x)'
  PROVE  RunPhases'
<1> SUFFICES ASSUME NEW x \in Runners, run[x] # Out, run[x].w # v PROVE RunsIn(x)'
  BY DEF RunPhases, RunsIn
<1>1. RunsIn(x) /\ run[x] \in Runs /\ run'[x] = run[x] /\ unique' = unique
  BY DEF RunPhases, ControlInv, TypeOK, Runs
<1>2. run[x].w \in Sw /\ run[x].w # None
  BY <1>1, SwitchAssumption DEF Runs
<1>3. obj'[run[x].w] = obj[run[x].w] /\ enter'[run[x].w] = enter[run[x].w]
  BY <1>2
<1>4. \A s \in Targets : tree'[s] = run[x].w => tree[s] = run[x].w
  BY <1>2
<1>5. \A e \in Callers :
        /\ th'[e].pc \in {"insert", "enter"} => th'[e].w # run[x].w
        /\ th'[e].pc \in Inserted \ {"proxy"} /\ th'[e].w = run[x].w => run[x].pc \in {"safe", "enter"}
  <2> TAKE e \in Callers
  <2>1. CASE e = c
    BY <2>1 DEF Changes, Inserted
  <2>2. CASE e # c
    BY <1>1, <2>2 DEF Changes, RunsIn
  <2>3. QED
    BY <2>1, <2>2
<1>6. QED
  BY <1>1, <1>3, <1>4, <1>5 DEF RunsIn

LEMMA CallersRun ==
  ASSUME "restore" \notin Faults, "proxy" \notin Faults, ControlInv, CodeInv, RunInv,
         NEW c \in Callers, Steps(c), UNCHANGED <<unique, run>>,
         NEW t, NEW w, t = th[c].t, w = th[c].w
  PROVE  RunInv'
<1>0. /\ TypeOK /\ InHand(c) /\ CodeOf(c) /\ SafeOf(c) /\ None \notin Sw
      /\ \A e \in Callers : SafeOf(e)
      /\ tree \in [Targets -> Sw \cup {None}] /\ enter \in [Sw -> {"free", "live", "cooling"}]
      /\ obj \in [Sw -> {"free", "live", "retired"}] /\ safe \in [Targets -> Sw \cup {None}]
      /\ \A s \in Targets : Slot(s)
      /\ \A x \in Runners : RunsIn(x)
  BY SwitchAssumption
     DEF ControlInv, CallerPhases, TypeOK, CodeInv, CodePhases, RunInv, SafePhases, RunPhases
<1>1. th[c].pc # "idle" => t \in Targets
  BY <1>0, CallersAreInOps
<1>2. Idle.pc = "idle" /\ "idle" \notin HookPcs \cup UnhookPcs \cup OwningPcs \cup LockedPcs \cup Inserted
      /\ LockedPcs \subseteq OwningPcs
  BY DEF Idle, HookPcs, UnhookPcs, Inserted, OwningPcs, LockedPcs, Restored
<1>3. th[c].pc \in OwningPcs => w \in Sw /\ w # None
  BY <1>0 DEF InHand
<1>4. th[c].pc \in LockedPcs => tree[t] = w
  BY <1>0 DEF InHand
<1>5. ASSUME NEW d, Changes(c, d), d.pc \notin OwningPcs PROVE th'[c] = d /\ SafeOf(c)'
  BY <1>2, <1>5 DEF Changes, SafeOf, OwningPcs, LockedPcs, Inserted
<1>6. ASSUME NEW d, Changes(c, d), d.pc \notin OwningPcs, th[c].pc \notin OwningPcs,
             UNCHANGED <<tree, safe, enter, obj>>
      PROVE  RunInv'
  <2>1. (\A e \in Callers : e # c => th'[e] = th[e]) /\ th'[c] = d
    BY <1>6 DEF Changes
  <2>2. \A s \in Targets : Mid(s)' <=> Mid(s)
    BY <1>2, <1>6, <2>1 DEF Mid
  <2>3. SafePhases'
    <3>1. \A e \in Callers : SafeOf(e)'
      BY <1>0, <1>5, <1>6, <2>1 DEF SafeOf
    <3>2. QED
      BY <1>0, <1>6, <2>2, <3>1 DEF SafePhases, Slot
  <2>4. Inserted \cup {"insert"} \subseteq OwningPcs
    BY DEF OwningPcs, LockedPcs
  <2>5. ASSUME NEW x \in Runners PROVE RunsIn(x)'
    BY <1>0, <1>6, <2>1, <2>4 DEF RunsIn, Inserted
  <2>6. QED
    BY <2>3, <2>5 DEF RunInv, RunPhases
<1>7. CASE Starts(c) \/ LooksOn(c) \/ Refuses(c) \/ Disables(c) \/ (Joins(c) /\ th[c].pc = "find")
  <2>1. UNCHANGED <<tree, safe, enter, obj>> /\ th[c].pc \notin OwningPcs
    BY <1>7 DEF Starts, LooksOn, Refuses, Disables, Joins, OwningPcs, LockedPcs, Inserted, Restored, parts
  <2>2. PICK d : Changes(c, d) /\ (d.pc \in {"find", "lock", "len", "create"} \/ d = Idle)
    BY <1>7 DEF Starts, LooksOn, Refuses, Disables, Joins, Goes
  <2>3. d.pc \notin OwningPcs
    BY <1>2, <2>2 DEF OwningPcs, LockedPcs, Inserted, Restored
  <2>4. QED
    BY <1>6, <2>1, <2>2, <2>3
<1>8. CASE (Joins(c) /\ th[c].pc = "insert") \/ Destroys(c)
  <2>1. /\ th[c].pc \in {"insert", "destroy"} /\ UNCHANGED <<tree, safe, enter>> /\ Changes(c, Idle)
        /\ \/ th[c].pc = "insert" /\ obj' = [obj EXCEPT ![w] = "free"]
           \/ th[c].pc = "destroy" /\ obj' = [obj EXCEPT ![w] = IF unique THEN "free" ELSE "retired"]
    BY <1>8 DEF Joins, Destroys, Goes
  <2>2. t \in Targets /\ w \in Sw /\ th[c].pc \in OwningPcs /\ th[c].pc \notin LockedPcs
    BY <1>1, <1>3, <2>1 DEF OwningPcs, LockedPcs, Inserted, Restored
  <2>3. th'[c] = Idle /\ SafeOf(c)'
    BY <1>2, <1>5, <2>1
  <2>4. Mid(t)' <=> Mid(t)
    BY <1>2, <2>1, <2>2, <2>3 DEF Mid, Changes
  <2>5. Slot(t)'
    BY <1>0, <2>1, <2>2, <2>4 DEF Slot
  <2>6. SafePhases'
    BY <2>1, <2>2, <2>3, <2>5, SafeStays DEF RunInv
  <2>7. ASSUME NEW x \in Runners, run[x] # Out /\ run[x].w = w PROVE RunsIn(x)'
    <3>1. th[c].pc = "destroy" /\ obj' = [obj EXCEPT ![w] = IF unique THEN "free" ELSE "retired"]
      BY <1>0, <2>1, <2>7 DEF RunsIn
    <3>2. ~ unique => obj'[w] # "free"
      BY <1>0, <2>2, <3>1
    <3>3. \A e \in Callers : th'[e] = th[e] \/ th'[e].pc = "idle"
      BY <1>2, <2>1, <2>3 DEF Changes
    <3>4. QED
      BY <1>0, <2>1, <2>7, <3>2, <3>3 DEF RunsIn, Inserted
  <2>8. RunPhases'
    BY <1>0, <1>2, <2>1, <2>2, <2>7, RunsStay DEF RunInv, OwningPcs
  <2>9. QED
    BY <2>6, <2>8 DEF RunInv
<1>9. CASE Creates(c)
  <2>1. PICK v \in Sw :
          /\ IsFresh(v) /\ obj' = [obj EXCEPT ![v] = "live"]
          /\ \E d : Goes(c, d, "insert", v, th[c].took, th[c].res)
    BY <1>9 DEF Creates
  <2>2. PICK d : Goes(c, d, "insert", v, th[c].took, th[c].res)
    BY <2>1
  <2>3. Changes(c, d) /\ d.pc = "insert" /\ d.w = v /\ th'[c] = d
    BY <2>2 DEF Goes, Changes
  <2>4. th[c].pc = "create" /\ UNCHANGED <<tree, safe, enter>> /\ t \in Targets
    BY <1>1, <1>9 DEF Creates
  <2>5. SafeOf(c)' /\ d.pc \notin LockedPcs /\ th[c].pc \notin LockedPcs
    BY <2>3, <2>4 DEF SafeOf, LockedPcs, Inserted, Restored
  <2>6. Mid(t)' <=> Mid(t)
    BY <2>3, <2>5 DEF Mid, Changes
  <2>7. Slot(t)'
    BY <1>0, <2>4, <2>6 DEF Slot
  <2>8. SafePhases'
    BY <2>3, <2>4, <2>5, <2>7, SafeStays DEF RunInv
  <2>9. \A x \in Runners : run[x] # Out => run[x].w # v
    BY <2>1 DEF IsFresh
  <2>10. RunPhases'
    BY <1>0, <2>1, <2>3, <2>4, <2>9, RunsStay DEF RunInv
  <2>11. QED
    BY <2>8, <2>10 DEF RunInv
<1>10. CASE Inserts(c)
  <2>1. PICK d : Goes(c, d, "enter", w, th[c].took, th[c].res)
    BY <1>10 DEF Inserts
  <2>2. Changes(c, d) /\ d.pc = "enter" /\ d.w = w /\ d.t = t /\ th'[c] = d
    BY <2>1 DEF Goes, Changes
  <2>3. /\ th[c].pc = "insert" /\ lock = None /\ tree[t] = None
        /\ tree' = [tree EXCEPT ![t] = w] /\ UNCHANGED <<obj, enter, safe>>
    BY <1>10 DEF Inserts
  <2>4. t \in Targets /\ w \in Sw /\ d.pc \in LockedPcs
    BY <1>1, <1>3, <2>2, <2>3 DEF OwningPcs, LockedPcs, Inserted
  <2>5. safe[t] = None
    BY <1>0, <2>3, <2>4 DEF Slot
  <2>6. SafeOf(c)' /\ Mid(t)'
    BY <2>2, <2>3, <2>4, <2>5 DEF SafeOf, Mid, Restored
  <2>7. Slot(t)'
    BY <2>3, <2>5, <2>6 DEF Slot
  <2>8. SafePhases'
    BY <2>2, <2>3, <2>6, <2>7, SafeStays DEF RunInv
  <2>9. \A x \in Runners : run[x] # Out => run[x].w # w
    BY <1>0, <2>3 DEF RunsIn
  <2>10. \A s \in Targets : tree'[s] \in {tree[s], w}
    BY <1>0, <2>3
  <2>11. RunPhases'
    BY <2>2, <2>3, <2>4, <2>9, <2>10, RunsStay DEF RunInv
  <2>12. QED
    BY <2>8, <2>11 DEF RunInv
<1>11. CASE Proceeds(c)
  <2>1. UNCHANGED <<tree, obj>>
    BY <1>11 DEF Proceeds
  <2>2. PICK d, pc, res :
          /\ Goes(c, d, pc, w, th[c].took, res)
          /\ \/ /\ th[c].pc = "enter" /\ pc = "rewrite"
                /\ enter' = [enter EXCEPT ![w] = "live"] /\ UNCHANGED safe
             \/ /\ th[c].pc \in {"rewrite", "rewrite2"} /\ pc \in {"patch", "patch2"}
                /\ safe' = (IF HasOrig2(t, w) THEN [safe EXCEPT ![t] = w] ELSE safe) /\ UNCHANGED enter
             \/ /\ th[c].pc \in {"rewrite", "patch"} /\ pc = "rewrite2" /\ UNCHANGED <<safe, enter>>
             \/ /\ th[c].pc \in {"patch", "patch2"} /\ pc = "proxy" /\ UNCHANGED <<safe, enter>>
             \/ /\ th[c].pc = "restore" /\ pc = "free" /\ UNCHANGED <<safe, enter>>
             \/ /\ th[c].pc = "free" /\ pc = "clear"
                /\ enter' = [enter EXCEPT ![w] = "cooling"] /\ UNCHANGED safe
    BY <1>11 DEF Proceeds
  <2>3. Changes(c, d) /\ d.pc = pc /\ d.w = w /\ d.t = t /\ th'[c] = d
    BY <2>2 DEF Goes, Changes
  <2>4. th[c].pc \in LockedPcs /\ t \in Targets /\ d.pc \in LockedPcs /\ w \in Sw /\ tree[t] = w
        /\ th[c].pc # "idle"
    BY <1>1, <1>2, <1>3, <1>4, <2>2, <2>3 DEF LockedPcs, Inserted, Restored
  <2>5. safe[t] \in {None, w} /\ (t \notin SafeTargets => safe[t] = None)
    BY <1>0, <2>4 DEF Slot
  <2>6. /\ safe'[t] \in {None, w} /\ (t \notin SafeTargets => safe'[t] = None)
        /\ \A s \in Targets : s # t => safe'[s] = safe[s]
        /\ th[c].pc \in {"rewrite", "rewrite2"} /\ pc \in {"patch", "patch2"} /\ t \in SafeTargets =>
             safe'[t] = w
        /\ th[c].pc \in {"patch", "patch2"} \cup Restored => UNCHANGED safe
    BY <1>0, <2>2, <2>4, <2>5 DEF HasOrig2, Restored
  <2>7. SafeOf(c)'
    <3>1. d.pc # "enter"
      BY <2>2, <2>3
    <3>2. ASSUME t \in SafeTargets, d.pc \in {"patch", "patch2", "proxy"} \cup Restored
          PROVE  safe'[t] = w
      <4>1. CASE pc \in {"patch", "patch2"}
        BY <2>2, <2>6, <3>2, <4>1
      <4>2. CASE pc \notin {"patch", "patch2"}
        <5>1. th[c].pc \in {"patch", "patch2", "proxy"} \cup Restored /\ UNCHANGED safe
          BY <2>2, <2>3, <3>2, <4>2 DEF Restored
        <5>2. QED
          BY <1>0, <3>2, <5>1 DEF SafeOf
      <4>3. QED
        BY <4>1, <4>2
    <3>3. QED
      BY <2>3, <3>1, <3>2 DEF SafeOf
  <2>8. Mid(t)'
    BY <2>3, <2>4 DEF Mid
  <2>9. Slot(t)'
    BY <2>1, <2>4, <2>6, <2>8 DEF Slot
  <2>10. SafePhases'
    BY <2>1, <2>3, <2>4, <2>6, <2>7, <2>9, SafeStays DEF RunInv
  <2>11. /\ \A u \in Sw : u # w => enter'[u] = enter[u]
         /\ enter'[w] \in {enter[w], "live", "cooling"}
    BY <1>0, <2>2, <2>4
  <2>12. ASSUME NEW x \in Runners, run[x] # Out /\ run[x].w = w PROVE RunsIn(x)'
    <3>1. /\ enter[w] # "free" /\ (~ unique /\ run[x].pc \in {"hub", "proxy"} => obj[w] # "free")
          /\ \A s \in Targets : tree[s] = w => s = run[x].t
          /\ \A e \in Callers :
               /\ th[e].pc \in {"insert", "enter"} => th[e].w # w
               /\ th[e].pc \in Inserted \ {"proxy"} /\ th[e].w = w => run[x].pc \in {"safe", "enter"}
      BY <1>0, <2>12 DEF RunsIn
    <3>2. d.pc \notin {"insert", "enter"} /\ (d.pc \in Inserted \ {"proxy"} => run[x].pc \in {"safe", "enter"})
      BY <2>2, <2>3, <3>1 DEF Inserted
    <3>3. \A e \in Callers : e = c \/ th'[e] = th[e]
      BY <2>3 DEF Changes
    <3>4. QED
      BY <2>1, <2>3, <2>11, <2>12, <3>1, <3>2, <3>3 DEF RunsIn
  <2>13. RunPhases'
    BY <2>1, <2>3, <2>4, <2>11, <2>12, RunsStay DEF RunInv
  <2>14. QED
    BY <2>10, <2>13 DEF RunInv
<1>12. CASE GivesUp(c) \/ Clears(c)
  <2>1. /\ tree' = [tree EXCEPT ![t] = None] /\ th[c].pc \in LockedPcs /\ t \in Targets
        /\ obj' \in {obj, [obj EXCEPT ![w] = "free"]} /\ w \in Sw /\ tree[t] = w /\ th[c].pc # "idle"
    BY <1>1, <1>2, <1>3, <1>4, <1>12 DEF GivesUp, Clears, LockedPcs, Inserted, Restored
  <2>2. th[c].pc # "proxy" \/ ~ GivesUp(c)
    <3> SUFFICES ASSUME th[c].pc = "proxy", GivesUp(c) PROVE FALSE
      OBVIOUS
    <3>1. funcs[w] = {}
      BY <1>0 DEF InHand, Inserted
    <3>2. \A p : ResultsOfAdd(w, p) = {"ok"}
      BY <3>1 DEF ResultsOfAdd
    <3>3. QED
      BY <3>2 DEF GivesUp
  <2>3. /\ \A s \in Targets : s # t => safe'[s] = safe[s]
        /\ safe'[t] = None
    <3>1. safe[t] \in {None, w} /\ (t \notin SafeTargets => safe[t] = None)
      BY <1>0, <2>1 DEF Slot
    <3>2. CASE th[c].pc = "enter" /\ UNCHANGED safe
      BY <1>0, <3>2 DEF SafeOf
    <3>3. CASE safe' = (IF HasOrig2(t, w) THEN [safe EXCEPT ![t] = None] ELSE safe)
      BY <1>0, <2>1, <3>1, <3>3 DEF HasOrig2
    <3>4. CASE safe' = [safe EXCEPT ![t] = None]
      BY <1>0, <2>1, <3>4
    <3>5. QED
      BY <1>12, <2>2, <3>2, <3>3, <3>4 DEF GivesUp, Clears
  <2>4. PICK d : /\ Changes(c, d)
                 /\ \/ /\ d = Idle /\ obj' = [obj EXCEPT ![w] = "free"]
                       /\ th[c].pc \in {"enter", "rewrite2", "patch2"}
                       /\ enter' \in {enter, [enter EXCEPT ![w] = "cooling"]}
                    \/ d.pc = "destroy" /\ d.w = w /\ UNCHANGED <<enter, obj>>
    BY <1>12, <2>2 DEF GivesUp, Clears, Goes
  <2>5. th'[c] = d /\ SafeOf(c)' /\ d.pc \notin Inserted \cup {"insert"}
    BY <1>2, <2>4 DEF Changes, SafeOf, Restored, Inserted
  <2>6. tree'[t] = None /\ \A s \in Targets : s # t => tree'[s] = tree[s]
    BY <1>0, <2>1
  <2>7. Slot(t)'
    BY <2>3, <2>6 DEF Slot
  <2>8. SafePhases'
    BY <2>1, <2>3, <2>4, <2>5, <2>6, <2>7, SafeStays DEF RunInv
  <2>9. \A u \in Sw : u # w => obj'[u] = obj[u] /\ enter'[u] = enter[u]
    BY <1>0, <2>1, <2>4
  <2>10. ASSUME NEW x \in Runners, run[x] # Out /\ run[x].w = w PROVE RunsIn(x)'
    <3>1. /\ enter[w] # "free" /\ (~ unique /\ run[x].pc \in {"hub", "proxy"} => obj[w] # "free")
          /\ \A s \in Targets : tree[s] = w => s = run[x].t
          /\ \A e \in Callers :
               /\ th[e].pc \in {"insert", "enter"} => th[e].w # w
               /\ th[e].pc \in Inserted \ {"proxy"} /\ th[e].w = w => run[x].pc \in {"safe", "enter"}
      BY <1>0, <2>10 DEF RunsIn
    <3>2. \/ obj' = obj
          \/ run[x].pc \in {"safe", "enter"}
      BY <2>4, <3>1 DEF Inserted
    <3>3. \A e \in Callers : e = c \/ th'[e] = th[e]
      BY <2>4 DEF Changes
    <3>4. enter'[w] # "free"
      BY <1>0, <2>1, <2>4, <3>1
    <3>5. \A s \in Targets : tree'[s] = w => s = run[x].t
      BY <1>3, <1>2, <2>1, <2>6, <3>1
    <3>6. \A e \in Callers :
               /\ th'[e].pc \in {"insert", "enter"} => th'[e].w # w
               /\ th'[e].pc \in Inserted \ {"proxy"} /\ th'[e].w = w => run[x].pc \in {"safe", "enter"}
      BY <2>5, <3>1, <3>3 DEF Inserted
    <3>7. ~ unique /\ run[x].pc \in {"hub", "proxy"} => obj'[w] # "free"
      BY <3>1, <3>2
    <3>8. QED
      BY <2>10, <3>4, <3>5, <3>6, <3>7 DEF RunsIn
  <2>11. \A s \in Targets : tree'[s] \in {tree[s], None}
    BY <2>6
  <2>12. RunPhases'
    BY <2>1, <2>4, <2>5, <2>9, <2>10, <2>11, RunsStay DEF RunInv
  <2>13. QED
    BY <2>8, <2>12 DEF RunInv
<1>13. CASE Completes(c) \/ Takes(c)
  <2>1. UNCHANGED <<tree, obj, enter, safe>> /\ th[c].pc # "idle" /\ t \in Targets
    BY <1>1, <1>13 DEF Completes, Takes
  <2>2. PICK d : /\ Changes(c, d)
                 /\ \/ d = Idle /\ th[c].pc \in {"patch", "patch2", "proxy"}
                    \/ d.pc = "restore" /\ d.t = t /\ d.w = tree[t] /\ lock = None /\ tree[t] # None
    BY <1>13 DEF Completes, Takes, Goes
  <2>3. th'[c] = d /\ d.pc \notin Inserted \cup {"insert"} /\ \A e \in Callers : e = c \/ th'[e] = th[e]
    BY <1>2, <2>2 DEF Changes, Inserted
  <2>4. SafeOf(c)' /\ Slot(t)'
    <3>1. CASE d = Idle /\ th[c].pc \in {"patch", "patch2", "proxy"}
      <4>1. SafeOf(c)'
        BY <1>2, <2>3, <3>1 DEF SafeOf, LockedPcs, Inserted
      <4>2. t \in SafeTargets => safe[t] = tree[t]
        BY <1>0, <1>4, <3>1 DEF SafeOf, LockedPcs, Inserted
      <4>3. QED
        BY <1>0, <2>1, <4>1, <4>2 DEF Slot
    <3>2. CASE d.pc = "restore" /\ d.t = t /\ d.w = tree[t] /\ lock = None /\ tree[t] # None
      <4>1. \A s \in Targets : ~ Mid(s)
        BY <3>2, SwitchAssumption DEF ControlInv, LockPhases, Mid
      <4>2. (t \in SafeTargets => safe[t] = tree[t]) /\ (t \notin SafeTargets => safe[t] = None)
            /\ safe[t] \in {None, tree[t]}
        BY <1>0, <2>1, <3>2, <4>1 DEF Slot
      <4>3. QED
        BY <2>1, <2>3, <3>2, <4>2 DEF SafeOf, Slot
    <3>3. QED
      BY <2>2, <3>1, <3>2
  <2>5. SafePhases'
    BY <2>1, <2>2, <2>4, SafeStays DEF RunInv
  <2>6. RunPhases'
    BY <1>0, <2>1, <2>3 DEF RunPhases, RunsIn, Inserted
  <2>7. QED
    BY <2>5, <2>6 DEF RunInv
<1>14. QED
  BY <1>7, <1>8, <1>9, <1>10, <1>11, <1>12, <1>13 DEF Steps, Joins

LEMMA RunInvariance ==
  ASSUME "restore" \notin Faults, "proxy" \notin Faults
  PROVE  Init /\ [][Next]_vars => [](ControlInv /\ CodeInv /\ RunInv)
<1>1. Init => RunInv
  <2> SUFFICES ASSUME Init PROVE RunInv
    OBVIOUS
  <2>1. /\ \A c \in Callers : th[c] = Idle
        /\ \A t \in Targets : tree[t] = None /\ safe[t] = None
        /\ \A x \in Runners : run[x] = Out
    BY DEF Init
  <2>2. Idle.pc = "idle" /\ "idle" \notin LockedPcs
    BY DEF Idle, Inserted, LockedPcs, Restored
  <2>3. QED
    BY <2>1, <2>2 DEF RunInv, SafePhases, SafeOf, Slot, RunPhases, RunsIn, Restored
<1>2. ControlInv /\ CodeInv /\ RunInv /\ [Next]_vars => RunInv'
  <2> SUFFICES ASSUME ControlInv, CodeInv, RunInv, [Next]_vars PROVE RunInv'
    OBVIOUS
  <2>0. /\ None \notin Sw /\ TypeOK
        /\ \A e \in Callers : InHand(e) /\ CodeOf(e) /\ SafeOf(e)
        /\ \A s \in Targets : InTree(s) /\ Mirrors(s) /\ Slot(s)
        /\ \A x \in Runners : RunsIn(x)
        /\ tree \in [Targets -> Sw \cup {None}]
        /\ \A x \in Runners : run[x] # Out => run[x] \in Runs /\ run[x].w \in Sw /\ run[x].t \in Targets
    BY SwitchAssumption
       DEF ControlInv, CallerPhases, TreePhases, TypeOK, CodeInv, CodePhases, CodeMirrors, RunInv,
           SafePhases, RunPhases, Runs
  <2>1. ASSUME NEW c \in Callers, CallerStep(c) PROVE RunInv'
    <3>1. Steps(c) /\ UNCHANGED <<unique, run>>
      BY <2>1, CallerSteps DEF ControlInv
    <3>2. QED
      BY <3>1, CallersRun
  <2>2. ASSUME UNCHANGED <<unique, tree, safe, th>>,
               \A x \in Runners : run'[x] # Out /\ run'[x] = run[x] =>
                 /\ enter[run[x].w] # "free" => enter'[run[x].w] # "free"
                 /\ run[x].pc \in {"hub", "proxy"} /\ obj[run[x].w] # "free" => obj'[run[x].w] # "free",
               \A x \in Runners : run'[x] = run[x] \/ RunsIn(x)'
        PROVE  RunInv'
    <3>1. \A s \in Targets : Mid(s)' <=> Mid(s)
      BY <2>2 DEF Mid
    <3>2. SafePhases'
      BY <2>0, <2>2, <3>1 DEF SafePhases, SafeOf, Slot
    <3>3. RunPhases'
      BY <2>0, <2>2 DEF RunPhases, RunsIn
    <3>4. QED
      BY <3>2, <3>3 DEF RunInv
  <2>3. ASSUME NEW x \in Runners, RunnerStep(x) PROVE RunInv'
    <3>1. /\ UNCHANGED <<unique, lock, parts, th>> /\ \A y \in Runners : y # x => run'[y] = run[y]
          /\ \/ run'[x] = Out
             \/ \E t \in Targets, w \in Sw, pc \in {"hub", "proxy", "enter", "safe"} :
                  /\ run'[x] = [pc |-> pc, t |-> t, w |-> w]
                  /\ \/ run[x] = Out /\ code[t] = w /\ pc = (IF unique THEN "proxy" ELSE "hub")
                     \/ run[x] = Out /\ safe[t] = w /\ pc = "safe"
                     \/ /\ run[x] \in Runs /\ run[x].t = t /\ run[x].w = w
                        /\ pc = "enter" \/ (run[x].pc = "hub" /\ pc = "proxy")
      BY <2>0, <2>3, RunnerSteps
    <3>2. CASE run'[x] = Out
      BY <2>2, <3>1, <3>2 DEF RunsIn, parts
    <3>3. ASSUME NEW t \in Targets, NEW w \in Sw, NEW pc \in {"hub", "proxy", "enter", "safe"},
                 run'[x] = [pc |-> pc, t |-> t, w |-> w],
                 \/ run[x] = Out /\ code[t] = w /\ pc = (IF unique THEN "proxy" ELSE "hub")
                 \/ run[x] = Out /\ safe[t] = w /\ pc = "safe"
                 \/ /\ run[x] \in Runs /\ run[x].t = t /\ run[x].w = w
                    /\ pc = "enter" \/ (run[x].pc = "hub" /\ pc = "proxy")
          PROVE  RunsIn(x)'
      <4>1. run'[x].pc = pc /\ run'[x].t = t /\ run'[x].w = w
        BY <3>3
      <4>2. ASSUME /\ enter[w] # "free" /\ (~ unique /\ pc \in {"hub", "proxy"} => obj[w] # "free")
                   /\ \A s \in Targets : tree[s] = w => s = t
                   /\ \A c \in Callers :
                        /\ th[c].pc \in {"insert", "enter"} => th[c].w # w
                        /\ th[c].pc \in Inserted \ {"proxy"} /\ th[c].w = w => pc \in {"safe", "enter"}
            PROVE  RunsIn(x)'
        BY <3>1, <4>1, <4>2 DEF RunsIn, parts
      <4>3. ASSUME NEW c \in Callers, th[c].pc \in LockedPcs, tree[t] = w, th[c].w = w
            PROVE  th[c].t = t
        <5>1. tree[th[c].t] = w /\ th[c].t \in Targets
          BY <2>0, <4>3, CallersAreInOps DEF InHand, LockedPcs, Inserted, Restored
        <5>2. InTree(t) /\ w # None
          BY <2>0
        <5>3. QED
          BY <4>3, <5>1, <5>2 DEF InTree
      <4>4. ASSUME tree[t] = w PROVE \A s \in Targets : tree[s] = w => s = t
        BY <2>0, <4>4 DEF InTree
      <4>5. ASSUME tree[t] = w, NEW c \in Callers PROVE th[c].pc = "insert" => th[c].w # w
        BY <2>0, <4>5 DEF InHand
      <4>6. CASE run[x] = Out /\ code[t] = w
        <5>1. tree[t] = w /\ Mirrors(t) /\ InTree(t) /\ w # None
          BY <2>0, <4>6 DEF Mirrors
        <5>2. ASSUME NEW c \in Callers, th[c].pc \in LockedPcs, th[c].t = t
              PROVE  th[c].pc \in {"proxy", "restore"} /\ th[c].w = w
          BY <2>0, <4>6, <5>1, <5>2 DEF CodeOf, InHand
        <5>3. enter[w] = "live"
          <6>1. CASE Mid(t)
            <7>1. PICK c \in Callers : th[c].pc \in LockedPcs /\ th[c].t = t
              BY <6>1 DEF Mid
            <7>2. CodeOf(c) /\ th[c].pc \in LockedPcs \ {"enter", "clear"} /\ th[c].w = w
              BY <2>0, <5>2, <7>1
            <7>3. QED
              BY <7>2 DEF CodeOf
          <6>2. CASE ~ Mid(t)
            BY <5>1, <6>2 DEF Mirrors
          <6>3. QED
            BY <6>1, <6>2
        <5>4. obj[w] = "live"
          BY <5>1 DEF InTree
        <5>5. \A c \in Callers :
                /\ th[c].pc \in {"insert", "enter"} => th[c].w # w
                /\ th[c].pc \in Inserted \ {"proxy"} => th[c].w # w
          BY <4>3, <4>5, <5>1, <5>2 DEF LockedPcs, Inserted
        <5>6. QED
          BY <4>2, <4>4, <5>1, <5>3, <5>4, <5>5
      <4>7. CASE run[x] = Out /\ safe[t] = w /\ pc = "safe"
        <5>1. tree[t] = w /\ Mirrors(t)
          BY <2>0, <4>7 DEF Slot
        <5>2. ASSUME NEW c \in Callers, th[c].pc \in LockedPcs, th[c].t = t
              PROVE  th[c].pc # "enter" /\ th[c].w = w
          BY <2>0, <4>7, <5>1, <5>2 DEF SafeOf, InHand
        <5>3. enter[w] # "free"
          <6>1. CASE Mid(t)
            <7>1. PICK c \in Callers : th[c].pc \in LockedPcs /\ th[c].t = t
              BY <6>1 DEF Mid
            <7>2. CodeOf(c) /\ th[c].pc # "enter" /\ th[c].w = w
              BY <2>0, <5>2, <7>1
            <7>3. QED
              BY <7>1, <7>2 DEF CodeOf
          <6>2. CASE ~ Mid(t)
            BY <2>0, <5>1, <6>2 DEF Mirrors
          <6>3. QED
            BY <6>1, <6>2
        <5>4. \A c \in Callers : th[c].pc \in {"insert", "enter"} => th[c].w # w
          BY <4>3, <4>5, <5>1, <5>2 DEF LockedPcs, Inserted
        <5>5. QED
          BY <4>2, <4>4, <4>7, <5>1, <5>3, <5>4
      <4>8. CASE /\ run[x] \in Runs /\ run[x].t = t /\ run[x].w = w
                 /\ pc = "enter" \/ (run[x].pc = "hub" /\ pc = "proxy")
        <5>1. run[x] # Out /\ RunsIn(x)
          BY <2>0, <4>8 DEF Runs, Out
        <5>2. QED
          BY <4>2, <4>8, <5>1 DEF RunsIn
      <4>9. QED
        BY <3>3, <4>6, <4>7, <4>8
    <3>4. QED
      BY <2>2, <3>1, <3>2, <3>3 DEF parts
  <2>4. ASSUME NEW w \in Sw, Reap(w) PROVE RunInv'
    <3>1. /\ UNCHANGED <<unique, tree, safe, enter, th, run>> /\ obj' = [obj EXCEPT ![w] = "free"]
          /\ \A x \in Runners : run[x].pc \in {"hub", "proxy"} => run[x].w # w
      BY <2>4 DEF Reap
    <3>2. \A u \in Sw : u # w => obj'[u] = obj[u]
      BY <2>0, <3>1 DEF TypeOK
    <3>3. QED
      BY <2>0, <2>2, <3>1, <3>2
  <2>5. ASSUME NEW w \in Sw, CoolEnter(w) PROVE RunInv'
    <3>1. /\ UNCHANGED <<unique, tree, safe, obj, th, run>> /\ enter' = [enter EXCEPT ![w] = "free"]
          /\ \A x \in Runners : run[x] # Out => run[x].w # w
      BY <2>5 DEF CoolEnter
    <3>2. \A u \in Sw : u # w => enter'[u] = enter[u]
      BY <2>0, <3>1 DEF TypeOK
    <3>3. QED
      BY <2>0, <2>2, <3>1, <3>2
  <2>6. ASSUME NEW lib, Dlclose(lib) PROVE RunInv'
    <3> DEFINE gone == {w \in Sw : \E t \in Targets : LibOf[t] = lib /\ tree[t] = w}
    <3>1. /\ lock = None /\ UNCHANGED <<unique, safe, th, run>>
          /\ \A t \in SafeTargets : LibOf[t] # lib
          /\ \A x \in Runners : run[x] # Out => LibOf[run[x].t] # lib
          /\ \A s \in Targets : tree'[s] = IF LibOf[s] = lib THEN None ELSE tree[s]
          /\ \A u \in Sw : u \notin gone => obj'[u] = obj[u] /\ enter'[u] = enter[u]
      BY <2>6 DEF Dlclose
    <3>2. \A s \in Targets : Mid(s)' <=> Mid(s)
      BY <3>1 DEF Mid
    <3>3. SafePhases'
      <4>1. \A e \in Callers : SafeOf(e)'
        BY <2>0, <3>1 DEF SafeOf
      <4>2. \A s \in Targets : Slot(s)'
        BY <2>0, <3>1, <3>2 DEF Slot
      <4>3. QED
        BY <4>1, <4>2 DEF SafePhases
    <3>4. ASSUME NEW x \in Runners, run[x] # Out PROVE RunsIn(x)'
      <4>1. RunsIn(x) /\ run[x].w \in Sw /\ LibOf[run[x].t] # lib /\ run'[x] = run[x]
        BY <2>0, <3>1, <3>4
      <4>2. run[x].w \notin gone
        BY <3>4, <4>1 DEF RunsIn
      <4>3. obj'[run[x].w] = obj[run[x].w] /\ enter'[run[x].w] = enter[run[x].w]
            /\ \A s \in Targets : tree'[s] = run[x].w => tree[s] = run[x].w
        BY <2>0, <3>1, <4>1, <4>2
      <4>4. QED
        BY <3>1, <4>1, <4>3 DEF RunsIn
    <3>5. QED
      BY <3>1, <3>3, <3>4 DEF RunInv, RunPhases, RunsIn
  <2>7. CASE UNCHANGED vars
    BY <2>2, <2>7 DEF vars, parts
  <2>8. QED
    BY <2>1, <2>3, <2>4, <2>5, <2>6, <2>7 DEF Next
<1>3. QED
  BY <1>1, <1>2, CodeInvariance, PTL

(* Threads that run through hooked functions, sh_switch_destroy() with its *)
(* delay and the cooling enters: no thread is in a hub or an enter that    *)
(* has been given back.  Were there no memory for the first proxy, the hub *)
(* would be destroyed without delay while the entry is already patched.    *)
THEOREM RunnersSurvive ==
  ASSUME "restore" \notin Faults, "proxy" \notin Faults
  PROVE  Spec => []RunnersStayAlive
<1>1. ControlInv /\ CodeInv /\ RunInv => RunnersStayAlive
  <2> SUFFICES ASSUME RunInv, NEW x \in Runners
               PROVE  /\ ~ unique /\ run[x].pc \in {"hub", "proxy"} => obj[run[x].w] # "free"
                      /\ run[x].pc \in {"enter", "safe"} => enter[run[x].w] # "free"
    BY DEF RunnersStayAlive
  <2>1. RunsIn(x)
    BY DEF RunInv, RunPhases
  <2>2. QED
    BY <2>1 DEF RunsIn, Out
<1>2. QED
  BY <1>1, RunInvariance, PTL DEF Spec

(* sh_safe.c: whenever the entry of a function that the hub itself calls   *)
(* is patched, its slot leads past the jump.                               *)
THEOREM SafeCallsBypass ==
  ASSUME "restore" \notin Faults, "proxy" \notin Faults
  PROVE  Spec => []SafeCallsBypassHook
<1>1. ControlInv /\ CodeInv /\ RunInv => SafeCallsBypassHook
  <2> SUFFICES ASSUME ControlInv, CodeInv, RunInv, NEW t \in SafeTargets, code[t] # None
               PROVE  safe[t] = code[t] /\ enter[safe[t]] = "live"
    BY DEF SafeCallsBypassHook
  <2>1. t \in Targets
    BY SwitchAssumption
  <2>2. Mirrors(t) /\ Slot(t) /\ tree[t] = code[t]
    BY <2>1 DEF CodeInv, CodeMirrors, Mirrors, RunInv, SafePhases
  <2>3. CASE ~ Mid(t)
    BY <2>2, <2>3 DEF Mirrors, Slot
  <2>4. CASE Mid(t)
    <3>1. PICK c \in Callers : th[c].pc \in LockedPcs /\ th[c].t = t
      BY <2>4 DEF Mid
    <3>2. CodeOf(c) /\ SafeOf(c)
      BY DEF CodeInv, CodePhases, RunInv, SafePhases
    <3>3. th[c].pc \in {"proxy", "restore"} /\ code[t] = th[c].w
      BY <3>1, <3>2 DEF CodeOf
    <3>4. safe[t] = th[c].w /\ enter[th[c].w] = "live"
      BY <3>1, <3>2, <3>3 DEF CodeOf, SafeOf, Restored, LockedPcs, Inserted
    <3>5. QED
      BY <3>3, <3>4
  <2>5. QED
    BY <2>3, <2>4
<1>2. QED
  BY <1>1, RunInvariance, PTL DEF Spec

----------------------------------------------------------------------------
(* The refinement, step by step.                                           *)
OpOf(r) ==
  IF r.pc \in {"idle", "len"} THEN [kind |-> "idle"]
  ELSE [kind |-> r.kind, t |-> r.t, p |-> r.p, took |-> r.took]

HookedOf(t) == IF tree[t] = None \/ Mid(t) THEN {} ELSE funcs[tree[t]]

LEMMA Views ==
  /\ HookedView = [t \in Targets |-> HookedOf(t)]
  /\ OpView = [c \in Callers |-> OpOf(th[c])]
<1>1. ASSUME NEW t \in Targets PROVE Mid(t) <=> MidHook(t) \/ MidUnhook(t)
  BY DEF Mid, MidHook, MidUnhook, LockedPcs, Restored
<1>2. ASSUME NEW t \in Targets
      PROVE  HookedOf(t) = IF tree[t] = None \/ MidHook(t) \/ MidUnhook(t) THEN {} ELSE funcs[tree[t]]
  BY <1>1 DEF HookedOf
<1>3. QED
  BY <1>2, Zenon DEF HookedView, OpView, OpOf

LEMMA ViewsAfter ==
  /\ HookedView' = [t \in Targets |-> HookedOf(t)']
  /\ OpView' = [c \in Callers |-> OpOf(th'[c])]
<1>1. ASSUME NEW t \in Targets PROVE Mid(t)' <=> MidHook(t)' \/ MidUnhook(t)'
  BY DEF Mid, MidHook, MidUnhook, LockedPcs, Restored
<1>2. ASSUME NEW t \in Targets
      PROVE  HookedOf(t)' = IF tree'[t] = None \/ MidHook(t)' \/ MidUnhook(t)' THEN {} ELSE funcs'[tree'[t]]
  BY <1>1 DEF HookedOf
<1>3. HookedView' = [t \in Targets |-> HookedOf(t)']
  BY <1>2, Zenon DEF HookedView
<1>4. OpView' = [c \in Callers |-> OpOf(th'[c])]
  BY DEF OpView, OpOf
<1>5. QED
  BY <1>3, <1>4

(* What an operation under way looks like from above.                      *)
LEMMA OpUnderWay ==
  ASSUME TypeOK, NEW c \in Callers, th[c].pc \notin {"idle", "len"}
  PROVE  /\ OpView[c] = [kind |-> th[c].kind, t |-> th[c].t, p |-> th[c].p, took |-> th[c].took]
         /\ OpView[c].kind = th[c].kind /\ OpView[c].t = th[c].t /\ OpView[c].p = th[c].p
         /\ OpView[c].took = th[c].took /\ OpView[c] # Registry!Idle
<1>1. OpView[c] = [kind |-> th[c].kind, t |-> th[c].t, p |-> th[c].p, took |-> th[c].took]
  BY Views DEF OpOf
<1>2. th[c].kind \in {"hook", "unhook"}
  BY CallersAreInOps DEF Ops
<1>3. OpView[c].kind # Registry!Idle.kind
  BY <1>1, <1>2 DEF Registry!Idle
<1>4. QED
  BY <1>1, <1>3

LEMMA OpReturns ==
  ASSUME NEW c \in Callers, NEW d, Changes(c, d), d.pc \in {"idle", "len"}
  PROVE  OpView' = [OpView EXCEPT ![c] = Registry!Idle]
BY Views, ViewsAfter DEF Changes, OpOf, Registry!Idle

LEMMA OpStays ==
  ASSUME NEW c \in Callers, NEW d, Changes(c, d), th[c].pc \notin {"idle", "len"}, d.pc \notin {"idle", "len"},
         d.kind = th[c].kind, d.t = th[c].t, d.p = th[c].p, d.took = th[c].took
  PROVE  OpView' = OpView
<1>1. \A e \in Callers : OpOf(th'[e]) = OpOf(th[e])
  BY DEF Changes, OpOf
<1>2. QED
  BY <1>1, Views, ViewsAfter

LEMMA HookedStays ==
  ASSUME \A t \in Targets : HookedOf(t)' = HookedOf(t)
  PROVE  HookedView' = HookedView
BY Views, ViewsAfter

LEMMA HookedChanges ==
  ASSUME NEW t \in Targets, \A s \in Targets : s # t => HookedOf(s)' = HookedOf(s)
  PROVE  HookedView' = [HookedView EXCEPT ![t] = HookedOf(t)']
<1>1. HookedView \in [Targets -> UNION {{HookedOf(s)} : s \in Targets}]
  BY Views
<1>2. ASSUME NEW s \in Targets PROVE HookedOf(s)' = [HookedView EXCEPT ![t] = HookedOf(t)'][s]
  BY Views
<1>3. QED
  BY <1>2, Views, ViewsAfter

(* The operations of the registry, in the terms of ShSwitch.               *)
LEMMA RegistryOps ==
  ASSUME TypeOK, NEW c \in Callers, th[c].pc \notin {"idle", "len"}, th[c].t \in Targets,
         NEW t, NEW p, t = th[c].t, p = th[c].p
  PROVE  /\ Registry!Taken(t, p) <=> IF unique THEN HookedOf(t) # {} ELSE p \in HookedOf(t)
         /\ \A k : Registry!Pending(c, k) <=> th[c].kind = k /\ ~ th[c].took
<1>1. HookedView[t] = HookedOf(t) /\ HookedView = [s \in Targets |-> HookedOf(s)]
  BY Views
<1>2. /\ OpView[c].kind = th[c].kind /\ OpView[c].t = t /\ OpView[c].p = p
      /\ OpView[c].took = th[c].took /\ OpView[c] # Registry!Idle
  BY OpUnderWay
<1>3. \A k : Registry!Pending(c, k) <=> th[c].kind = k /\ ~ th[c].took
  BY <1>2 DEF Registry!Pending
<1>4. Registry!Taken(t, p) <=> IF unique THEN HookedOf(t) # {} ELSE p \in HookedOf(t)
  BY <1>1 DEF Registry!Taken
<1>5. QED
  BY <1>3, <1>4

LEMMA CallersImplement ==
  ASSUME ControlInv, NEW c \in Callers, Steps(c), unique' = unique,
         NEW t, NEW p, NEW w, t = th[c].t, p = th[c].p, w = th[c].w
  PROVE  \/ HookedView' = HookedView /\ OpView' = OpView /\ result' = result
         \/ \E k \in {"hook", "unhook"}, s \in Targets, q \in Proxies : Registry!Begin(c, k, s, q)
         \/ Registry!Take(c) \/ Registry!TakeAndReturn(c) \/ Registry!ReturnTaken(c) \/ Registry!Refuse(c)
<1> DEFINE Done ==
      \/ HookedView' = HookedView /\ OpView' = OpView /\ result' = result
      \/ \E k \in {"hook", "unhook"}, s \in Targets, q \in Proxies : Registry!Begin(c, k, s, q)
      \/ Registry!Take(c) \/ Registry!TakeAndReturn(c) \/ Registry!ReturnTaken(c) \/ Registry!Refuse(c)
<1>0. /\ TypeOK /\ InHand(c) /\ None \notin Sw
      /\ tree \in [Targets -> Sw \cup {None}] /\ funcs \in [Sw -> SUBSET Proxies]
      /\ items \in [Sw -> SUBSET Proxies]
      /\ \A s \in Targets : InTree(s)
  BY SwitchAssumption DEF ControlInv, CallerPhases, TreePhases, TypeOK
<1>1. th[c].pc # "idle" => t \in Targets /\ p \in Proxies /\ th[c] \in Ops
  BY <1>0, CallersAreInOps
<1>2. Idle.pc = "idle" /\ "idle" \notin HookPcs \cup UnhookPcs \cup OwningPcs \cup LockedPcs \cup Inserted
  BY DEF Idle, HookPcs, UnhookPcs, Inserted, OwningPcs, LockedPcs, Restored
<1>3. ASSUME th[c].pc \notin {"idle", "len"}
      PROVE  /\ Registry!Taken(t, p) <=> IF unique THEN HookedOf(t) # {} ELSE p \in HookedOf(t)
             /\ \A k : Registry!Pending(c, k) <=> th[c].kind = k /\ ~ th[c].took
             /\ OpView[c].t = t /\ OpView[c].p = p
             /\ OpView[c].kind = th[c].kind /\ OpView[c].took = th[c].took /\ OpView[c] # Registry!Idle
             /\ OpView[c] = [kind |-> th[c].kind, t |-> t, p |-> p, took |-> th[c].took]
             /\ Registry!Effect(c) <=>
                  \/ /\ th[c].kind = "hook" /\ ~ th[c].took /\ ~ Registry!Taken(t, p)
                     /\ HookedView' = [HookedView EXCEPT ![t] = HookedOf(t) \cup {p}]
                  \/ /\ th[c].kind = "unhook" /\ ~ th[c].took /\ Registry!Taken(t, p)
                     /\ HookedView' = [HookedView EXCEPT ![t] = IF unique THEN {} ELSE HookedOf(t) \ {p}]
  <2>1. th[c].t \in Targets /\ TypeOK
    BY <1>0, <1>1, <1>3
  <2>2. /\ OpView[c].t = t /\ OpView[c].p = p
        /\ OpView[c].kind = th[c].kind /\ OpView[c].took = th[c].took /\ OpView[c] # Registry!Idle
        /\ OpView[c] = [kind |-> th[c].kind, t |-> t, p |-> p, took |-> th[c].took]
    BY <1>3, <2>1, OpUnderWay
  <2>3. Registry!Taken(t, p) <=> IF unique THEN HookedOf(t) # {} ELSE p \in HookedOf(t)
    BY <1>3, <2>1, RegistryOps
  <2>4. \A k : Registry!Pending(c, k) <=> th[c].kind = k /\ ~ th[c].took
    BY <1>3, <2>1, RegistryOps
  <2>5. Registry!Effect(c) <=>
          \/ /\ th[c].kind = "hook" /\ ~ th[c].took /\ ~ Registry!Taken(t, p)
             /\ HookedView' = [HookedView EXCEPT ![t] = HookedOf(t) \cup {p}]
          \/ /\ th[c].kind = "unhook" /\ ~ th[c].took /\ Registry!Taken(t, p)
             /\ HookedView' = [HookedView EXCEPT ![t] = IF unique THEN {} ELSE HookedOf(t) \ {p}]
    <3>1. [HookedView EXCEPT ![t] = @ \cup {p}] = [HookedView EXCEPT ![t] = HookedOf(t) \cup {p}]
      BY <2>1, Views
    <3>2. Registry!Without(t, p) = IF unique THEN {} ELSE HookedOf(t) \ {p}
      BY <2>1, Views DEF Registry!Without
    <3>3. QED
      BY <2>2, <2>4, <3>1, <3>2, Zenon DEF Registry!Effect
  <2>6. QED
    BY <2>2, <2>3, <2>4, <2>5
<1>4. ASSUME NEW d, Changes(c, d), d.pc \in {"idle", "len"}
      PROVE  \A r : Result(c, r) => Registry!Return(c, r)
  BY <1>4, OpReturns DEF Result, Registry!Return
<1>5. th[c].pc \in {"find", "create", "insert"} \cup Inserted => th[c].kind = "hook" /\ ~ th[c].took
  BY <1>0 DEF InHand, HookPcs
(* The critical sections are one at a time.                                *)
<1>6. ASSUME lock = None
      PROVE  /\ \A s \in Targets : ~ Mid(s)
             /\ \A s \in Targets : tree[s] # None =>
                  HookedOf(s) = funcs[tree[s]] /\ funcs[tree[s]] # {} /\ tree[s] \in Sw
             /\ \A s \in Targets : tree[s] = None => HookedOf(s) = {}
  <2>1. \A s \in Targets : ~ Mid(s)
    BY <1>6, SwitchAssumption DEF ControlInv, LockPhases, Mid
  <2>2. QED
    BY <1>0, <2>1 DEF HookedOf, InTree
<1>7. ASSUME NEW s \in Targets, tree' = tree, Mid(s)' <=> Mid(s),
             tree[s] # None => funcs'[tree[s]] = funcs[tree[s]] \/ Mid(s)
      PROVE  HookedOf(s)' = HookedOf(s)
  BY <1>7 DEF HookedOf
<1>8. ASSUME NEW d, Changes(c, d), d.pc \in LockedPcs <=> th[c].pc \in LockedPcs, d.t = th[c].t \/ d.pc \notin LockedPcs
      PROVE  \A s \in Targets : Mid(s)' <=> Mid(s)
  BY <1>8 DEF Mid, Changes
<1>9. CASE Starts(c)
  <2>1. PICK d \in Ops :
          /\ Changes(c, d) /\ th[c].pc = "idle" /\ d.pc = (IF d.kind = "hook" THEN "find" ELSE "lock")
          /\ d.took = FALSE /\ Result(c, "none") /\ UNCHANGED <<lock, parts>>
    BY <1>9 DEF Starts
  <2>2. d.kind \in {"hook", "unhook"} /\ d.t \in Targets /\ d.p \in Proxies /\ d.pc \in {"find", "lock"}
    BY <2>1 DEF Ops
  <2>3. d.pc \notin LockedPcs /\ th[c].pc \notin LockedPcs
    BY <1>2, <2>1, <2>2 DEF LockedPcs, Inserted, Restored
  <2>4. HookedView' = HookedView
    BY <1>7, <1>8, <2>1, <2>3, HookedStays DEF parts
  <2>5. OpOf(d) = Registry!Op(d.kind, d.t, d.p, FALSE)
    BY <2>1, <2>2 DEF OpOf, Registry!Op
  <2>6. OpView[c] = Registry!Idle /\ OpView' = [OpView EXCEPT ![c] = Registry!Op(d.kind, d.t, d.p, FALSE)]
    BY <2>1, <2>5, Views, ViewsAfter DEF OpOf, Registry!Idle, Changes
  <2>7. Registry!Begin(c, d.kind, d.t, d.p)
    BY <2>1, <2>4, <2>6 DEF Registry!Begin, Result
  <2>8. QED
    BY <2>2, <2>7
<1>10. CASE LooksOn(c)
  <2>1. UNCHANGED <<lock, parts, result>>
    BY <1>10 DEF LooksOn
  <2>2. CASE th[c].pc = "len" /\ Changes(c, Idle)
    <3>1. Idle.pc \notin LockedPcs /\ th[c].pc \notin LockedPcs
      BY <1>2, <2>2 DEF LockedPcs, Inserted, Restored
    <3>2. HookedView' = HookedView
      BY <1>7, <1>8, <2>1, <2>2, <3>1, HookedStays DEF parts
    <3>3. \A e \in Callers : OpOf(th'[e]) = OpOf(th[e])
      BY <1>2, <2>2 DEF Changes, OpOf
    <3>4. QED
      BY <2>1, <3>2, <3>3, Views, ViewsAfter
  <2>3. CASE th[c].pc = "find" /\ \E d : Goes(c, d, "create", th[c].w, th[c].took, th[c].res)
    <3>1. PICK d : Goes(c, d, "create", th[c].w, th[c].took, th[c].res)
      BY <2>3
    <3>2. /\ Changes(c, d) /\ d.pc = "create" /\ d.kind = th[c].kind /\ d.t = th[c].t
          /\ d.p = th[c].p /\ d.took = th[c].took
      BY <3>1 DEF Goes
    <3>3. d.pc \notin LockedPcs /\ th[c].pc \notin LockedPcs
      BY <2>3, <3>2 DEF LockedPcs, Inserted, Restored
    <3>4. HookedView' = HookedView
      BY <1>7, <1>8, <2>1, <3>2, <3>3, HookedStays DEF parts
    <3>5. QED
      BY <2>1, <2>3, <3>2, <3>4, OpStays
  <2>4. QED
    BY <1>10, <2>2, <2>3 DEF LooksOn
<1>11. CASE Refuses(c)
  <2>1. /\ UNCHANGED <<lock, parts>> /\ Changes(c, Idle) /\ th[c].pc \in {"find", "create", "lock"}
        /\ t \in Targets
    BY <1>1, <1>11 DEF Refuses
  <2>2. Idle.pc \notin LockedPcs /\ th[c].pc \notin LockedPcs
    BY <1>2, <2>1 DEF LockedPcs, Inserted, Restored
  <2>3. HookedView' = HookedView
    BY <1>7, <1>8, <2>1, <2>2, HookedStays DEF parts
  <2>4. \A r : Result(c, r) => Registry!Return(c, r)
    BY <1>2, <1>4, <2>1
  <2>5. Registry!Refuse(c)
    <3>1. CASE th[c].pc = "find" /\ lock = None /\ unique /\ tree[t] # None /\ Result(c, "dup")
      <4>1. Registry!Taken(t, p) /\ Registry!Pending(c, "hook")
        BY <1>3, <1>5, <1>6, <2>1, <3>1
      <4>2. QED
        BY <1>3, <2>3, <2>4, <3>1, <4>1 DEF Registry!Refuse
    <3>2. CASE th[c].pc = "create" /\ Result(c, "fail")
      <4>1. Registry!Pending(c, "hook")
        BY <1>3, <1>5, <3>2
      <4>2. QED
        BY <1>3, <2>3, <2>4, <3>2, <4>1 DEF Registry!Refuse
    <3>3. CASE /\ th[c].pc = "lock" /\ lock = None /\ Result(c, "notfound")
               /\ tree[t] = None \/ (~ unique /\ p \notin items[tree[t]])
      <4>1. Registry!Pending(c, "unhook")
        BY <1>0, <1>3, <3>3 DEF InHand, UnhookPcs
      <4>2. ~ Registry!Taken(t, p)
        <5>1. CASE tree[t] = None
          BY <1>3, <1>6, <2>1, <3>3, <5>1
        <5>2. CASE tree[t] # None /\ ~ unique /\ p \notin items[tree[t]]
          <6>1. funcs[tree[t]] \subseteq items[tree[t]]
            BY <1>0, <2>1, <5>2 DEF InTree
          <6>2. QED
            BY <1>3, <1>6, <2>1, <3>3, <5>2, <6>1
        <5>3. QED
          BY <3>3, <5>1, <5>2
      <4>3. QED
        BY <1>3, <2>3, <2>4, <3>3, <4>1, <4>2 DEF Registry!Refuse
    <3>4. QED
      BY <1>11, <3>1, <3>2, <3>3 DEF Refuses
  <2>6. QED
    BY <2>5
<1>12. CASE Joins(c)
  <2>1. /\ lock = None /\ tree[t] # None /\ UNCHANGED <<lock, tree>> /\ t \in Targets
        /\ th[c].pc \in {"find", "insert"}
    BY <1>1, <1>12 DEF Joins
  <2>2. PICK d : Changes(c, d) /\ d.pc \in {"idle", "len"}
    BY <1>2, <1>12 DEF Joins, Goes
  <2>3. d.pc \notin LockedPcs /\ th[c].pc \notin LockedPcs
    BY <2>1, <2>2 DEF LockedPcs, Inserted, Restored
  <2>4. \A s \in Targets : (Mid(s)' <=> Mid(s)) /\ ~ Mid(s)
    BY <1>6, <1>8, <2>1, <2>2, <2>3
  <2>5. \A r : Result(c, r) => Registry!Return(c, r)
    BY <1>4, <2>2
  <2>6. Registry!Pending(c, "hook") /\ th[c].kind = "hook" /\ ~ th[c].took
    BY <1>3, <1>5, <2>1
  <2>7. HookedOf(t) = funcs[tree[t]] /\ tree[t] \in Sw /\ funcs[tree[t]] # {} /\ InTree(t)
    BY <1>0, <1>6, <2>1
  <2>8. CASE unique /\ UNCHANGED proxies /\ Result(c, "dup")
    <3>1. HookedView' = HookedView
      BY <1>7, <2>1, <2>4, <2>8, HookedStays DEF proxies
    <3>2. Registry!Taken(t, p)
      BY <1>3, <2>1, <2>7, <2>8
    <3>3. Registry!Refuse(c)
      BY <1>3, <2>1, <2>5, <2>6, <2>8, <3>1, <3>2 DEF Registry!Refuse
    <3>4. QED
      BY <3>3
  <2>9. CASE ~ unique /\ \E r \in ResultsOfAdd(tree[t], p) : AddProxy(tree[t], p, r) /\ Result(c, r)
    <3>1. PICK r \in ResultsOfAdd(tree[t], p) : AddProxy(tree[t], p, r) /\ Result(c, r)
      BY <2>9
    <3>2. CASE r # "ok"
      <4>1. HookedView' = HookedView
        BY <1>7, <2>1, <2>4, <3>1, <3>2, HookedStays DEF AddProxy, proxies
      <4>2. r = "fail" \/ (r = "dup" /\ Registry!Taken(t, p))
        BY <1>3, <2>1, <2>7, <2>9, <3>1, <3>2 DEF ResultsOfAdd
      <4>3. Registry!Refuse(c)
        BY <1>3, <2>1, <2>5, <2>6, <3>1, <4>1, <4>2 DEF Registry!Refuse
      <4>4. QED
        BY <4>3
    <3>3. CASE r = "ok"
      <4>1. p \notin funcs[tree[t]]
        BY <3>1, <3>3 DEF ResultsOfAdd
      <4>2. funcs' = [funcs EXCEPT ![tree[t]] = @ \cup {p}]
        BY <3>1, <3>3 DEF AddProxy
      <4>3. HookedOf(t)' = HookedOf(t) \cup {p}
        BY <1>0, <2>1, <2>4, <2>7, <4>2 DEF HookedOf
      <4>4. ASSUME NEW s \in Targets, s # t PROVE HookedOf(s)' = HookedOf(s)
        <5>1. tree[s] # tree[t]
          BY <2>1, <2>7, <4>4 DEF InTree
        <5>2. tree[s] # None => funcs'[tree[s]] = funcs[tree[s]]
          BY <1>0, <4>2, <5>1
        <5>3. QED
          BY <1>7, <2>1, <2>4, <5>2
      <4>5. HookedView' = [HookedView EXCEPT ![t] = HookedOf(t) \cup {p}]
        BY <2>1, <4>3, <4>4, HookedChanges
      <4>6. Registry!Effect(c)
        BY <1>3, <2>1, <2>6, <2>7, <2>9, <4>1, <4>5
      <4>7. Registry!TakeAndReturn(c)
        BY <2>5, <3>1, <3>3, <4>6 DEF Registry!TakeAndReturn
      <4>8. QED
        BY <4>7
    <3>4. QED
      BY <3>2, <3>3
  <2>10. QED
    BY <1>12, <2>8, <2>9 DEF Joins
<1>13. CASE Creates(c) \/ Inserts(c) \/ Proceeds(c) \/ Clears(c)
  <2>1. PICK d : /\ Changes(c, d) /\ d.kind = th[c].kind /\ d.t = th[c].t /\ d.p = th[c].p
                 /\ d.took = th[c].took /\ d.pc \notin {"idle", "len"} /\ th[c].pc \notin {"idle", "len"}
                 /\ Creates(c) => th[c].pc = "create" /\ d.pc = "insert"
                 /\ Inserts(c) => th[c].pc = "insert" /\ d.pc = "enter"
                 /\ Proceeds(c) => th[c].pc \in LockedPcs /\ d.pc \in LockedPcs
                 /\ Clears(c) => th[c].pc = "clear" /\ d.pc = "destroy"
    <3>1. CASE Creates(c)
      BY <3>1 DEF Creates, Goes, Inserts, Proceeds, Clears
    <3>2. CASE Inserts(c)
      BY <3>2 DEF Creates, Goes, Inserts, Proceeds, Clears
    <3>3. CASE Proceeds(c)
      <4>1. PICK d, pc, res :
              /\ Goes(c, d, pc, th[c].w, th[c].took, res)
              /\ th[c].pc \in LockedPcs \ {"clear"} /\ pc \in LockedPcs
        BY <3>3 DEF Proceeds, LockedPcs, Inserted, Restored
      <4>2. "create" \notin LockedPcs /\ "insert" \notin LockedPcs /\ "len" \notin LockedPcs
            /\ "idle" \notin LockedPcs
        BY DEF LockedPcs, Inserted, Restored
      <4>3. QED
        BY <4>1, <4>2 DEF Creates, Inserts, Clears, Goes
    <3>4. CASE Clears(c)
      BY <3>4 DEF Creates, Goes, Inserts, Proceeds, Clears
    <3>5. QED
      BY <1>13, <3>1, <3>2, <3>3, <3>4
  <2>2. result' = result /\ OpView' = OpView /\ t \in Targets
    BY <1>1, <1>13, <2>1, OpStays DEF Creates, Inserts, Proceeds, Clears
  <2>3. \A s \in Targets : HookedOf(s)' = HookedOf(s)
    <3>1. CASE Creates(c)
      <4>1. d.pc \notin LockedPcs /\ th[c].pc \notin LockedPcs
        BY <2>1, <3>1 DEF LockedPcs, Inserted, Restored
      <4>2. \A s \in Targets : Mid(s)' <=> Mid(s)
        BY <1>8, <2>1, <4>1
      <4>3. PICK v \in Sw : IsFresh(v) /\ funcs' = [funcs EXCEPT ![v] = IF unique THEN {p} ELSE {}]
        BY <3>1 DEF Creates
      <4>4. \A s \in Targets : tree[s] # v
        BY <4>3 DEF IsFresh
      <4>5. \A s \in Targets : tree[s] # None => funcs'[tree[s]] = funcs[tree[s]]
        BY <1>0, <4>3, <4>4
      <4>6. tree' = tree
        BY <3>1 DEF Creates
      <4>7. QED
        BY <1>7, <4>2, <4>5, <4>6
    <3>2. CASE Inserts(c)
      <4>1. lock = None /\ tree[t] = None /\ tree' = [tree EXCEPT ![t] = w] /\ UNCHANGED funcs
        BY <3>2 DEF Inserts, proxies
      <4>2. d.pc \in LockedPcs
        BY <2>1, <3>2 DEF LockedPcs, Inserted
      <4>3. \A s \in Targets : (Mid(s)' <=> s = t) /\ ~ Mid(s)
        BY <1>6, <2>1, <4>1, <4>2, MidAfter
      <4>4. QED
        BY <1>0, <2>2, <4>1, <4>3 DEF HookedOf
    <3>3. CASE Proceeds(c)
      <4>1. \A s \in Targets : Mid(s)' <=> Mid(s)
        BY <1>8, <2>1, <3>3
      <4>2. UNCHANGED <<tree, funcs>>
        BY <3>3 DEF Proceeds, proxies
      <4>3. QED
        BY <1>7, <4>1, <4>2
    <3>4. CASE Clears(c)
      <4>1. tree' = [tree EXCEPT ![t] = None] /\ UNCHANGED funcs
        BY <3>4 DEF Clears, proxies
      <4>2. th[c].pc \in LockedPcs /\ d.pc \notin LockedPcs
        BY <2>1, <3>4 DEF LockedPcs, Inserted, Restored
      <4>3. \A s \in Targets : (Mid(s) <=> s = t) /\ ~ Mid(s)'
        BY <2>1, <4>2, Alone, MidAfter
      <4>4. QED
        BY <1>0, <2>2, <4>1, <4>3 DEF HookedOf
    <3>5. QED
      BY <1>13, <3>1, <3>2, <3>3, <3>4
  <2>4. QED
    BY <2>2, <2>3, HookedStays
<1>14. CASE GivesUp(c)
  <2>1. /\ Changes(c, Idle) /\ Result(c, "fail") /\ tree' = [tree EXCEPT ![t] = None]
        /\ UNCHANGED funcs /\ th[c].pc \in Inserted
    BY <1>14 DEF GivesUp, proxies, Inserted
  <2>2. th[c].pc \in LockedPcs /\ Idle.pc \notin LockedPcs /\ t \in Targets
        /\ th[c].pc \notin {"idle", "len"}
    BY <1>1, <1>2, <2>1 DEF LockedPcs, Inserted
  <2>3. \A s \in Targets : (Mid(s) <=> s = t) /\ ~ Mid(s)'
    BY <2>1, <2>2, Alone, MidAfter
  <2>4. HookedView' = HookedView
    BY <1>0, <2>1, <2>2, <2>3, HookedStays DEF HookedOf
  <2>5. Registry!Pending(c, "hook") /\ Registry!Return(c, "fail")
    BY <1>2, <1>3, <1>4, <1>5, <2>1, <2>2
  <2>6. Registry!Refuse(c)
    BY <2>4, <2>5 DEF Registry!Refuse
  <2>7. QED
    BY <2>6
<1>15. CASE Completes(c)
  <2>1. /\ Changes(c, Idle) /\ Result(c, "ok") /\ tree' = tree /\ th[c].pc \in Inserted
    BY <1>15 DEF Completes, Inserted
  <2>2. th[c].pc \in LockedPcs /\ Idle.pc \notin LockedPcs /\ t \in Targets
        /\ th[c].pc \notin {"idle", "len"}
    BY <1>1, <1>2, <2>1 DEF LockedPcs, Inserted
  <2>3. \A s \in Targets : (Mid(s) <=> s = t) /\ ~ Mid(s)'
    BY <2>1, <2>2, Alone, MidAfter
  <2>4. tree[t] = w /\ w \in Sw /\ InTree(t) /\ funcs[w] = IF unique THEN {p} ELSE {}
    BY <1>0, <2>1, <2>2 DEF InHand, OwningPcs
  <2>5. funcs'[w] = {p} /\ \A u \in Sw : u # w => funcs'[u] = funcs[u]
    <3>1. CASE unique /\ UNCHANGED proxies
      BY <2>4, <3>1 DEF proxies
    <3>2. CASE th[c].pc = "proxy" /\ AddProxy(w, p, "ok")
      <4>1. ~ unique /\ funcs' = [funcs EXCEPT ![w] = @ \cup {p}]
        BY <1>0, <3>2 DEF InHand, AddProxy
      <4>2. QED
        BY <1>0, <2>4, <4>1
    <3>3. QED
      BY <1>15, <3>1, <3>2 DEF Completes
  <2>6. HookedOf(t) = {} /\ HookedOf(t)' = {p}
    BY <1>0, <2>1, <2>2, <2>3, <2>4, <2>5 DEF HookedOf
  <2>7. ASSUME NEW s \in Targets, s # t PROVE HookedOf(s)' = HookedOf(s)
    <3>1. tree[s] # None => tree[s] \in Sw /\ tree[s] # w
      BY <1>0, <2>2, <2>4, <2>7 DEF InTree
    <3>2. QED
      BY <1>7, <2>1, <2>3, <2>5, <2>7, <3>1
  <2>8. HookedView' = [HookedView EXCEPT ![t] = HookedOf(t) \cup {p}]
    <3>1. HookedView' = [HookedView EXCEPT ![t] = HookedOf(t)']
      BY <2>2, <2>7, HookedChanges
    <3>2. HookedOf(t)' = HookedOf(t) \cup {p}
      BY <2>6
    <3>3. QED
      BY <3>1, <3>2
  <2>9. ~ Registry!Taken(t, p) /\ th[c].kind = "hook" /\ ~ th[c].took /\ Registry!Return(c, "ok")
    BY <1>2, <1>3, <1>4, <1>5, <2>1, <2>2, <2>6
  <2>10. Registry!TakeAndReturn(c)
    BY <1>3, <2>2, <2>8, <2>9 DEF Registry!TakeAndReturn
  <2>11. QED
    BY <2>10
<1>16. CASE Disables(c)
  <2> DEFINE v == tree[t]
  <2>1. /\ th[c].pc = "lock" /\ lock = None /\ v # None /\ ~ unique /\ Changes(c, Idle) /\ Result(c, "ok")
        /\ tree' = tree /\ funcs' = [funcs EXCEPT ![v] = @ \ {p}] /\ funcs[v] \ {p} # {}
    BY <1>16 DEF Disables
  <2>2. /\ t \in Targets /\ v \in Sw /\ InTree(t) /\ HookedOf(t) = funcs[v]
        /\ th[c].kind = "unhook" /\ ~ th[c].took
    BY <1>0, <1>1, <1>6, <2>1 DEF InHand, UnhookPcs
  <2>3. Idle.pc \notin LockedPcs /\ th[c].pc \notin LockedPcs
    BY <1>2, <2>1 DEF LockedPcs, Inserted, Restored
  <2>4. \A s \in Targets : (Mid(s)' <=> Mid(s)) /\ ~ Mid(s)
    BY <1>6, <1>8, <2>1, <2>3
  <2>5. HookedOf(t)' = HookedOf(t) \ {p}
    BY <1>0, <2>1, <2>2, <2>4 DEF HookedOf
  <2>6. ASSUME NEW s \in Targets, s # t PROVE HookedOf(s)' = HookedOf(s)
    <3>1. tree[s] # v
      BY <2>1, <2>2, <2>6 DEF InTree
    <3>2. tree[s] # None => funcs'[tree[s]] = funcs[tree[s]]
      BY <1>0, <2>1, <3>1
    <3>3. QED
      BY <1>7, <2>1, <2>4, <3>2
  <2>7. HookedView' = [HookedView EXCEPT ![t] = HookedOf(t) \ {p}]
    <3>1. HookedView' = [HookedView EXCEPT ![t] = HookedOf(t)']
      BY <2>2, <2>6, HookedChanges
    <3>2. QED
      BY <2>5, <3>1
  <2>8. Registry!Return(c, "ok")
    BY <1>2, <1>4, <2>1
  <2>9. CASE p \in funcs[v]
    <3>1. Registry!Taken(t, p)
      BY <1>3, <2>1, <2>2, <2>9
    <3>2. Registry!TakeAndReturn(c)
      BY <1>3, <2>1, <2>2, <2>7, <2>8, <3>1 DEF Registry!TakeAndReturn
    <3>3. QED
      BY <3>2
  <2>10. CASE p \notin funcs[v]
    <3>1. ~ Registry!Taken(t, p) /\ Registry!Pending(c, "unhook") /\ HookedView[t] # {}
      BY <1>3, <2>1, <2>2, <2>10, Views
    <3>2. \A s \in Targets : HookedOf(s)' = HookedOf(s)
      BY <2>2, <2>5, <2>6, <2>10
    <3>3. HookedView' = HookedView
      BY <3>2, HookedStays
    <3>4. Registry!Refuse(c)
      BY <1>3, <2>1, <2>8, <3>1, <3>3 DEF Registry!Refuse
    <3>5. QED
      BY <3>4
  <2>11. QED
    BY <2>9, <2>10
<1>17. CASE Takes(c)
  <2> DEFINE v == tree[t]
  <2>1. /\ th[c].pc = "lock" /\ lock = None /\ v # None /\ tree' = tree /\ result' = result
        /\ \/ unique /\ funcs' = funcs
           \/ ~ unique /\ funcs' = [funcs EXCEPT ![v] = {}] /\ funcs[v] \ {p} = {}
    BY <1>17 DEF Takes
  <2>2. /\ t \in Targets /\ v \in Sw /\ InTree(t) /\ HookedOf(t) = funcs[v] /\ funcs[v] # {}
        /\ th[c].kind = "unhook" /\ ~ th[c].took
    BY <1>0, <1>1, <1>6, <2>1 DEF InHand, UnhookPcs
  <2>3. PICK d : Goes(c, d, "restore", v, TRUE, th[c].res)
    BY <1>17 DEF Takes
  <2>4. /\ Changes(c, d) /\ d.pc = "restore" /\ d.t = t /\ d.p = p /\ d.kind = th[c].kind /\ d.took = TRUE
        /\ d.pc \in LockedPcs
    BY <2>3 DEF Goes, LockedPcs, Restored
  <2>5. \A s \in Targets : (Mid(s)' <=> s = t) /\ ~ Mid(s)
    BY <1>6, <2>1, <2>4, MidAfter
  <2>6. HookedOf(t)' = {} /\ HookedOf(t) \ {p} = (IF unique THEN HookedOf(t) \ {p} ELSE {})
    BY <2>1, <2>2, <2>5 DEF HookedOf
  <2>7. ASSUME NEW s \in Targets, s # t PROVE HookedOf(s)' = HookedOf(s)
    <3>1. tree[s] # v
      BY <2>1, <2>2, <2>7 DEF InTree
    <3>2. tree[s] # None => funcs'[tree[s]] = funcs[tree[s]]
      BY <1>0, <2>1, <3>1
    <3>3. QED
      BY <1>7, <2>1, <2>5, <2>7, <3>2
  <2>8. HookedView' = [HookedView EXCEPT ![t] = IF unique THEN {} ELSE HookedOf(t) \ {p}]
    <3>1. HookedView' = [HookedView EXCEPT ![t] = HookedOf(t)']
      BY <2>2, <2>7, HookedChanges
    <3>2. HookedOf(t)' = (IF unique THEN {} ELSE HookedOf(t) \ {p})
      BY <2>6
    <3>3. QED
      BY <3>1, <3>2
  <2>9. Registry!Taken(t, p)
    BY <1>3, <2>1, <2>2
  <2>10. OpView' = [OpView EXCEPT ![c].took = TRUE]
    <3>1. OpView[c] = [kind |-> th[c].kind, t |-> t, p |-> p, took |-> th[c].took]
      BY <1>3, <2>1
    <3>2. OpOf(d) = [kind |-> th[c].kind, t |-> t, p |-> p, took |-> d.took]
      BY <2>4 DEF OpOf
    <3>3. \A k, y, z : [[kind |-> k, t |-> t, p |-> p, took |-> y] EXCEPT !.took = z] =
                        [kind |-> k, t |-> t, p |-> p, took |-> z]
      OBVIOUS
    <3>4. OpOf(d) = [OpView[c] EXCEPT !.took = d.took]
      BY <3>1, <3>2, <3>3
    <3>5. OpView' = [OpView EXCEPT ![c] = OpOf(d)]
      BY <2>4, Views, ViewsAfter DEF Changes
    <3>6. OpView' = [OpView EXCEPT ![c].took = d.took]
      BY <3>4, <3>5
    <3>7. d.took = TRUE
      BY <2>4
    <3>8. QED
      BY <3>6, <3>7, Zenon
  <2>11. Registry!Take(c)
    BY <1>3, <2>1, <2>2, <2>8, <2>9, <2>10 DEF Registry!Take
  <2>12. QED
    BY <2>11
<1>18. CASE Destroys(c)
  <2>1. th[c].pc = "destroy" /\ Changes(c, Idle) /\ Result(c, th[c].res) /\ UNCHANGED <<tree, funcs>>
    BY <1>18 DEF Destroys, proxies
  <2>2. th[c].took /\ th[c].kind = "unhook" /\ th[c].res \in {"ok", "fail"}
    BY <1>0, <2>1 DEF InHand, UnhookPcs
  <2>3. Idle.pc \notin LockedPcs /\ th[c].pc \notin LockedPcs
    BY <1>2, <2>1 DEF LockedPcs, Inserted, Restored
  <2>4. HookedView' = HookedView
    BY <1>7, <1>8, <2>1, <2>3, HookedStays
  <2>5. Registry!Return(c, th[c].res)
    BY <1>2, <1>4, <2>1
  <2>6. Registry!ReturnTaken(c)
    BY <1>3, <2>1, <2>2, <2>4, <2>5 DEF Registry!ReturnTaken
  <2>7. QED
    BY <2>6
<1>19. QED
  BY <1>9, <1>10, <1>11, <1>12, <1>13, <1>14, <1>15, <1>16, <1>17, <1>18 DEF Steps

(* Registry!Spec: hooking and unhooking are atomic, and report what they   *)
(* did, for any number of callers, functions and proxies, in either mode   *)
(* and whatever fails.                                                     *)
THEOREM SwitchesImplementRegistry == Spec => ImplementsRegistry
<1>1. Init => Registry!Init
  <2> SUFFICES ASSUME Init PROVE Registry!Init
    OBVIOUS
  <2>1. unique \in BOOLEAN
    BY SwitchAssumption DEF Init
  <2>2. /\ \A c \in Callers : OpOf(th[c]) = Registry!Idle
        /\ \A t \in Targets : HookedOf(t) = {}
        /\ result = [c \in Callers |-> "none"]
    BY DEF Init, Idle, OpOf, Registry!Idle, HookedOf
  <2>3. QED
    BY <2>1, <2>2, Views DEF Registry!Init
<1>2. ControlInv /\ [Next]_vars => [Registry!Next]_Registry!vars
  <2> SUFFICES ASSUME ControlInv, [Next]_vars PROVE Registry!Next \/ UNCHANGED Registry!vars
    OBVIOUS
  <2>1. ASSUME NEW c \in Callers, CallerStep(c) PROVE Registry!Next \/ UNCHANGED Registry!vars
    <3>1. Steps(c) /\ unique' = unique
      BY <2>1, CallerSteps DEF ControlInv
    <3>2. \/ HookedView' = HookedView /\ OpView' = OpView /\ result' = result
          \/ \E k \in {"hook", "unhook"}, s \in Targets, q \in Proxies : Registry!Begin(c, k, s, q)
          \/ Registry!Take(c) \/ Registry!TakeAndReturn(c) \/ Registry!ReturnTaken(c) \/ Registry!Refuse(c)
      BY <3>1, CallersImplement
    <3>3. QED
      BY <3>1, <3>2 DEF Registry!Next, Registry!vars
  <2>2. ASSUME UNCHANGED <<unique, tree, funcs, th, result>> PROVE UNCHANGED Registry!vars
    <3>1. /\ \A s \in Targets : HookedOf(s)' = HookedOf(s)
          /\ \A c \in Callers : OpOf(th'[c]) = OpOf(th[c])
      BY <2>2 DEF HookedOf, Mid
    <3>2. HookedView' = HookedView /\ OpView' = OpView
      BY <3>1, Views, ViewsAfter
    <3>3. QED
      BY <2>2, <3>2 DEF Registry!vars
  <2>3. ASSUME NEW x \in Runners, RunnerStep(x) PROVE UNCHANGED Registry!vars
    BY <2>2, <2>3, RunnerSteps DEF ControlInv, parts
  <2>4. ASSUME NEW w \in Sw, Reap(w) \/ CoolEnter(w) PROVE UNCHANGED Registry!vars
    BY <2>2, <2>4 DEF Reap, CoolEnter, proxies
  <2>5. ASSUME NEW lib, Dlclose(lib) PROVE Registry!Next
    <3> DEFINE gone == {w \in Sw : \E t \in Targets : LibOf[t] = lib /\ tree[t] = w}
    <3>1. /\ UNCHANGED <<unique, th, result>>
          /\ \A c \in Callers : th[c].pc # "idle" => LibOf[th[c].t] # lib
          /\ \A s \in Targets : tree'[s] = IF LibOf[s] = lib THEN None ELSE tree[s]
          /\ \A u \in Sw : u \notin gone => funcs'[u] = funcs[u]
      BY <2>5 DEF Dlclose, At
    <3>2. PICK t \in Targets : LibOf[t] = lib
      BY <2>5 DEF Dlclose
    <3>3. /\ tree \in [Targets -> Sw \cup {None}] /\ None \notin Sw /\ TypeOK
          /\ \A s \in Targets : InTree(s)
      BY SwitchAssumption DEF ControlInv, TypeOK, TreePhases
    <3>4. ASSUME NEW s \in Targets
          PROVE  HookedOf(s)' = IF LibOf[s] = lib THEN {} ELSE HookedOf(s)
      <4>1. Mid(s)' <=> Mid(s)
        BY <3>1 DEF Mid
      <4>2. LibOf[s] # lib /\ tree[s] # None => tree[s] \in Sw /\ tree[s] \notin gone
        BY <3>3 DEF InTree
      <4>3. QED
        BY <3>1, <4>1, <4>2 DEF HookedOf
    <3>5. HookedView' = [s \in Targets |-> IF LibOf[s] = LibOf[t] THEN {} ELSE HookedView[s]]
      BY <3>2, <3>4, Views, ViewsAfter
    <3>6. OpView' = OpView
      BY <3>1, Views, ViewsAfter
    <3>7. ASSUME NEW c \in Callers, OpView[c] # Registry!Idle PROVE LibOf[OpView[c].t] # LibOf[t]
      <4>1. th[c].pc \notin {"idle", "len"}
        BY <3>7, Views DEF OpOf, Registry!Idle
      <4>2. OpView[c].t = th[c].t
        BY <3>3, <4>1, OpUnderWay
      <4>3. QED
        BY <3>1, <3>2, <4>1, <4>2
    <3>8. Registry!Close(LibOf[t])
      BY <3>1, <3>5, <3>6, <3>7 DEF Registry!Close
    <3>9. QED
      BY <3>1, <3>8 DEF Registry!Next
  <2>6. CASE UNCHANGED vars
    BY <2>2, <2>6 DEF vars, parts
  <2>7. QED
    BY <2>1, <2>3, <2>4, <2>5, <2>6 DEF Next
<1>3. QED
  BY <1>1, <1>2, ControlInvariance, PTL DEF Spec, ImplementsRegistry, Registry!Spec
===============================================================================
