----------------------------- MODULE HookRegistry -----------------------------
(***************************************************************************)
(* What sh_switch_hook() and sh_switch_unhook() promise their callers: the *)
(* set of proxies of every function is one map that concurrent operations  *)
(* change one at a time.  A hook that reports success took effect exactly  *)
(* once between its call and its return; one that reports HOOK_DUP found   *)
(* the function taken, and one that fails otherwise left no trace.  After  *)
(* an unhook that reports success the proxy is out of the map, after one   *)
(* that reports UNHOOK_NOTFOUND it was not in it.  Locks, trampolines and  *)
(* patched instructions are below this level.                              *)
(***************************************************************************)
CONSTANTS Callers, Targets, Proxies,
          LibOf       (* per function: the library it lies in               *)

VARIABLES
  unique,   (* SHADOWHOOK_IS_UNIQUE_MODE, which never changes               *)
  hooked,   (* per function: the proxies its callers are sent through       *)
  op,       (* per caller: the operation it is inside of                    *)
  result    (* per caller: what its last operation returned                 *)

vars == <<unique, hooked, op, result>>

Idle == [kind |-> "idle"]
Op(k, t, p, took) == [kind |-> k, t |-> t, p |-> p, took |-> took]

Init ==
  /\ unique \in BOOLEAN
  /\ hooked = [t \in Targets |-> {}]
  /\ op = [c \in Callers |-> Idle]
  /\ result = [c \in Callers |-> "none"]

Begin(c, k, t, p) ==
  /\ op[c] = Idle
  /\ op' = [op EXCEPT ![c] = Op(k, t, p, FALSE)]
  /\ result' = [result EXCEPT ![c] = "none"]
  /\ UNCHANGED hooked

(* A function in unique mode takes one proxy, in shared mode any number of *)
(* different ones; what unhook takes away follows suit.                    *)
Taken(t, p)   == IF unique THEN hooked[t] # {} ELSE p \in hooked[t]
Without(t, p) == IF unique THEN {} ELSE hooked[t] \ {p}

Pending(c, k) == op[c] # Idle /\ op[c].kind = k /\ ~ op[c].took

Effect(c) ==
  LET t == op[c].t
      p == op[c].p
  IN \/ /\ Pending(c, "hook") /\ ~ Taken(t, p)
        /\ hooked' = [hooked EXCEPT ![t] = @ \cup {p}]
     \/ /\ Pending(c, "unhook") /\ Taken(t, p)
        /\ hooked' = [hooked EXCEPT ![t] = Without(t, p)]

Return(c, r) ==
  /\ op' = [op EXCEPT ![c] = Idle]
  /\ result' = [result EXCEPT ![c] = r]

Take(c) ==
  /\ Effect(c)
  /\ op' = [op EXCEPT ![c].took = TRUE]
  /\ UNCHANGED result

TakeAndReturn(c) == Effect(c) /\ Return(c, "ok")

(* The effect lies behind.  An unhook may still report that it did not     *)
(* find its own branch at the function's entry.                            *)
ReturnTaken(c) ==
  /\ op[c] # Idle /\ op[c].took
  /\ Return(c, "ok") \/ (op[c].kind = "unhook" /\ Return(c, "fail"))
  /\ UNCHANGED hooked

(* The operations without effect: what they report is true at the moment   *)
(* they report it.  In shared mode the second unhook of a proxy may succeed*)
(* like the first one, as long as the function has another proxy.          *)
Refuse(c) ==
  /\ \/ /\ Pending(c, "hook") /\ Taken(op[c].t, op[c].p)
        /\ Return(c, "dup")
     \/ /\ Pending(c, "unhook") /\ ~ Taken(op[c].t, op[c].p)
        /\ Return(c, "notfound")
     \/ /\ Pending(c, "unhook") /\ ~ Taken(op[c].t, op[c].p)
        /\ ~ unique /\ hooked[op[c].t] # {}
        /\ Return(c, "ok")
     \/ /\ Pending(c, "hook")
        /\ Return(c, "fail")
  /\ UNCHANGED hooked

(* dlclose() forgets the hooks of the functions it unloads; nobody is in   *)
(* the middle of hooking one of them.                                      *)
Close(lib) ==
  /\ \A c \in Callers : op[c] # Idle => LibOf[op[c].t] # lib
  /\ hooked' = [t \in Targets |-> IF LibOf[t] = lib THEN {} ELSE hooked[t]]
  /\ UNCHANGED <<op, result>>

Next ==
  /\ UNCHANGED unique
  /\ \/ \E c \in Callers :
          \/ \E k \in {"hook", "unhook"}, t \in Targets, p \in Proxies : Begin(c, k, t, p)
          \/ Take(c)
          \/ TakeAndReturn(c)
          \/ ReturnTaken(c)
          \/ Refuse(c)
     \/ \E t \in Targets : Close(LibOf[t])

Spec == Init /\ [][Next]_vars
===============================================================================
