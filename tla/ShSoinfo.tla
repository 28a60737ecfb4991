------------------------------- MODULE ShSoinfo -------------------------------
(***************************************************************************)
(* How ShadowHook finds the fields of the linker's struct soinfo, whose    *)
(* layout differs from one Android to the next: it reads the soinfo of a   *)
(* library it knows word by word (sh_linker_soinfo_memory_scan_pre()) and  *)
(* looks for two groups of fields.  A word is one of the values that the   *)
(* scan compares with ("phdr", "phnum", "bias", "ld", "name", "zero") or   *)
(* "other"; offsets count words.                                           *)
(***************************************************************************)
EXTENDS Integers

CONSTANTS
  ScanWords,   (* how far the scan goes: 96                                 *)
  NotFound     (* SIZE_MAX                                                  *)

ASSUME SoinfoAssumption == ScanWords \in Nat /\ NotFound \notin Int

(* phdr, phnum                                                             *)
IsPhdr(mem, i) == mem[i] = "phdr" /\ mem[i + 1] = "phnum"

(* l_addr, l_name, l_ld, l_next, l_prev, constructors_called, load_bias    *)
IsLinkMap(mem, i) ==
  /\ mem[i] = "bias" /\ mem[i + 1] = "name" /\ mem[i + 2] = "ld"
  /\ mem[i + 5] = "zero" /\ mem[i + 6] = "bias"

(* Seven words that neither group can begin in are left out together.      *)
IsDull(mem, i) == \A k \in 0 .. 6 : mem[i + k] \notin {"phdr", "bias"}

(* Each group is in a soinfo once, outside of the other group, and within  *)
(* reach of the scan.                                                      *)
HasFields(mem, phdr, bias) ==
  /\ \E last \in DOMAIN mem : DOMAIN mem = 0 .. last
  /\ {phdr, bias} \subseteq {i \in 0 .. ScanWords - 1 : i + 6 \in DOMAIN mem}
  /\ phdr \notin bias .. bias + 6
  /\ \A i \in DOMAIN mem : i + 6 \in DOMAIN mem =>
       /\ IsPhdr(mem, i) <=> i = phdr
       /\ IsLinkMap(mem, i) <=> i = bias

(* The scan ends when both groups are found, at its limit, or with a       *)
(* signal, where the memory is not readable.                               *)
Ends(mem, s) ==
  \/ NotFound \notin {s.phdr, s.bias}
  \/ s.at >= ScanWords
  \/ s.at + 6 \notin DOMAIN mem

(* Mutant: the step of the loop comes on top of the words left out.        *)
TurnTooFar(mem, s) ==
  IF Ends(mem, s) THEN s
  ELSE IF s.phdr = NotFound /\ IsPhdr(mem, s.at) THEN [s EXCEPT !.phdr = s.at, !.at = @ + 2]
  ELSE IF s.bias = NotFound /\ IsLinkMap(mem, s.at) THEN [s EXCEPT !.bias = s.at, !.at = @ + 7]
  ELSE [s EXCEPT !.at = @ + IF IsDull(mem, s.at) THEN 8 ELSE 1]

(* One turn of the loop: s is where it is and what it has found.           *)
Turn(mem, s) ==
  IF Ends(mem, s) THEN s
  ELSE IF s.phdr = NotFound /\ IsPhdr(mem, s.at) THEN [s EXCEPT !.phdr = s.at, !.at = @ + 2]
  ELSE IF s.bias = NotFound /\ IsLinkMap(mem, s.at) THEN [s EXCEPT !.bias = s.at, !.at = @ + 7]
  ELSE [s EXCEPT !.at = @ + IF IsDull(mem, s.at) THEN 7 ELSE 1]

(* The offsets of both groups in the memory of a soinfo.                   *)
Scan(mem) ==
  LET after[k \in 0 .. ScanWords] ==
        IF k = 0 THEN [at |-> 0, phdr |-> NotFound, bias |-> NotFound]
        ELSE Turn(mem, after[k - 1])
  IN after[ScanWords]
===============================================================================
