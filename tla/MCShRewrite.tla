----------------------------- MODULE MCShRewrite -----------------------------
(***************************************************************************)
(* Functions to hook: one instruction at every place of the head, that     *)
(* refers to every place inside it and to places outside, another one of   *)
(* every kind after or before it, and plain instructions around them.      *)
(***************************************************************************)
EXTENDS ShRewrite

(* While a function is put together, imm is the number of the instruction  *)
(* that is referred to: 0 is in front of the function, Far is behind it.   *)
Far == 99
I(kind, size, to, len) == Inst(kind, size, FALSE, to, len)
Rest(size, id)         == Inst("IGNORED", size, FALSE, id, 0)
Rests(size, m)         == [i \in 1 .. m |-> Rest(size, 20 + i)]

HasAim == {"B", "B_COND", "BL", "BLX", "CBZ", "ADR", "LDR", "LDR_PC", "PLD", "VLDR"}

Aim(arch, start, insts) ==
  LET place(i) == start + SizeBefore(insts, i)
      to(k)    == IF k = 0 THEN start - 2 ELSE IF k = Far THEN start + 40 ELSE place(k)
      aim(inst, a) ==
        IF inst.kind \notin HasAim THEN inst
        ELSE [inst EXCEPT !.imm = to(@) - Target(arch, [inst EXCEPT !.imm = 0], a).of]
      aimAll(inst, a) ==
        IF inst.kind # "IT" THEN aim(inst, a)
        ELSE [inst EXCEPT !.insts =
               [k \in DOMAIN @ |-> aim(@[k], a + 1 + SizeBefore(inst.insts, k))]]
  IN [arch |-> arch, start |-> start, insts |-> [i \in DOMAIN insts |-> aimAll(insts[i], place(i))]]

(* A head of m instructions, with these two at these places.               *)
HeadWith(m, places, inst, other) ==
  [k \in 1 .. m |-> IF k = places[1] THEN inst ELSE IF k = places[2] THEN other ELSE Rest(1, 10 + k)]

----------------------------------------------------------------------------
A64Branches == {I(kind, 1, to, 0) : kind \in {"B", "B_COND", "BL", "CBZ"}, to \in {0, 1, 2, 3, 4, 5, Far}}
A64Others ==
  {Rest(1, 9), I("B_COND", 1, 3, 0), I("ADR", 1, Far, 0), I("ADR", 1, 2, 0), I("LDR", 1, Far, 1),
   I("LDR", 1, 6, 2), I("LDR", 1, 4, 1), I("PLD", 1, 1, 1), I("VLDR", 1, Far, 4)}
A64Functions ==
  {Aim("arm64", 200, HeadWith(6, places, inst, other)) :
     places \in {<<1, 2>>, <<2, 1>>, <<2, 4>>, <<3, 1>>, <<3, 4>>, <<4, 2>>},
     inst \in A64Branches, other \in A64Others}
  \cup {Aim("arm64", 200, Rests(1, m)) : m \in 1 .. 4}

A32Branches == {Inst(kind, 1, c, to, 0) : kind \in {"B", "BL"}, c \in BOOLEAN, to \in {0, 1, 2, 3, Far}}
A32Others ==
  {Inst(kind, 1, c, Far, 1) : kind \in {"ADR", "LDR", "LDR_PC"}, c \in BOOLEAN}
  \cup {Inst(kind, 1, c, 0, 1) : kind \in {"LDR_REG", "LDR_REG_PC", "ADD", "ADD_PC", "MOV", "MOV_PC",
                                           "BX", "IGNORED"}, c \in BOOLEAN}
  \cup {I("BLX", 1, Far, 0), I("LDR", 1, 2, 1), I("LDR_PC", 1, 1, 1), I("ADR", 1, 1, 0)}
A32Functions ==
  {Aim("arm", 200, HeadWith(4, places, inst, other)) :
     places \in {<<1, 2>>, <<2, 1>>}, inst \in A32Branches \cup A32Others, other \in A32Others}
  \cup {Aim("arm", 200, Rests(1, m)) : m \in 1 .. 2}

(* The third and the fourth instruction of a Thumb head may be behind it.  *)
ThumbBranches ==
  {I(kind, 1, to, 0) : kind \in {"B", "B_COND", "CBZ"}, to \in {0, 1, 2, 3, Far}}
  \cup {I(kind, 2, to, 0) : kind \in {"B", "B_COND", "BL"}, to \in {0, 1, 2, 3, Far}}
  \cup {I("BLX", 2, Far, 0)}
ThumbOthers ==
  {Rest(1, 9), Rest(2, 9), I("ADD", 1, 0, 0), I("MOV", 1, 0, 0), I("ADR", 1, Far, 0), I("ADR", 2, Far, 0),
   I("LDR", 1, Far, 1), I("LDR", 2, Far, 2), I("LDR", 2, 1, 1), I("LDR_PC", 2, Far, 1), I("PLD", 2, 1, 1),
   I("VLDR", 2, Far, 2), I("TB", 2, 0, 0), I("B_COND", 1, 2, 0)}
  \cup {ITBlock(<<I("LDR", size, Far, 1), Rest(size, 8), I("B", 1, size, 0)>>, then) :
          size \in 1 .. 2, then \in {<<TRUE, FALSE, TRUE>>, <<TRUE, TRUE, FALSE>>}}
  \cup {ITBlock(<<Rest(1, 8), I("BL", 2, to, 0)>>, <<~ then, then>>) : to \in {1, Far}, then \in BOOLEAN}
  \cup {ITBlock(<<I("BL", 2, 1, 0)>>, <<TRUE>>), ITBlock(<<I("LDR", 1, 1, 1)>>, <<FALSE>>)}
ThumbFunctions ==
  {Aim("thumb", start, HeadWith(6, places, inst, other)) :
     start \in 200 .. 201, places \in {<<1, 2>>, <<2, 1>>, <<2, 3>>, <<3, 1>>},
     inst \in ThumbBranches, other \in ThumbOthers}
  \cup {Aim("thumb", start, Rests(size, m)) : start \in 200 .. 201, size \in 1 .. 2, m \in 1 .. 5}
  \cup {Aim("thumb", 200, <<I("BX", 1, 0, 0), Rest(1, 9)>>)}

MCFunctions == A64Functions \cup A32Functions \cup ThumbFunctions
===============================================================================
