----------------------------- MODULE ShHubProofs -----------------------------
(***************************************************************************)
(* What is proved about the hub: for any number of threads, hubs, proxies  *)
(* and stacks, with signal handlers that call hooked functions between any *)
(* two steps unless a theorem excludes them.                               *)
(***************************************************************************)
EXTENDS ShHub, FiniteSetTheorems, WellFoundedInduction, TLAPS

Pcs == {"enter", "create", "set", "check", "find", "write", "proxy", "prev", "orig"}

(* The steps of sh_hub_push_stack(), and those of a proxy.                 *)
Pushing == {"enter", "create", "set", "check", "find", "write"}
Running == {"proxy", "prev"}

Act == [hub : Hubs, ra : CallSites \cup Proxies, pc : Pcs, func : Proxies \cup {NoFunc},
        rest : Seq(Proxies), scan : 1 .. NSlots + 1, stk : Stacks \cup {NoStack},
        owns : BOOLEAN, via : {"chain", "reserved", "nostack", "recursive", "full"},
        stable : SUBSET Proxies, visited : SUBSET Proxies]

Types ==
  /\ list \in [Hubs -> Seq(Proxies)]
  /\ enabled \in [Hubs -> SUBSET Proxies]
  /\ used \subseteq Stacks
  /\ frames \in [Stacks -> Seq(Frame \cup {Unwritten})]
  /\ tls \in [Threads -> Stacks \cup {NoStack}]
  /\ reserved \subseteq exiting /\ exiting \subseteq Threads
  /\ act \in [Threads -> Seq(Act)]
  /\ \A t \in Threads : Len(act[t]) <= MaxDepth

(* An item is in the list of a hub once, and stays when it is disabled.    *)
IsInjectiveSeq(l) == \A i, j \in 1 .. Len(l) : l[i] = l[j] => i = j

ListsAreSound ==
  \A h \in Hubs : IsInjectiveSeq(list[h]) /\ enabled[h] \subseteq Range(list[h])

(* The return address tells who pushed a frame: the calls of a chain       *)
(* return into a proxy.                                                    *)
RaPhase(a) ==
  /\ a.pc \in Pushing => a.ra \in CallSites
  /\ a.pc \in Running => (a.owns <=> a.ra \in CallSites)
  /\ a.pc \notin Running => ~ a.owns

(* What an activation knows of the stacks, own being the TLS value.        *)
StackPhase(a, own) ==
  /\ a.pc \in {"enter", "create"} => a.stk = NoStack
  /\ a.pc \in (Pushing \cup Running) \ {"enter", "create"} => a.stk # NoStack
  /\ a.stk # NoStack /\ a.pc # "set" => a.stk = own
  /\ a.pc = "set" => a.stk # own

(* A stack is being created only while no activation below has seen one in *)
(* the TLS, since the TLS would be set; and it is another one each time.   *)
StacksDiffer(calls) ==
  \A i \in 1 .. Len(calls) :
    /\ calls[i].pc \in {"create", "set"} =>
         \A j \in 1 .. i - 1 : calls[j].stk = NoStack \/ calls[j].pc = "set"
    /\ calls[i].pc = "set" =>
         \A j \in 1 .. Len(calls) : j # i => calls[j].stk # calls[i].stk

(* The traversal of the list by push: what is left of the list snapshot    *)
(* is still a suffix of the list, and has all the stable proxies in it.    *)
Searches(a, l) ==
  \E m \in 0 .. Len(l) :
    /\ a.rest = SubSeq(l, m + 1, Len(l))
    /\ \A p \in a.stable : \E j \in m + 1 .. Len(l) : l[j] = p
    /\ a.pc = "write" => m < Len(l) /\ a.func = l[m + 1]

SearchPhase(a, lists, on) ==
  /\ a.stable \subseteq on[a.hub]
  /\ a.pc \in {"find", "write"} => Searches(a, lists[a.hub])
  /\ a.pc = "orig" /\ a.via = "chain" => a.stable \subseteq a.visited

(* The traversal of the frame's list l by the proxies: those before the    *)
(* proxy that runs have been dealt with, those behind it are to come.      *)
InChain(a, l) ==
  \E k \in 1 .. Len(l) : \E m \in k .. Len(l) :
    /\ l[k] = a.func
    /\ \A p \in a.visited : \E j \in 1 .. k : l[j] = p
    /\ \A p \in a.stable : p \in a.visited \/ \E j \in m + 1 .. Len(l) : l[j] = p
    /\ a.pc = "prev" => a.rest = SubSeq(l, m + 1, Len(l))

(* None of the first d frames forbids a call of hub h.                     *)
Open(h, fr, d) ==
  \A n \in 1 .. d : fr[n] # Unwritten /\ fr[n].hub = h => fr[n].reentrant

(* An activation a and the frame in use when it began, or its own: fr[d].  *)
Framed(a, fr, d) ==
  /\ a.owns => fr[d].hub = a.hub /\ fr[d].ra = a.ra
  /\ a.pc \in Running =>
       /\ d > 0 /\ fr[d] \in Frame /\ fr[d].hub = a.hub
       /\ IsInjectiveSeq(fr[d].proxies) /\ InChain(a, fr[d].proxies)
  /\ a.pc = "find" => Open(a.hub, fr, d)
  /\ a.pc = "write" => fr[d] = Unwritten /\ Open(a.hub, fr, d - 1)

(* The frames that the thread's end left on its stack lie below the others.*)
Base(calls, fr) == Len(fr) - Depth(calls, Len(calls))

InFrames(calls, fr) ==
  /\ Base(calls, fr) >= 0
  /\ \A i \in 1 .. Len(calls) : Framed(calls[i], fr, Base(calls, fr) + Depth(calls, i))

(* ChainMovesForward, which must also hold while the next proxy is looked  *)
(* for.                                                                    *)
Follows(a, b) ==
  a.pc \in Running /\ b.ra = a.func /\ b.pc \in Running => b.func \notin a.visited

(* A thread with its activations calls and its TLS value own; fs are the   *)
(* frames, lists and on the proxies and those that are enabled.            *)
ThreadInv(calls, own, fs, lists, on) ==
  /\ \A i \in 1 .. Len(calls) :
       /\ RaPhase(calls[i]) /\ StackPhase(calls[i], own) /\ SearchPhase(calls[i], lists, on)
       /\ calls[i].pc = "set" => fs[calls[i].stk] = <<>>
  /\ StacksDiffer(calls)
  /\ own # NoStack => InFrames(calls, fs[own])
  /\ \A i \in 1 .. Len(calls) - 1 : Follows(calls[i], calls[i + 1])

ThreadsInv == \A t \in Threads : ThreadInv(act[t], tls[t], frames, list, enabled)

NothingLeftBelow ==
  \A t \in Threads \ exiting : tls[t] # NoStack => Base(act[t], frames[tls[t]]) = 0

(* NoUninvitedReentry, of one stack.                                       *)
Invited(fr) ==
  \A i, j \in 1 .. Len(fr) :
    i < j /\ Unwritten \notin {fr[i], fr[j]} /\ fr[i].hub = fr[j].hub => fr[i].reentrant

IInv ==
  /\ Types /\ ListsAreSound /\ StacksAreExclusive /\ ThreadsInv /\ NothingLeftBelow
  /\ \A s \in Stacks : Invited(frames[s])

(* Without signal handlers, only the last activation is on its way in, and *)
(* a call is taken for recursive only inside of another one.               *)
QuietThread(calls, own, ends) ==
  /\ \A i \in 1 .. Len(calls) - 1 : calls[i].pc \in {"proxy", "orig"}
  /\ \A i \in 1 .. Len(calls) : calls[i].pc \in {"create", "set"} => own = NoStack
  /\ ~ ends => \A i \in 1 .. Len(calls) :
       calls[i].pc = "orig" /\ calls[i].via = "recursive" =>
         \E j \in 1 .. i - 1 : calls[j].owns /\ calls[j].hub = calls[i].hub

QuietInv ==
  /\ \A t \in Threads : QuietThread(act[t], tls[t], t \in exiting)
  /\ NoStackLeaks

----------------------------------------------------------------------------
LEMMA ConcatPair ==
  ASSUME NEW S, NEW u \in Seq(S), NEW x \in S, NEW y \in S
  PROVE  LET v == u \o <<x, y>>
         IN /\ v \in Seq(S) /\ Len(v) = Len(u) + 2
            /\ v[Len(u) + 1] = x /\ v[Len(u) + 2] = y
            /\ \A i \in 1 .. Len(u) : v[i] = u[i]
OBVIOUS

----------------------------------------------------------------------------
(* Depth.                                                                  *)
LEMMA PushedAreFinite ==
  ASSUME NEW calls, NEW i \in Nat
  PROVE  LET S == {j \in 1 .. i : Pushed(calls[j])}
         IN IsFiniteSet(S) /\ Cardinality(S) <= i
<1>1. IsFiniteSet(1 .. i) /\ Cardinality(1 .. i) = i
  BY FS_Interval
<1>2. {j \in 1 .. i : Pushed(calls[j])} \subseteq 1 .. i
  OBVIOUS
<1>3. QED
  BY <1>1, <1>2, FS_Subset

LEMMA DepthIsFinite ==
  ASSUME NEW calls, NEW i \in Nat
  PROVE  Depth(calls, i) \in Nat /\ Depth(calls, i) <= i
<1>1. Cardinality({j \in 1 .. i : Pushed(calls[j])}) \in Nat
  BY PushedAreFinite, FS_CardinalityType
<1>2. QED
  BY <1>1, PushedAreFinite DEF Depth

LEMMA DepthZero == ASSUME NEW calls PROVE Depth(calls, 0) = 0
BY DepthIsFinite

LEMMA DepthStep ==
  ASSUME NEW calls, NEW i \in Nat, i > 0
  PROVE  /\ Pushed(calls[i]) => Depth(calls, i) = Depth(calls, i - 1) + 1
         /\ ~ Pushed(calls[i]) => Depth(calls, i) = Depth(calls, i - 1)
<1> DEFINE S == {j \in 1 .. i - 1 : Pushed(calls[j])}
           T == {j \in 1 .. i : Pushed(calls[j])}
<1>1. IsFiniteSet(S) /\ i \notin S
  <2>1. i - 1 \in Nat
    OBVIOUS
  <2>2. IsFiniteSet(S)
    BY <2>1, PushedAreFinite
  <2>3. QED
    BY <2>2
<1>2. CASE Pushed(calls[i])
  <2>1. T = S \cup {i}
    BY <1>2
  <2>2. Cardinality(T) = Cardinality(S) + 1
    BY <1>1, <2>1, FS_AddElement
  <2>3. QED
    BY <1>2, <2>2 DEF Depth
<1>3. CASE ~ Pushed(calls[i])
  <2>1. T = S
    BY <1>3
  <2>2. QED
    BY <1>3, <2>1 DEF Depth
<1>4. QED
  BY <1>2, <1>3

LEMMA DepthGrows ==
  ASSUME NEW calls, NEW i \in Nat, NEW j \in Nat, i <= j
  PROVE  Depth(calls, i) <= Depth(calls, j)
<1>1. {k \in 1 .. i : Pushed(calls[k])} \subseteq {k \in 1 .. j : Pushed(calls[k])}
  OBVIOUS
<1>2. QED
  BY <1>1, PushedAreFinite, FS_Subset DEF Depth

LEMMA DepthIsLocal ==
  ASSUME NEW calls, NEW others, NEW i \in Nat,
         \A j \in 1 .. i : Pushed(calls[j]) <=> Pushed(others[j])
  PROVE  Depth(calls, i) = Depth(others, i)
<1>1. {j \in 1 .. i : Pushed(calls[j])} = {j \in 1 .. i : Pushed(others[j])}
  OBVIOUS
<1>2. QED
  BY <1>1 DEF Depth

(* Every frame has its owner: the first call at its depth.                 *)
LEMMA DepthHasOwner ==
  ASSUME NEW calls, NEW i \in Nat, NEW n \in 1 .. Depth(calls, i)
  PROVE  \E j \in 1 .. i : Pushed(calls[j]) /\ Depth(calls, j) = n
<1> DEFINE D == {j \in 1 .. i : Depth(calls, j) >= n}
<1>1. Depth(calls, i) \in Nat /\ Depth(calls, i) <= i /\ Depth(calls, 0) = 0
  BY DepthIsFinite, DepthZero
<1>2. i \in D
  BY <1>1
<1>3. PICK j \in D : \A k \in D : ~ (<<k, j>> \in OpToRel(<, Nat))
  <2>1. D \subseteq Nat /\ D # {}
    BY <1>2
  <2>2. QED
    BY <2>1, NatLessThanWellFounded, WFMin
<1>4. \A k \in D : ~ (k < j)
  <2> SUFFICES ASSUME NEW k \in D, k < j PROVE FALSE
    OBVIOUS
  <2>1. k \in Nat /\ j \in Nat
    OBVIOUS
  <2>2. <<k, j>> \in OpToRel(<, Nat)
    BY <2>1 DEF OpToRel
  <2>3. QED
    BY <1>3, <2>2
<1>5. j \in Nat /\ j > 0 /\ j - 1 \in Nat /\ j \in 1 .. i
  OBVIOUS
<1>6. Depth(calls, j) \in Nat /\ Depth(calls, j - 1) \in Nat
  BY <1>5, DepthIsFinite
<1>7. Depth(calls, j - 1) < n
  <2>1. CASE j = 1
    BY <2>1, <1>1
  <2>2. CASE j > 1
    BY <2>2, <1>4, <1>5, <1>6
  <2>3. QED
    BY <2>1, <2>2, <1>5
<1>8. QED
  BY <1>5, <1>6, <1>7, DepthStep

----------------------------------------------------------------------------
(* Frames.  What lies above its own frame is nothing to an activation.     *)
LEMMA FramedBelow ==
  ASSUME NEW a, NEW fr, NEW fr2, NEW d \in Nat,
         Pushed(a) => d > 0,
         \A k \in 1 .. d : fr2[k] = fr[k],
         Framed(a, fr, d)
  PROVE  Framed(a, fr2, d)
<1>1. d > 0 => fr2[d] = fr[d]
  OBVIOUS
<1>2. \A h, e : e \in 0 .. d /\ Open(h, fr, e) => Open(h, fr2, e)
  BY DEF Open
<1>3. a.pc = "find" => Open(a.hub, fr2, d)
  BY <1>2 DEF Framed
<1>4. a.pc = "write" => fr2[d] = Unwritten /\ Open(a.hub, fr2, d - 1)
  <2> SUFFICES ASSUME a.pc = "write" PROVE fr2[d] = Unwritten /\ Open(a.hub, fr2, d - 1)
    OBVIOUS
  <2>1. d > 0 /\ d - 1 \in 0 .. d
    BY DEF Pushed
  <2>2. QED
    BY <2>1, <1>1, <1>2 DEF Framed
<1>5. a.owns => fr2[d].hub = a.hub /\ fr2[d].ra = a.ra
  BY <1>1 DEF Framed, Pushed
<1>6. a.pc \in Running =>
       /\ d > 0 /\ fr2[d] \in Frame /\ fr2[d].hub = a.hub
       /\ IsInjectiveSeq(fr2[d].proxies) /\ InChain(a, fr2[d].proxies)
  BY <1>1 DEF Framed
<1>7. QED
  BY <1>3, <1>4, <1>5, <1>6 DEF Framed

(* The calls up to m, and the frames of these, stay.                       *)
LEMMA FramesStay ==
  ASSUME NEW calls, NEW calls2, NEW fr, NEW fr2, NEW m \in Nat,
         Len(calls) \in Nat, Len(calls2) \in Nat, Len(fr) \in Nat,
         m <= Len(calls), m <= Len(calls2),
         \A i \in 1 .. m : calls2[i] = calls[i],
         Base(calls2, fr2) = Base(calls, fr),
         \A k \in 1 .. Base(calls, fr) + Depth(calls, m) : fr2[k] = fr[k],
         InFrames(calls, fr),
         \A i \in m + 1 .. Len(calls2) : Framed(calls2[i], fr2, Base(calls, fr) + Depth(calls2, i))
  PROVE  InFrames(calls2, fr2)
<1>1. Base(calls, fr) \in Nat
  <2>1. Depth(calls, Len(calls)) \in Nat
    BY DepthIsFinite
  <2>2. QED
    BY <2>1 DEF InFrames, Base
<1>2. ASSUME NEW i \in 1 .. Len(calls2)
      PROVE  Framed(calls2[i], fr2, Base(calls, fr) + Depth(calls2, i))
  <2>1. CASE i > m
    BY <2>1
  <2>2. CASE i <= m
    <3>1. i \in 1 .. Len(calls) /\ i \in Nat /\ i > 0 /\ calls2[i] = calls[i] /\ i - 1 \in Nat
      BY <2>2
    <3>2. Depth(calls2, i) = Depth(calls, i)
      BY <2>2, <3>1, DepthIsLocal
    <3>3. Depth(calls, i) <= Depth(calls, m) /\ Depth(calls, i) \in Nat /\ Depth(calls, m) \in Nat
      BY <2>2, <3>1, DepthGrows, DepthIsFinite
    <3>4. Pushed(calls[i]) => Depth(calls, i) > 0
      <4>1. Depth(calls, i - 1) \in Nat
        BY <3>1, DepthIsFinite
      <4>2. QED
        BY <3>1, <4>1, DepthStep
    <3>5. Framed(calls[i], fr, Base(calls, fr) + Depth(calls, i))
      BY <3>1 DEF InFrames
    <3>6. Framed(calls[i], fr2, Base(calls, fr) + Depth(calls, i))
      BY <1>1, <3>3, <3>4, <3>5, FramedBelow
    <3>7. QED
      BY <3>1, <3>2, <3>6
  <2>3. QED
    BY <2>1, <2>2
<1>3. QED
  BY <1>1, <1>2 DEF InFrames

(* The last call changes, but neither its frame nor any other.             *)
LEMMA TopFrames ==
  ASSUME NEW calls, NEW calls2, NEW fr, NEW n \in Nat \ {0}, Len(fr) \in Nat,
         Len(calls) = n, Len(calls2) = n,
         \A i \in 1 .. n - 1 : calls2[i] = calls[i],
         Pushed(calls2[n]) <=> Pushed(calls[n]),
         InFrames(calls, fr),
         Framed(calls2[n], fr, Len(fr))
  PROVE  InFrames(calls2, fr) /\ Base(calls2, fr) = Base(calls, fr)
<1>1. \A j \in 1 .. n : Pushed(calls[j]) <=> Pushed(calls2[j])
  OBVIOUS
<1>2. Depth(calls2, n) = Depth(calls, n) /\ Depth(calls, n) \in Nat
  BY <1>1, DepthIsLocal, DepthIsFinite
<1>3. Base(calls2, fr) = Base(calls, fr) /\ Base(calls, fr) + Depth(calls2, n) = Len(fr)
  BY <1>2 DEF Base
<1>4. n - 1 \in Nat /\ n - 1 <= Len(calls) /\ n - 1 <= Len(calls2) /\ Len(calls) \in Nat
  OBVIOUS
<1>5. \A i \in n - 1 + 1 .. Len(calls2) :
        Framed(calls2[i], fr, Base(calls, fr) + Depth(calls2, i))
  BY <1>3
<1>6. InFrames(calls2, fr)
  BY <1>3, <1>4, <1>5, FramesStay
<1>7. QED
  BY <1>3, <1>6

(* A call begins.                                                          *)
LEMMA EnterFrames ==
  ASSUME NEW calls, NEW calls2, NEW fr, NEW n \in Nat, Len(fr) \in Nat,
         Len(calls) = n, Len(calls2) = n + 1,
         \A i \in 1 .. n : calls2[i] = calls[i],
         ~ Pushed(calls2[n + 1]),
         InFrames(calls, fr),
         Framed(calls2[n + 1], fr, Len(fr))
  PROVE  InFrames(calls2, fr) /\ Base(calls2, fr) = Base(calls, fr)
<1>1. Depth(calls2, n) = Depth(calls, n) /\ Depth(calls, n) \in Nat
  BY DepthIsLocal, DepthIsFinite
<1>2. Depth(calls2, n + 1) = Depth(calls, n)
  <2>1. n + 1 \in Nat /\ n + 1 > 0 /\ (n + 1) - 1 = n
    OBVIOUS
  <2>2. QED
    BY <1>1, <2>1, DepthStep
<1>3. Base(calls2, fr) = Base(calls, fr) /\ Base(calls, fr) + Depth(calls2, n + 1) = Len(fr)
  BY <1>1, <1>2 DEF Base
<1>4. \A i \in n + 1 .. Len(calls2) :
        Framed(calls2[i], fr, Base(calls, fr) + Depth(calls2, i))
  BY <1>3
<1>5. n <= Len(calls) /\ n <= Len(calls2) /\ Len(calls) \in Nat /\ Len(calls2) \in Nat
  OBVIOUS
<1>6. InFrames(calls2, fr)
  BY <1>3, <1>4, <1>5, FramesStay
<1>7. QED
  BY <1>3, <1>6

(* The last call pushes a frame.                                           *)
LEMMA PushFrames ==
  ASSUME NEW calls, NEW calls2, NEW fr, NEW fr2, NEW n \in Nat \ {0}, Len(fr) \in Nat,
         Len(calls) = n, Len(calls2) = n, Len(fr2) = Len(fr) + 1,
         \A i \in 1 .. n - 1 : calls2[i] = calls[i],
         \A k \in 1 .. Len(fr) : fr2[k] = fr[k],
         ~ Pushed(calls[n]), Pushed(calls2[n]),
         InFrames(calls, fr),
         Framed(calls2[n], fr2, Len(fr) + 1)
  PROVE  InFrames(calls2, fr2) /\ Base(calls2, fr2) = Base(calls, fr)
<1>1. n - 1 \in Nat /\ n - 1 <= Len(calls) /\ n - 1 <= Len(calls2) /\ Len(calls) \in Nat /\ n > 0
  OBVIOUS
<1>2. Depth(calls2, n - 1) = Depth(calls, n - 1) /\ Depth(calls, n - 1) \in Nat
  BY <1>1, DepthIsLocal, DepthIsFinite
<1>3. Depth(calls, n) = Depth(calls, n - 1) /\ Depth(calls2, n) = Depth(calls, n - 1) + 1
  BY <1>1, <1>2, DepthStep
<1> DEFINE d == Depth(calls, n - 1)
<1>4. d \in Nat /\ Depth(calls, n) = d /\ Depth(calls2, n) = d + 1
  BY <1>2, <1>3
<1> HIDE DEF d
<1>5. Base(calls2, fr2) = Base(calls, fr) /\ Base(calls, fr) + Depth(calls2, n) = Len(fr) + 1
  BY <1>4 DEF Base
<1>6. \A i \in n - 1 + 1 .. Len(calls2) :
        Framed(calls2[i], fr2, Base(calls, fr) + Depth(calls2, i))
  BY <1>5
<1>7. \A k \in 1 .. Base(calls, fr) + Depth(calls, n - 1) : fr2[k] = fr[k]
  BY <1>2, <1>3 DEF Base
<1>8. Len(calls2) \in Nat /\ Len(fr2) \in Nat
  OBVIOUS
<1>9. InFrames(calls2, fr2)
  BY <1>1, <1>5, <1>6, <1>7, <1>8, FramesStay
<1>10. QED
  BY <1>5, <1>9

(* The last call changes its frame.                                        *)
Rewrites(calls, calls2, fr, fr2, n) ==
  /\ n \in Nat \ {0} /\ Len(calls) = n /\ Len(calls2) = n /\ Len(fr) \in Nat /\ Len(fr2) = Len(fr)
  /\ \A i \in 1 .. n - 1 : calls2[i] = calls[i]
  /\ \A k \in 1 .. Len(fr) - 1 : fr2[k] = fr[k]
  /\ Pushed(calls[n]) /\ Pushed(calls2[n])
  /\ Framed(calls2[n], fr2, Len(fr))

LEMMA RewriteFrames ==
  ASSUME NEW calls, NEW calls2, NEW fr, NEW fr2, NEW n,
         Rewrites(calls, calls2, fr, fr2, n), InFrames(calls, fr)
  PROVE  InFrames(calls2, fr2) /\ Base(calls2, fr2) = Base(calls, fr)
<1> USE DEF Rewrites
<1>1. n - 1 \in Nat /\ n - 1 <= Len(calls) /\ n - 1 <= Len(calls2) /\ Len(calls) \in Nat /\ n > 0
  OBVIOUS
<1>2. Depth(calls2, n - 1) = Depth(calls, n - 1) /\ Depth(calls, n - 1) \in Nat
  BY <1>1, DepthIsLocal, DepthIsFinite
<1>3. Depth(calls, n) = Depth(calls, n - 1) + 1 /\ Depth(calls2, n) = Depth(calls, n - 1) + 1
  BY <1>1, <1>2, DepthStep
<1>4. Base(calls2, fr2) = Base(calls, fr) /\ Base(calls, fr) + Depth(calls2, n) = Len(fr)
  BY <1>2, <1>3 DEF Base
<1>5. \A i \in n - 1 + 1 .. Len(calls2) :
        Framed(calls2[i], fr2, Base(calls, fr) + Depth(calls2, i))
  BY <1>4
<1>6. \A k \in 1 .. Base(calls, fr) + Depth(calls, n - 1) : fr2[k] = fr[k]
  BY <1>2, <1>3 DEF Base
<1>7. Len(calls2) \in Nat /\ Len(fr2) \in Nat
  OBVIOUS
<1>8. InFrames(calls2, fr2)
  BY <1>1, <1>4, <1>5, <1>6, <1>7, FramesStay
<1>9. QED
  BY <1>4, <1>8

(* The last call ends, with its frame if it has one.                       *)
LEMMA PopFrames ==
  ASSUME NEW calls, NEW calls2, NEW fr, NEW fr2, NEW n \in Nat \ {0}, Len(fr) \in Nat,
         Len(calls) = n, Len(calls2) = n - 1,
         \A i \in 1 .. n - 1 : calls2[i] = calls[i],
         Pushed(calls[n]) => Len(fr2) = Len(fr) - 1,
         ~ Pushed(calls[n]) => Len(fr2) = Len(fr),
         \A k \in 1 .. Len(fr2) : fr2[k] = fr[k],
         InFrames(calls, fr)
  PROVE  InFrames(calls2, fr2) /\ Base(calls2, fr2) = Base(calls, fr)
<1>1. n - 1 \in Nat /\ n - 1 <= Len(calls) /\ n - 1 <= Len(calls2) /\ Len(calls) \in Nat /\ n > 0
  OBVIOUS
<1>2. Depth(calls2, n - 1) = Depth(calls, n - 1) /\ Depth(calls, n - 1) \in Nat
  BY <1>1, DepthIsLocal, DepthIsFinite
<1>3. Depth(calls, n) = Depth(calls, n - 1) + Len(fr) - Len(fr2) /\ Len(fr2) \in Int
  <2>1. CASE Pushed(calls[n])
    <3>1. Depth(calls, n) = Depth(calls, n - 1) + 1
      BY <1>1, <2>1, DepthStep
    <3>2. QED
      BY <1>2, <2>1, <3>1
  <2>2. CASE ~ Pushed(calls[n])
    <3>1. Depth(calls, n) = Depth(calls, n - 1)
      BY <1>1, <2>2, DepthStep
    <3>2. QED
      BY <1>2, <2>2, <3>1
  <2>3. QED
    BY <2>1, <2>2
<1>4. Base(calls2, fr2) = Base(calls, fr) /\ Base(calls, fr) + Depth(calls, n - 1) = Len(fr2)
  BY <1>2, <1>3 DEF Base
<1>5. \A i \in n - 1 + 1 .. Len(calls2) :
        Framed(calls2[i], fr2, Base(calls, fr) + Depth(calls2, i))
  BY <1>1
<1>6. \A k \in 1 .. Base(calls, fr) + Depth(calls, n - 1) : fr2[k] = fr[k]
  BY <1>4
<1>7. Len(calls2) \in Nat
  OBVIOUS
<1>8. InFrames(calls2, fr2)
  BY <1>1, <1>4, <1>5, <1>6, <1>7, FramesStay
<1>9. QED
  BY <1>4, <1>8

----------------------------------------------------------------------------
(* One thread: its last activation is replaced, or one added, or removed.  *)
Replaces(calls, calls2, n, b) ==
  /\ n \in Nat \ {0} /\ calls \in Seq(Act) /\ Len(calls) = n
  /\ calls2 \in Seq(Act) /\ Len(calls2) = n /\ calls2[n] = b
  /\ \A i \in 1 .. n - 1 : calls2[i] = calls[i]

Extends(calls, calls2, n, b) ==
  /\ n \in Nat /\ calls \in Seq(Act) /\ Len(calls) = n
  /\ calls2 \in Seq(Act) /\ Len(calls2) = n + 1 /\ calls2[n + 1] = b
  /\ \A i \in 1 .. n : calls2[i] = calls[i]

Drops(calls, calls2, n) ==
  /\ n \in Nat \ {0} /\ calls \in Seq(Act) /\ Len(calls) = n
  /\ calls2 \in Seq(Act) /\ Len(calls2) = n - 1
  /\ \A i \in 1 .. n - 1 : calls2[i] = calls[i]

LEMMA TopIsFramed ==
  ASSUME NEW calls, NEW fr, NEW n \in Nat \ {0}, Len(calls) = n, Len(fr) \in Nat,
         InFrames(calls, fr)
  PROVE  Framed(calls[n], fr, Len(fr))
<1>1. Depth(calls, n) \in Nat
  BY DepthIsFinite
<1>2. Base(calls, fr) + Depth(calls, n) = Len(fr)
  BY <1>1 DEF Base
<1>3. QED
  BY <1>2 DEF InFrames

LEMMA ReplaceThread ==
  ASSUME NEW calls, NEW calls2, NEW n, NEW b, NEW own, NEW fs, NEW fs2, NEW lists, NEW on,
         Replaces(calls, calls2, n, b),
         ThreadInv(calls, own, fs, lists, on),
         \A s \in Stacks \ {own} : fs2[s] = fs[s],
         RaPhase(b), StackPhase(b, own), SearchPhase(b, lists, on), b.pc # "set",
         b.pc = "create" => own = NoStack \/ calls[n].pc = "create",
         b.pc \in Running =>
           \/ calls[n].pc \in Running /\ b.func = calls[n].func /\ b.ra = calls[n].ra
           \/ b.ra \in CallSites,
         \A i \in 1 .. n - 1 : calls[i].pc \in Running => calls[i].func \in Proxies,
         own # NoStack => InFrames(calls2, fs2[own])
  PROVE  ThreadInv(calls2, own, fs2, lists, on)
<1>1. n \in Nat /\ n \in 1 .. n /\ Len(calls) = n /\ Len(calls2) = n /\ calls2[n] = b
  BY DEF Replaces
<1>2. \A i \in 1 .. n - 1 : calls2[i] = calls[i] /\ i \in 1 .. n /\ calls[i] \in Act
  BY DEF Replaces
<1>3. ASSUME NEW i \in 1 .. n
      PROVE  /\ RaPhase(calls2[i]) /\ StackPhase(calls2[i], own)
             /\ SearchPhase(calls2[i], lists, on)
             /\ calls2[i].pc = "set" => fs2[calls2[i].stk] = <<>>
  <2>1. CASE i = n
    BY <1>1, <2>1
  <2>2. CASE i # n
    <3>1. i \in 1 .. n - 1
      BY <1>1, <2>2
    <3>2. /\ RaPhase(calls[i]) /\ StackPhase(calls[i], own)
          /\ SearchPhase(calls[i], lists, on)
          /\ calls[i].pc = "set" => fs[calls[i].stk] = <<>>
      BY <1>1, <3>1 DEF ThreadInv
    <3>3. calls[i].pc = "set" => calls[i].stk \in Stacks \ {own}
      BY <1>2, <3>1, <3>2 DEF Act, StackPhase, Pushing
    <3>4. QED
      BY <1>2, <3>1, <3>2, <3>3
  <2>3. QED
    BY <2>1, <2>2
<1>4. StacksDiffer(calls2)
  <2> SUFFICES ASSUME NEW i \in 1 .. n
               PROVE  /\ calls2[i].pc \in {"create", "set"} =>
                           \A j \in 1 .. i - 1 : calls2[j].stk = NoStack \/ calls2[j].pc = "set"
                      /\ calls2[i].pc = "set" =>
                           \A j \in 1 .. n : j # i => calls2[j].stk # calls2[i].stk
    BY <1>1 DEF StacksDiffer
  <2>1. /\ calls[i].pc \in {"create", "set"} =>
             \A j \in 1 .. i - 1 : calls[j].stk = NoStack \/ calls[j].pc = "set"
        /\ calls[i].pc = "set" =>
             \A j \in 1 .. n : j # i => calls[j].stk # calls[i].stk
    BY <1>1 DEF ThreadInv, StacksDiffer
  <2>2. \A j \in 1 .. i - 1 : calls2[j] = calls[j]
    BY <1>1, <1>2
  <2>3. CASE i = n
    <3>1. b.pc = "create" => \A j \in 1 .. i - 1 : calls[j].stk = NoStack \/ calls[j].pc = "set"
      <4>1. own = NoStack => \A j \in 1 .. i - 1 : calls[j].stk = NoStack \/ calls[j].pc = "set"
        BY <1>1, <1>2 DEF ThreadInv, StackPhase
      <4>2. QED
        BY <4>1, <2>1, <2>3
    <3>2. QED
      BY <1>1, <2>2, <2>3, <3>1
  <2>4. CASE i # n
    <3>1. i \in 1 .. n - 1 /\ calls2[i] = calls[i]
      BY <1>1, <1>2, <2>4
    <3>2. calls[i].pc = "set" => \A j \in 1 .. n : j # i => calls2[j].stk # calls[i].stk
      <4> SUFFICES ASSUME calls[i].pc = "set", NEW j \in 1 .. n, j # i
                   PROVE  calls2[j].stk # calls[i].stk
        OBVIOUS
      <4>1. CASE j = n
        <5>1. calls[i].stk # NoStack /\ calls[i].stk # own
          BY <1>1 DEF ThreadInv, StackPhase, Pushing
        <5>2. QED
          BY <1>1, <4>1, <5>1 DEF StackPhase
      <4>2. CASE j # n
        BY <1>1, <1>2, <2>1, <4>2
      <4>3. QED
        BY <4>1, <4>2
    <3>3. QED
      BY <2>1, <2>2, <3>1, <3>2
  <2>5. QED
    BY <2>3, <2>4
<1>5. ASSUME NEW i \in 1 .. n - 1 PROVE Follows(calls2[i], calls2[i + 1])
  <2>1. Follows(calls[i], calls[i + 1]) /\ i + 1 \in 1 .. n /\ calls2[i] = calls[i]
    BY <1>1, <1>2 DEF ThreadInv
  <2>2. CASE i + 1 = n
    <3>1. b.ra \in CallSites => Follows(calls[i], b)
      BY HubAssumption DEF Follows
    <3>2. calls[n].pc \in Running /\ b.func = calls[n].func /\ b.ra = calls[n].ra
            => Follows(calls[i], b)
      BY <2>1, <2>2 DEF Follows
    <3>3. b.pc \notin Running => Follows(calls[i], b)
      BY DEF Follows
    <3>4. QED
      BY <1>1, <2>1, <2>2, <3>1, <3>2, <3>3
  <2>3. CASE i + 1 # n
    <3>1. i + 1 \in 1 .. n - 1
      BY <1>1, <2>1, <2>3
    <3>2. QED
      BY <1>2, <2>1, <3>1
  <2>4. QED
    BY <2>2, <2>3
<1>6. QED
  BY <1>1, <1>3, <1>4, <1>5 DEF ThreadInv

LEMMA ExtendThread ==
  ASSUME NEW calls, NEW calls2, NEW n, NEW b, NEW own, NEW fs, NEW lists, NEW on,
         Extends(calls, calls2, n, b),
         ThreadInv(calls, own, fs, lists, on),
         RaPhase(b), StackPhase(b, own), SearchPhase(b, lists, on),
         b.pc \notin {"create", "set"},
         n > 0 => Follows(calls[n], b),
         own # NoStack => InFrames(calls2, fs[own])
  PROVE  ThreadInv(calls2, own, fs, lists, on)
<1>1. n \in Nat /\ Len(calls) = n /\ Len(calls2) = n + 1 /\ calls2[n + 1] = b
  BY DEF Extends
<1>2. \A i \in 1 .. n : calls2[i] = calls[i]
  BY DEF Extends
<1>3. ASSUME NEW i \in 1 .. n + 1
      PROVE  /\ RaPhase(calls2[i]) /\ StackPhase(calls2[i], own)
             /\ SearchPhase(calls2[i], lists, on)
             /\ calls2[i].pc = "set" => fs[calls2[i].stk] = <<>>
  <2>1. CASE i = n + 1
    BY <1>1, <2>1
  <2>2. CASE i # n + 1
    <3>1. i \in 1 .. n
      BY <1>1, <2>2
    <3>2. QED
      BY <1>1, <1>2, <3>1 DEF ThreadInv
  <2>3. QED
    BY <2>1, <2>2
<1>4. StacksDiffer(calls2)
  <2> SUFFICES ASSUME NEW i \in 1 .. n + 1
               PROVE  /\ calls2[i].pc \in {"create", "set"} =>
                           \A j \in 1 .. i - 1 : calls2[j].stk = NoStack \/ calls2[j].pc = "set"
                      /\ calls2[i].pc = "set" =>
                           \A j \in 1 .. n + 1 : j # i => calls2[j].stk # calls2[i].stk
    BY <1>1 DEF StacksDiffer
  <2>1. CASE i = n + 1
    BY <1>1, <2>1
  <2>2. CASE i # n + 1
    <3>1. i \in 1 .. n /\ calls2[i] = calls[i] /\ \A j \in 1 .. i - 1 : calls2[j] = calls[j]
      BY <1>1, <1>2, <2>2
    <3>2. /\ calls[i].pc \in {"create", "set"} =>
               \A j \in 1 .. i - 1 : calls[j].stk = NoStack \/ calls[j].pc = "set"
          /\ calls[i].pc = "set" =>
               \A j \in 1 .. n : j # i => calls[j].stk # calls[i].stk
      BY <1>1, <3>1 DEF ThreadInv, StacksDiffer
    <3>3. calls[i].pc = "set" => calls[i].stk # NoStack /\ calls[i].stk # own
      BY <1>1, <3>1 DEF ThreadInv, StackPhase, Pushing
    <3>4. b.stk = NoStack \/ b.stk = own
      BY DEF StackPhase
    <3>5. \A j \in 1 .. n + 1 : j = n + 1 \/ j \in 1 .. n
      BY <1>1
    <3>6. QED
      BY <1>1, <1>2, <3>1, <3>2, <3>3, <3>4, <3>5
  <2>3. QED
    BY <2>1, <2>2
<1>5. ASSUME NEW i \in 1 .. n PROVE Follows(calls2[i], calls2[i + 1])
  <2>1. CASE i = n
    BY <1>1, <1>2, <2>1
  <2>2. CASE i # n
    <3>1. i \in 1 .. n - 1 /\ i + 1 \in 1 .. n
      BY <1>1, <2>2
    <3>2. QED
      BY <1>1, <1>2, <3>1 DEF ThreadInv
  <2>3. QED
    BY <2>1, <2>2
<1>6. Len(calls2) - 1 = n
  BY <1>1
<1>7. QED
  BY <1>1, <1>3, <1>4, <1>5, <1>6 DEF ThreadInv

LEMMA DropThread ==
  ASSUME NEW calls, NEW calls2, NEW n, NEW own, NEW fs, NEW fs2, NEW lists, NEW on,
         Drops(calls, calls2, n),
         ThreadInv(calls, own, fs, lists, on),
         \A s \in Stacks \ {own} : fs2[s] = fs[s],
         own # NoStack => InFrames(calls2, fs2[own])
  PROVE  ThreadInv(calls2, own, fs2, lists, on)
<1>1. n \in Nat /\ Len(calls) = n /\ Len(calls2) = n - 1
  BY DEF Drops
<1>2. \A i \in 1 .. n - 1 : calls2[i] = calls[i] /\ i \in 1 .. n /\ calls[i] \in Act
  BY DEF Drops
<1>3. ASSUME NEW i \in 1 .. n - 1
      PROVE  /\ RaPhase(calls2[i]) /\ StackPhase(calls2[i], own)
             /\ SearchPhase(calls2[i], lists, on)
             /\ calls2[i].pc = "set" => fs2[calls2[i].stk] = <<>>
  <2>1. /\ RaPhase(calls[i]) /\ StackPhase(calls[i], own)
        /\ SearchPhase(calls[i], lists, on)
        /\ calls[i].pc = "set" => fs[calls[i].stk] = <<>>
    BY <1>1, <1>2 DEF ThreadInv
  <2>2. calls[i].pc = "set" => calls[i].stk \in Stacks \ {own}
    BY <1>2, <2>1 DEF Act, StackPhase, Pushing
  <2>3. QED
    BY <1>2, <2>1, <2>2
<1>4. StacksDiffer(calls2)
  <2> SUFFICES ASSUME NEW i \in 1 .. n - 1
               PROVE  /\ calls2[i].pc \in {"create", "set"} =>
                           \A j \in 1 .. i - 1 : calls2[j].stk = NoStack \/ calls2[j].pc = "set"
                      /\ calls2[i].pc = "set" =>
                           \A j \in 1 .. n - 1 : j # i => calls2[j].stk # calls2[i].stk
    BY <1>1 DEF StacksDiffer
  <2>1. \A j \in 1 .. i - 1 : calls2[j] = calls[j]
    BY <1>1, <1>2
  <2>2. QED
    BY <1>1, <1>2, <2>1 DEF ThreadInv, StacksDiffer
<1>5. ASSUME NEW i \in 1 .. n - 1 - 1 PROVE Follows(calls2[i], calls2[i + 1])
  <2>1. i \in 1 .. n - 1 /\ i + 1 \in 1 .. n - 1
    BY <1>1
  <2>2. QED
    BY <1>1, <1>2, <2>1 DEF ThreadInv
<1>6. QED
  BY <1>1, <1>3, <1>4, <1>5 DEF ThreadInv

(* The proxies that run are proxies.                                       *)
LEMMA RunningAreProxies ==
  ASSUME NEW calls, NEW own, NEW fs, NEW lists, NEW on, NEW i \in 1 .. Len(calls),
         ThreadInv(calls, own, fs, lists, on), calls[i].pc \in Running
  PROVE  own # NoStack /\ calls[i].func \in Proxies
<1>1. calls[i].stk # NoStack /\ calls[i].stk = own
  BY DEF ThreadInv, StackPhase, Running, Pushing
<1>2. Framed(calls[i], fs[own], Base(calls, fs[own]) + Depth(calls, i))
  BY <1>1 DEF ThreadInv, InFrames
<1>3. PICK d : fs[own][d] \in Frame /\ InChain(calls[i], fs[own][d].proxies)
  BY <1>2 DEF Framed
<1>4. fs[own][d].proxies \in Seq(Proxies)
  BY <1>3 DEF Frame
<1>5. calls[i].func \in Proxies
  BY <1>3, <1>4 DEF InChain
<1>6. QED
  BY <1>1, <1>5

(* An activation that has pushed a frame still has it.                     *)
LEMMA PushedHasFrame ==
  ASSUME NEW calls, NEW fr, NEW n \in Nat \ {0}, Len(calls) = n, Len(fr) \in Nat,
         InFrames(calls, fr), Pushed(calls[n])
  PROVE  Len(fr) > 0
<1>1. n - 1 \in Nat /\ n > 0
  OBVIOUS
<1>2. Depth(calls, n - 1) \in Nat
  BY <1>1, DepthIsFinite
<1>3. Depth(calls, n) = Depth(calls, n - 1) + 1
  BY <1>1, DepthStep
<1>4. Base(calls, fr) >= 0 /\ Base(calls, fr) = Len(fr) - Depth(calls, n)
  BY DEF InFrames, Base
<1>5. QED
  BY <1>2, <1>3, <1>4

LEMMA ReplaceFrames ==
  ASSUME NEW calls, NEW calls2, NEW fr, NEW n, NEW b, Len(fr) \in Nat,
         Replaces(calls, calls2, n, b), InFrames(calls, fr),
         Pushed(b) <=> Pushed(calls[n]),
         Framed(b, fr, Len(fr))
  PROVE  InFrames(calls2, fr) /\ Base(calls2, fr) = Base(calls, fr)
<1>1. n \in Nat \ {0} /\ Len(calls) = n /\ Len(calls2) = n /\ calls2[n] = b
  BY DEF Replaces
<1>2. \A i \in 1 .. n - 1 : calls2[i] = calls[i]
  BY DEF Replaces
<1>3. Pushed(calls2[n]) <=> Pushed(calls[n])
  BY <1>1
<1>4. Framed(calls2[n], fr, Len(fr))
  BY <1>1
<1>5. QED
  BY <1>1, <1>2, <1>3, <1>4, TopFrames

(* A stack is taken: it is empty, and nobody else's.                       *)
Empties(fs, fs2, s) == fs2[s] = <<>> /\ \A other \in Stacks \ {s} : fs2[other] = fs[other]
Takes(a, b, s) ==
  /\ a.pc = "create" /\ b.pc = "set" /\ b.stk = s /\ ~ b.owns
  /\ b.ra = a.ra /\ b.hub = a.hub /\ b.stable = a.stable
Unknown(calls, own, s) == s # own /\ \A i \in 1 .. Len(calls) : calls[i].stk # s

LEMMA TakeThread ==
  ASSUME NEW calls, NEW calls2, NEW n, NEW b, NEW own, NEW fs, NEW fs2, NEW lists, NEW on,
         NEW s \in Stacks, own \in Stacks \cup {NoStack},
         Replaces(calls, calls2, n, b),
         ThreadInv(calls, own, fs, lists, on),
         own # NoStack => Len(fs[own]) \in Nat,
         Takes(calls[n], b, s), Unknown(calls, own, s),
         Empties(fs, fs2, s)
  PROVE  /\ ThreadInv(calls2, own, fs2, lists, on)
         /\ own # NoStack => Base(calls2, fs2[own]) = Base(calls, fs[own])
<1>1. n \in Nat /\ n > 0 /\ n \in 1 .. n /\ Len(calls) = n /\ Len(calls2) = n /\ calls2[n] = b
  BY DEF Replaces
<1>2. \A i \in 1 .. n - 1 : calls2[i] = calls[i] /\ i \in 1 .. n /\ calls[i] \in Act
  BY DEF Replaces
<1>3. s # NoStack
  BY HubAssumption
<1> USE DEF Empties, Takes, Unknown
<1>4. RaPhase(calls[n]) /\ SearchPhase(calls[n], lists, on)
  BY <1>1 DEF ThreadInv
<1>5. RaPhase(b) /\ StackPhase(b, own) /\ SearchPhase(b, lists, on)
  BY <1>3, <1>4 DEF RaPhase, StackPhase, SearchPhase, Pushing, Running
<1>6. ASSUME NEW i \in 1 .. n
      PROVE  /\ RaPhase(calls2[i]) /\ StackPhase(calls2[i], own)
             /\ SearchPhase(calls2[i], lists, on)
             /\ calls2[i].pc = "set" => fs2[calls2[i].stk] = <<>>
  <2>1. CASE i = n
    BY <1>1, <1>5, <2>1
  <2>2. CASE i # n
    <3>1. i \in 1 .. n - 1
      BY <1>1, <2>2
    <3>2. /\ RaPhase(calls[i]) /\ StackPhase(calls[i], own)
          /\ SearchPhase(calls[i], lists, on)
          /\ calls[i].pc = "set" => fs[calls[i].stk] = <<>>
      BY <1>1, <3>1 DEF ThreadInv
    <3>3. calls[i].pc = "set" => calls[i].stk \in Stacks \ {s}
      <4>1. calls[i].stk # s
        BY <1>1
      <4>2. QED
        BY <1>2, <3>1, <3>2, <4>1 DEF Act, StackPhase, Pushing
    <3>4. QED
      BY <1>2, <3>1, <3>2, <3>3
  <2>3. QED
    BY <2>1, <2>2
<1>7. StacksDiffer(calls2)
  <2> SUFFICES ASSUME NEW i \in 1 .. n
               PROVE  /\ calls2[i].pc \in {"create", "set"} =>
                           \A j \in 1 .. i - 1 : calls2[j].stk = NoStack \/ calls2[j].pc = "set"
                      /\ calls2[i].pc = "set" =>
                           \A j \in 1 .. n : j # i => calls2[j].stk # calls2[i].stk
    BY <1>1 DEF StacksDiffer
  <2>1. /\ calls[i].pc \in {"create", "set"} =>
             \A j \in 1 .. i - 1 : calls[j].stk = NoStack \/ calls[j].pc = "set"
        /\ calls[i].pc = "set" =>
             \A j \in 1 .. n : j # i => calls[j].stk # calls[i].stk
    BY <1>1 DEF ThreadInv, StacksDiffer
  <2>2. \A j \in 1 .. i - 1 : calls2[j] = calls[j]
    BY <1>1, <1>2
  <2>3. \A j \in 1 .. n : j = n \/ j \in 1 .. n - 1
    BY <1>1
  <2>4. CASE i = n
    BY <1>1, <1>2, <2>1, <2>2, <2>3, <2>4
  <2>5. CASE i # n
    BY <1>1, <1>2, <2>1, <2>2, <2>3, <2>5
  <2>6. QED
    BY <2>4, <2>5
<1>8. ASSUME NEW i \in 1 .. n - 1 PROVE Follows(calls2[i], calls2[i + 1])
  <2>1. Follows(calls[i], calls[i + 1]) /\ calls2[i] = calls[i]
    BY <1>1, <1>2 DEF ThreadInv
  <2>2. CASE i + 1 = n
    BY <1>1, <2>2 DEF Follows, Running
  <2>3. CASE i + 1 # n
    <3>1. i + 1 \in 1 .. n - 1
      BY <1>1, <2>3
    <3>2. QED
      BY <1>2, <2>1, <3>1
  <2>4. QED
    BY <2>2, <2>3
<1>9. own # NoStack => InFrames(calls2, fs2[own]) /\ Base(calls2, fs2[own]) = Base(calls, fs[own])
  <2> SUFFICES ASSUME own # NoStack
               PROVE  InFrames(calls2, fs2[own]) /\ Base(calls2, fs2[own]) = Base(calls, fs[own])
    OBVIOUS
  <2>1. fs2[own] = fs[own] /\ InFrames(calls, fs[own])
    BY DEF ThreadInv
  <2>2. Framed(calls2[n], fs[own], Len(fs[own]))
    BY <1>1 DEF Framed, Running
  <2>3. ~ Pushed(calls2[n]) /\ ~ Pushed(calls[n])
    BY <1>1, <1>4 DEF Pushed, RaPhase, Running
  <2>4. Len(fs[own]) \in Nat /\ n \in Nat \ {0}
    BY <1>1
  <2>5. InFrames(calls2, fs[own]) /\ Base(calls2, fs[own]) = Base(calls, fs[own])
    <3>1. \A i \in 1 .. n - 1 : calls2[i] = calls[i]
      BY <1>2
    <3>2. Pushed(calls2[n]) <=> Pushed(calls[n])
      BY <2>3
    <3>3. InFrames(calls, fs[own])
      BY <2>1
    <3>4. QED
      BY <1>1, <2>2, <2>4, <3>1, <3>2, <3>3, TopFrames
  <2>6. QED
    BY <2>1, <2>5
<1>10. QED
  BY <1>1, <1>6, <1>7, <1>8, <1>9 DEF ThreadInv

(* A thread sets its TLS value: none of its activations has a frame yet.   *)
LEMMA SetThread ==
  ASSUME NEW calls, NEW calls2, NEW n, NEW b, NEW own, NEW own2, NEW fs, NEW lists, NEW on,
         Replaces(calls, calls2, n, b),
         ThreadInv(calls, own, fs, lists, on),
         calls[n].pc = "set", own2 = calls[n].stk,
         b.pc = "check", b.stk = own2, ~ b.owns, b.ra = calls[n].ra,
         b.hub = calls[n].hub, b.stable = calls[n].stable
  PROVE  ThreadInv(calls2, own2, fs, lists, on) /\ Base(calls2, fs[own2]) = 0
<1>1. n \in Nat /\ n > 0 /\ n \in 1 .. n /\ Len(calls) = n /\ Len(calls2) = n /\ calls2[n] = b
  BY DEF Replaces
<1>2. \A i \in 1 .. n - 1 : calls2[i] = calls[i] /\ i \in 1 .. n /\ calls[i] \in Act
  BY DEF Replaces
<1>3. RaPhase(calls[n]) /\ SearchPhase(calls[n], lists, on) /\ StackPhase(calls[n], own)
  BY <1>1 DEF ThreadInv
<1>4. fs[own2] = <<>> /\ own2 # NoStack
  BY <1>1, <1>3 DEF ThreadInv, StackPhase, Pushing
<1>5. RaPhase(b) /\ StackPhase(b, own2) /\ SearchPhase(b, lists, on)
  BY <1>3, <1>4 DEF RaPhase, StackPhase, SearchPhase, Pushing, Running
<1>6. \A i \in 1 .. n - 1 :
        /\ calls[i].stk = NoStack \/ calls[i].pc = "set"
        /\ calls[i].stk # own2
  <2>1. \A i \in 1 .. n - 1 : i # n /\ i \in 1 .. n
    BY <1>1
  <2>2. StacksDiffer(calls)
    BY DEF ThreadInv
  <2>3. /\ calls[n].pc \in {"create", "set"} =>
             \A j \in 1 .. n - 1 : calls[j].stk = NoStack \/ calls[j].pc = "set"
        /\ calls[n].pc = "set" => \A j \in 1 .. n : j # n => calls[j].stk # calls[n].stk
    BY <1>1, <2>2 DEF StacksDiffer
  <2>4. QED
    BY <2>1, <2>3
<1>7. ASSUME NEW i \in 1 .. n
      PROVE  /\ RaPhase(calls2[i]) /\ StackPhase(calls2[i], own2)
             /\ SearchPhase(calls2[i], lists, on)
             /\ calls2[i].pc = "set" => fs[calls2[i].stk] = <<>>
  <2>1. CASE i = n
    BY <1>1, <1>5, <2>1
  <2>2. CASE i # n
    <3>1. i \in 1 .. n - 1
      BY <1>1, <2>2
    <3>2. /\ RaPhase(calls[i]) /\ StackPhase(calls[i], own)
          /\ SearchPhase(calls[i], lists, on)
          /\ calls[i].pc = "set" => fs[calls[i].stk] = <<>>
      BY <1>1, <3>1 DEF ThreadInv
    <3>3. StackPhase(calls[i], own2)
      BY <1>6, <3>1, <3>2 DEF StackPhase
    <3>4. QED
      BY <1>2, <3>1, <3>2, <3>3
  <2>3. QED
    BY <2>1, <2>2
<1>8. StacksDiffer(calls2)
  <2> SUFFICES ASSUME NEW i \in 1 .. n
               PROVE  /\ calls2[i].pc \in {"create", "set"} =>
                           \A j \in 1 .. i - 1 : calls2[j].stk = NoStack \/ calls2[j].pc = "set"
                      /\ calls2[i].pc = "set" =>
                           \A j \in 1 .. n : j # i => calls2[j].stk # calls2[i].stk
    BY <1>1 DEF StacksDiffer
  <2>1. /\ calls[i].pc \in {"create", "set"} =>
             \A j \in 1 .. i - 1 : calls[j].stk = NoStack \/ calls[j].pc = "set"
        /\ calls[i].pc = "set" =>
             \A j \in 1 .. n : j # i => calls[j].stk # calls[i].stk
    BY <1>1 DEF ThreadInv, StacksDiffer
  <2>2. \A j \in 1 .. i - 1 : calls2[j] = calls[j]
    BY <1>1, <1>2
  <2>3. \A j \in 1 .. n : j = n \/ j \in 1 .. n - 1
    BY <1>1
  <2>4. CASE i = n
    BY <1>1, <2>4
  <2>5. CASE i # n
    BY <1>1, <1>2, <1>6, <2>1, <2>2, <2>3, <2>5
  <2>6. QED
    BY <2>4, <2>5
<1>9. ASSUME NEW i \in 1 .. n - 1 PROVE Follows(calls2[i], calls2[i + 1])
  <2>1. Follows(calls[i], calls[i + 1]) /\ calls2[i] = calls[i]
    BY <1>1, <1>2 DEF ThreadInv
  <2>2. CASE i + 1 = n
    BY <1>1, <2>2 DEF Follows, Running
  <2>3. CASE i + 1 # n
    <3>1. i + 1 \in 1 .. n - 1
      BY <1>1, <2>3
    <3>2. QED
      BY <1>2, <2>1, <3>1
  <2>4. QED
    BY <2>2, <2>3
<1>10. \A i \in 1 .. n : calls2[i].pc \notin Running \cup {"find", "write"}
  <2>1. ASSUME NEW i \in 1 .. n - 1 PROVE calls2[i].pc \notin Running \cup {"find", "write"}
    <3>1. StackPhase(calls[i], own)
      BY <1>1, <1>2 DEF ThreadInv
    <3>2. QED
      BY <1>2, <1>6, <3>1 DEF StackPhase, Pushing, Running
  <2>2. \A i \in 1 .. n : i = n \/ i \in 1 .. n - 1
    BY <1>1
  <2>3. QED
    BY <1>1, <2>1, <2>2 DEF Running
<1>11. \A i \in 1 .. n : ~ Pushed(calls2[i]) /\ ~ calls2[i].owns
  BY <1>7, <1>10 DEF Pushed, RaPhase
<1>12. Base(calls2, fs[own2]) = 0
  <2>1. {j \in 1 .. n : Pushed(calls2[j])} = {}
    BY <1>11
  <2>2. Depth(calls2, n) = 0
    BY <2>1, FS_EmptySet DEF Depth
  <2>3. QED
    BY <1>1, <1>4, <2>2 DEF Base
<1>13. InFrames(calls2, fs[own2])
  <2>1. \A i \in 1 .. n : \A d : Framed(calls2[i], fs[own2], d)
    BY <1>10, <1>11 DEF Framed
  <2>2. QED
    BY <1>1, <1>12, <2>1 DEF InFrames
<1>14. QED
  BY <1>1, <1>7, <1>8, <1>9, <1>12, <1>13 DEF ThreadInv

(* The steps of others leave the frames of a thread alone.                 *)
LEMMA SameThread ==
  ASSUME NEW calls \in Seq(Act), NEW own, NEW fs, NEW fs2, NEW lists, NEW on,
         ThreadInv(calls, own, fs, lists, on),
         own # NoStack => InFrames(calls, fs2[own]),
         \A i \in 1 .. Len(calls) : calls[i].pc = "set" => fs2[calls[i].stk] = fs[calls[i].stk]
  PROVE  ThreadInv(calls, own, fs2, lists, on)
BY DEF ThreadInv

----------------------------------------------------------------------------
(* The lists.  A suffix of a list stays one when an item is put in front.  *)
LEMMA SearchesLonger ==
  ASSUME NEW a, NEW l \in Seq(Proxies), NEW p \in Proxies, Searches(a, l)
  PROVE  Searches(a, <<p>> \o l)
<1> DEFINE l2 == <<p>> \o l
<1>1. PICK m \in 0 .. Len(l) :
        /\ a.rest = SubSeq(l, m + 1, Len(l))
        /\ \A q \in a.stable : \E j \in m + 1 .. Len(l) : l[j] = q
        /\ a.pc = "write" => m < Len(l) /\ a.func = l[m + 1]
  BY DEF Searches
<1>2. l2 \in Seq(Proxies) /\ Len(l2) = Len(l) + 1 /\ \A j \in 1 .. Len(l) : l2[j + 1] = l[j]
  OBVIOUS
<1>3. SubSeq(l2, m + 2, Len(l2)) = SubSeq(l, m + 1, Len(l))
  <2>1. Len(SubSeq(l2, m + 2, Len(l2))) = Len(l) - m /\ Len(SubSeq(l, m + 1, Len(l))) = Len(l) - m
    BY <1>2
  <2>2. \A j \in 1 .. Len(l) - m : SubSeq(l2, m + 2, Len(l2))[j] = SubSeq(l, m + 1, Len(l))[j]
    BY <1>2
  <2>3. SubSeq(l2, m + 2, Len(l2)) \in Seq(Proxies) /\ SubSeq(l, m + 1, Len(l)) \in Seq(Proxies)
    BY <1>2
  <2>4. QED
    BY <2>1, <2>2, <2>3
<1> HIDE DEF l2
<1>4. \A q \in a.stable : \E j \in m + 2 .. Len(l2) : l2[j] = q
  <2> SUFFICES ASSUME NEW q \in a.stable PROVE \E j \in m + 2 .. Len(l2) : l2[j] = q
    OBVIOUS
  <2>1. PICK j \in m + 1 .. Len(l) : l[j] = q
    BY <1>1
  <2>2. j + 1 \in m + 2 .. Len(l2) /\ l2[j + 1] = q
    BY <1>2, <2>1
  <2>3. QED
    BY <2>2
<1>5. a.pc = "write" => m + 1 < Len(l2) /\ a.func = l2[m + 2]
  BY <1>1, <1>2
<1> DEFINE k == m + 1
<1>6. k \in 0 .. Len(l2) /\ k + 1 = m + 2
  BY <1>2
<1>7. Searches(a, l2)
  <2>1. a.rest = SubSeq(l2, k + 1, Len(l2))
    BY <1>1, <1>3, <1>6
  <2>2. \A q \in a.stable : \E j \in k + 1 .. Len(l2) : l2[j] = q
    BY <1>4, <1>6
  <2>3. a.pc = "write" => k < Len(l2) /\ a.func = l2[k + 1]
    BY <1>5, <1>6
  <2> HIDE DEF k
  <2>4. QED
    BY <1>6, <2>1, <2>2, <2>3 DEF Searches
<1>8. QED
  BY <1>7 DEF l2

LEMMA RangeIsItems ==
  ASSUME NEW l \in Seq(Proxies) PROVE \A p : p \in Range(l) <=> \E i \in 1 .. Len(l) : l[i] = p
BY DEF Range

LEMMA InjectiveLonger ==
  ASSUME NEW l \in Seq(Proxies), NEW p \in Proxies, IsInjectiveSeq(l), p \notin Range(l)
  PROVE  /\ IsInjectiveSeq(<<p>> \o l)
         /\ \A q : q \in Range(<<p>> \o l) <=> q = p \/ q \in Range(l)
<1> DEFINE l2 == <<p>> \o l
<1>1. /\ l2 \in Seq(Proxies) /\ Len(l2) = Len(l) + 1 /\ l2[1] = p
      /\ \A j \in 1 .. Len(l2) : j > 1 => l2[j] = l[j - 1] /\ j - 1 \in 1 .. Len(l)
  OBVIOUS
<1>2. \A j \in 1 .. Len(l) : j + 1 \in 1 .. Len(l2) /\ l2[j + 1] = l[j]
  OBVIOUS
<1> HIDE DEF l2
<1>3. \A j \in 1 .. Len(l) : l[j] # p
  BY RangeIsItems
<1>4. IsInjectiveSeq(l2)
  <2> SUFFICES ASSUME NEW i \in 1 .. Len(l2), NEW j \in 1 .. Len(l2), l2[i] = l2[j], i < j
               PROVE  FALSE
    BY DEF IsInjectiveSeq
  <2>1. j > 1 /\ j - 1 \in 1 .. Len(l) /\ l2[j] = l[j - 1]
    BY <1>1
  <2>2. CASE i = 1
    BY <1>1, <1>3, <2>1, <2>2
  <2>3. CASE i > 1
    <3>1. i - 1 \in 1 .. Len(l) /\ l2[i] = l[i - 1]
      BY <1>1, <2>3
    <3>2. i - 1 = j - 1
      BY <2>1, <3>1 DEF IsInjectiveSeq
    <3>3. QED
      BY <3>2
  <2>4. QED
    BY <2>2, <2>3
<1>5. \A q : (\E i \in 1 .. Len(l2) : l2[i] = q) <=> q = p \/ \E i \in 1 .. Len(l) : l[i] = q
  <2> SUFFICES ASSUME NEW q
               PROVE  (\E i \in 1 .. Len(l2) : l2[i] = q)
                      <=> q = p \/ \E i \in 1 .. Len(l) : l[i] = q
    OBVIOUS
  <2>1. ASSUME NEW i \in 1 .. Len(l2), l2[i] = q
        PROVE  q = p \/ \E j \in 1 .. Len(l) : l[j] = q
    BY <1>1, <2>1
  <2>2. 1 \in 1 .. Len(l2) /\ l2[1] = p
    BY <1>1
  <2>3. ASSUME NEW j \in 1 .. Len(l), l[j] = q PROVE \E i \in 1 .. Len(l2) : l2[i] = q
    BY <1>2, <2>3
  <2>4. QED
    BY <2>1, <2>2, <2>3
<1>6. l2 \in Seq(Proxies)
  BY DEF l2
<1>7. \A q : q \in Range(l2) <=> q = p \/ q \in Range(l)
  BY <1>5, <1>6, RangeIsItems
<1>8. QED
  BY <1>4, <1>7 DEF l2

(* hooking puts proxies in front of the lists.                             *)
LEMMA GrowThread ==
  ASSUME NEW calls \in Seq(Act), NEW own, NEW fs, NEW lists, NEW lists2, NEW on, NEW on2,
         ThreadInv(calls, own, fs, lists, on),
         \A h \in Hubs : on[h] \subseteq on2[h],
         \A h \in Hubs : lists[h] \in Seq(Proxies),
         \A h \in Hubs : lists2[h] = lists[h] \/ \E p \in Proxies : lists2[h] = <<p>> \o lists[h]
  PROVE  ThreadInv(calls, own, fs, lists2, on2)
<1>1. ASSUME NEW i \in 1 .. Len(calls) PROVE SearchPhase(calls[i], lists2, on2)
  <2>1. SearchPhase(calls[i], lists, on) /\ calls[i].hub \in Hubs
    <3>1. calls[i] \in Act
      OBVIOUS
    <3>2. QED
      BY <3>1 DEF ThreadInv, Act
  <2>2. Searches(calls[i], lists[calls[i].hub]) => Searches(calls[i], lists2[calls[i].hub])
    BY <2>1, SearchesLonger
  <2>3. QED
    BY <2>1, <2>2 DEF SearchPhase
<1>2. QED
  BY <1>1 DEF ThreadInv

(* unhooking only makes fewer proxies stable.                              *)
Loses(a, b) ==
  /\ b.hub = a.hub /\ b.ra = a.ra /\ b.pc = a.pc /\ b.func = a.func /\ b.rest = a.rest
  /\ b.stk = a.stk /\ (b.owns <=> a.owns) /\ b.via = a.via /\ b.visited = a.visited
  /\ b.stable \subseteq a.stable

LEMMA LoseFramed ==
  ASSUME NEW a, NEW b, NEW fr, NEW d, Loses(a, b), Framed(a, fr, d)
  PROVE  Framed(b, fr, d)
<1>1. \A l : InChain(a, l) => InChain(b, l)
  <2> SUFFICES ASSUME NEW l, InChain(a, l) PROVE InChain(b, l)
    OBVIOUS
  <2>1. PICK k \in 1 .. Len(l) : \E m \in k .. Len(l) :
          /\ l[k] = a.func
          /\ \A p \in a.visited : \E j \in 1 .. k : l[j] = p
          /\ \A p \in a.stable : p \in a.visited \/ \E j \in m + 1 .. Len(l) : l[j] = p
          /\ a.pc = "prev" => a.rest = SubSeq(l, m + 1, Len(l))
    BY DEF InChain
  <2>2. \E m \in k .. Len(l) :
        /\ l[k] = b.func
        /\ \A p \in b.visited : \E j \in 1 .. k : l[j] = p
        /\ \A p \in b.stable : p \in b.visited \/ \E j \in m + 1 .. Len(l) : l[j] = p
        /\ b.pc = "prev" => b.rest = SubSeq(l, m + 1, Len(l))
    BY <2>1 DEF Loses
  <2>3. QED
    BY <2>2 DEF InChain
<1>2. QED
  BY <1>1 DEF Framed, Loses

LEMMA LoseThread ==
  ASSUME NEW calls \in Seq(Act), NEW calls2, NEW own, NEW fs, NEW lists, NEW on, NEW on2,
         ThreadInv(calls, own, fs, lists, on),
         Len(calls2) = Len(calls),
         \A i \in 1 .. Len(calls) : Loses(calls[i], calls2[i]),
         \A i \in 1 .. Len(calls) : calls2[i].stable \subseteq on2[calls2[i].hub]
  PROVE  /\ ThreadInv(calls2, own, fs, lists, on2)
         /\ Base(calls2, fs[own]) = Base(calls, fs[own])
<1>1. ASSUME NEW i \in 1 .. Len(calls)
      PROVE  /\ RaPhase(calls2[i]) /\ StackPhase(calls2[i], own)
             /\ SearchPhase(calls2[i], lists, on2)
             /\ calls2[i].pc = "set" => fs[calls2[i].stk] = <<>>
  <2>1. /\ RaPhase(calls[i]) /\ StackPhase(calls[i], own)
        /\ SearchPhase(calls[i], lists, on)
        /\ calls[i].pc = "set" => fs[calls[i].stk] = <<>>
    BY DEF ThreadInv
  <2>2. Loses(calls[i], calls2[i])
    OBVIOUS
  <2>3. RaPhase(calls2[i]) /\ StackPhase(calls2[i], own)
    BY <2>1, <2>2 DEF Loses, RaPhase, StackPhase
  <2>4. \A l : Searches(calls[i], l) => Searches(calls2[i], l)
    BY <2>2 DEF Searches, Loses
  <2>5. SearchPhase(calls2[i], lists, on2)
    BY <2>1, <2>2, <2>4 DEF SearchPhase, Loses
  <2>6. QED
    BY <2>1, <2>2, <2>3, <2>5 DEF Loses
<1>2. StacksDiffer(calls2)
  <2> SUFFICES ASSUME NEW i \in 1 .. Len(calls)
               PROVE  /\ calls2[i].pc \in {"create", "set"} =>
                           \A j \in 1 .. i - 1 : calls2[j].stk = NoStack \/ calls2[j].pc = "set"
                      /\ calls2[i].pc = "set" =>
                           \A j \in 1 .. Len(calls) : j # i => calls2[j].stk # calls2[i].stk
    BY DEF StacksDiffer
  <2>1. /\ calls[i].pc \in {"create", "set"} =>
             \A j \in 1 .. i - 1 : calls[j].stk = NoStack \/ calls[j].pc = "set"
        /\ calls[i].pc = "set" =>
             \A j \in 1 .. Len(calls) : j # i => calls[j].stk # calls[i].stk
    BY DEF ThreadInv, StacksDiffer
  <2>2. \A j \in 1 .. Len(calls) : calls2[j].pc = calls[j].pc /\ calls2[j].stk = calls[j].stk
    BY DEF Loses
  <2>3. \A j \in 1 .. i - 1 : j \in 1 .. Len(calls)
    OBVIOUS
  <2>4. QED
    BY <2>1, <2>2, <2>3
<1>3. ASSUME NEW i \in 1 .. Len(calls) - 1 PROVE Follows(calls2[i], calls2[i + 1])
  <2>1. Follows(calls[i], calls[i + 1])
    BY DEF ThreadInv
  <2>2. i \in 1 .. Len(calls) /\ i + 1 \in 1 .. Len(calls)
    OBVIOUS
  <2>3. Loses(calls[i], calls2[i]) /\ Loses(calls[i + 1], calls2[i + 1])
    BY <2>2
  <2>4. QED
    BY <2>1, <2>3 DEF Follows, Loses
<1>4. \A i \in 1 .. Len(calls) : Pushed(calls[i]) <=> Pushed(calls2[i])
  BY DEF Loses, Pushed
<1>5. \A i \in Nat : i <= Len(calls) => Depth(calls2, i) = Depth(calls, i)
  BY <1>4, DepthIsLocal
<1>6. Base(calls2, fs[own]) = Base(calls, fs[own])
  BY <1>5 DEF Base
<1>7. own # NoStack => InFrames(calls2, fs[own])
  <2> SUFFICES ASSUME own # NoStack PROVE InFrames(calls2, fs[own])
    OBVIOUS
  <2>1. InFrames(calls, fs[own])
    BY DEF ThreadInv
  <2>2. ASSUME NEW i \in 1 .. Len(calls)
        PROVE  Framed(calls2[i], fs[own], Base(calls2, fs[own]) + Depth(calls2, i))
    <3>1. Framed(calls[i], fs[own], Base(calls, fs[own]) + Depth(calls, i))
      BY <2>1 DEF InFrames
    <3>2. Framed(calls2[i], fs[own], Base(calls, fs[own]) + Depth(calls, i))
      BY <3>1, LoseFramed
    <3>3. i \in Nat /\ i <= Len(calls)
      OBVIOUS
    <3>4. Depth(calls2, i) = Depth(calls, i)
      BY <1>5, <3>3
    <3>5. QED
      BY <1>6, <3>2, <3>4
  <2>3. QED
    BY <1>6, <2>1, <2>2 DEF InFrames
<1>8. QED
  BY <1>1, <1>2, <1>3, <1>6, <1>7 DEF ThreadInv

----------------------------------------------------------------------------
(* A step of thread t, and the others.                                     *)
Others(t) ==
  /\ \A u \in Threads \ {t} : act'[u] = act[u] /\ tls'[u] = tls[u] /\ (u \in exiting' <=> u \in exiting)
  /\ list' = list /\ enabled' = enabled

(* What t may have done to stacks: to its own, and to those nobody has.    *)
OwnStacks(t) ==
  /\ \A s \in Stacks : frames'[s] = frames[s] \/ s \in StacksOf(t) \/ s \notin used
  /\ StacksOf(t)' \subseteq used'
  /\ \A s \in StacksOf(t)' : s \in StacksOf(t) \/ s \notin used
  /\ \A s \in used : s \in used' \/ s \in StacksOf(t)

StepInv(t) ==
  /\ Types' /\ Others(t) /\ OwnStacks(t)
  /\ ThreadInv(act'[t], tls'[t], frames', list, enabled)
  /\ t \notin exiting' /\ tls'[t] # NoStack => Base(act'[t], frames'[tls'[t]]) = 0
  /\ \A s \in Stacks : Invited(frames'[s])

LEMMA KnowsStacks ==
  ASSUME Types, NEW t \in Threads
  PROVE  /\ \A s : s \in StacksOf(t) <=>
                     s # NoStack /\ (s = tls[t] \/ \E i \in 1 .. Len(act[t]) : act[t][i].stk = s)
         /\ tls[t] # NoStack => tls[t] \in StacksOf(t) /\ tls[t] \in Stacks
         /\ \A i \in 1 .. Len(act[t]) : act[t][i] \in Act /\ act[t][i].stk \in Stacks \cup {NoStack}
<1>1. act[t] \in Seq(Act) /\ tls[t] \in Stacks \cup {NoStack}
  BY DEF Types
<1>2. \A i \in 1 .. Len(act[t]) : act[t][i] \in Act
  BY <1>1
<1>3. QED
  BY <1>1, <1>2 DEF StacksOf, Act

LEMMA StepSuffices ==
  ASSUME IInv, NEW t \in Threads, StepInv(t)
  PROVE  IInv'
<1>1. Types' /\ ListsAreSound' /\ \A s \in Stacks : Invited(frames'[s])
  BY DEF StepInv, IInv, Others, ListsAreSound
<1>2. ASSUME NEW u \in Threads \ {t} PROVE StacksOf(u)' = StacksOf(u)
  BY DEF StepInv, Others, StacksOf
<1>3. ASSUME NEW u \in Threads \ {t}
      PROVE  /\ StacksOf(u) \cap StacksOf(t) = {} /\ StacksOf(u) \subseteq used
             /\ StacksOf(u) \cap StacksOf(t)' = {} /\ StacksOf(u) \subseteq used'
  <2>1. StacksOf(u) \cap StacksOf(t) = {} /\ StacksOf(u) \subseteq used
    BY DEF IInv, StacksAreExclusive
  <2>2. QED
    BY <2>1 DEF StepInv, OwnStacks
<1>4. StacksAreExclusive'
  <2>1. ASSUME NEW u \in Threads, NEW v \in Threads, u # v
        PROVE  StacksOf(u)' \cap StacksOf(v)' = {}
    <3>1. CASE u = t
      BY <1>2, <1>3, <2>1, <3>1
    <3>2. CASE v = t
      BY <1>2, <1>3, <2>1, <3>2
    <3>3. CASE u # t /\ v # t
      BY <1>2, <2>1, <3>3 DEF IInv, StacksAreExclusive
    <3>4. QED
      BY <3>1, <3>2, <3>3
  <2>2. ASSUME NEW u \in Threads PROVE StacksOf(u)' \subseteq used'
    <3>1. CASE u = t
      BY <3>1 DEF StepInv, OwnStacks
    <3>2. CASE u # t
      BY <1>2, <1>3, <3>2
    <3>3. QED
      BY <3>1, <3>2
  <2>3. QED
    BY <2>1, <2>2 DEF StacksAreExclusive
<1>5. ASSUME NEW u \in Threads \ {t}
      PROVE  /\ ThreadInv(act'[u], tls'[u], frames', list', enabled')
             /\ u \notin exiting' /\ tls'[u] # NoStack => Base(act'[u], frames'[tls'[u]]) = 0
  <2>1. ThreadInv(act[u], tls[u], frames, list, enabled) /\ act[u] \in Seq(Act)
    BY DEF IInv, ThreadsInv, Types
  <2>2. \A s \in StacksOf(u) : s \in Stacks => frames'[s] = frames[s]
    BY <1>3 DEF StepInv, OwnStacks
  <2>3. tls[u] # NoStack => frames'[tls[u]] = frames[tls[u]]
    BY <2>2, KnowsStacks DEF IInv
  <2>4. ASSUME NEW i \in 1 .. Len(act[u]), act[u][i].pc = "set"
        PROVE  frames'[act[u][i].stk] = frames[act[u][i].stk]
    <3>1. act[u][i].stk # NoStack
      BY <2>1, <2>4 DEF ThreadInv, StackPhase, Pushing
    <3>2. act[u][i].stk \in StacksOf(u) /\ act[u][i].stk \in Stacks
      BY <3>1, KnowsStacks DEF IInv
    <3>3. QED
      BY <2>2, <3>2
  <2>5. tls[u] # NoStack => InFrames(act[u], frames'[tls[u]])
    BY <2>1, <2>3 DEF ThreadInv
  <2>6. ThreadInv(act[u], tls[u], frames', list, enabled)
    BY <2>1, <2>4, <2>5, SameThread
  <2>7. act'[u] = act[u] /\ tls'[u] = tls[u] /\ (u \in exiting' <=> u \in exiting)
        /\ list' = list /\ enabled' = enabled
    BY DEF StepInv, Others
  <2>8. u \notin exiting /\ tls[u] # NoStack => Base(act[u], frames[tls[u]]) = 0
    BY DEF IInv, NothingLeftBelow
  <2>9. QED
    BY <2>3, <2>6, <2>7, <2>8
<1>6. ThreadsInv'
  <2>1. ASSUME NEW u \in Threads PROVE ThreadInv(act'[u], tls'[u], frames', list', enabled')
    BY <1>5 DEF StepInv, Others
  <2>2. QED
    BY <2>1 DEF ThreadsInv
<1>7. NothingLeftBelow'
  <2>1. ASSUME NEW u \in Threads, u \notin exiting', tls'[u] # NoStack
        PROVE  Base(act'[u], frames'[tls'[u]]) = 0
    BY <1>5, <2>1 DEF StepInv
  <2>2. QED
    BY <2>1 DEF NothingLeftBelow
<1>8. QED
  BY <1>1, <1>4, <1>6, <1>7 DEF IInv

(* The effect of a step on the activations of its thread.                  *)
LEMMA SetTopEffect ==
  ASSUME Types, NEW t \in Threads, NEW b \in Act, act[t] # <<>>, SetTop(t, b)
  PROVE  /\ act' \in [Threads -> Seq(Act)]
         /\ Replaces(act[t], act'[t], Len(act[t]), b)
         /\ \A u \in Threads \ {t} : act'[u] = act[u]
         /\ Top(t) = act[t][Len(act[t])] /\ Top(t) \in Act /\ Len(act'[t]) = Len(act[t])
<1> DEFINE n == Len(act[t])
<1>1. act[t] \in Seq(Act) /\ act \in [Threads -> Seq(Act)]
  BY DEF Types
<1>2. n \in Nat /\ n > 0 /\ act[t][n] \in Act
  BY <1>1
<1>3. act' = [act EXCEPT ![t] = [act[t] EXCEPT ![n] = b]]
  BY <1>1 DEF SetTop
<1>4. act'[t] = [act[t] EXCEPT ![n] = b]
  BY <1>1, <1>3
<1>5. [act[t] EXCEPT ![n] = b] \in Seq(Act)
  BY <1>1, <1>2
<1>6. Len([act[t] EXCEPT ![n] = b]) = n /\ [act[t] EXCEPT ![n] = b][n] = b
      /\ \A i \in 1 .. n - 1 : [act[t] EXCEPT ![n] = b][i] = act[t][i]
  BY <1>1, <1>2
<1>7. act' \in [Threads -> Seq(Act)] /\ \A u \in Threads \ {t} : act'[u] = act[u]
  BY <1>1, <1>3, <1>5
<1>8. Replaces(act[t], act'[t], n, b)
  BY <1>1, <1>2, <1>4, <1>5, <1>6 DEF Replaces
<1>9. QED
  BY <1>2, <1>4, <1>6, <1>7, <1>8 DEF Top

LEMMA TopFacts ==
  ASSUME IInv, NEW t \in Threads, act[t] # <<>>
  PROVE  /\ Len(act[t]) \in Nat \ {0} /\ act[t] \in Seq(Act)
         /\ Top(t) \in Act /\ Top(t) = act[t][Len(act[t])]
         /\ RaPhase(Top(t)) /\ StackPhase(Top(t), tls[t]) /\ SearchPhase(Top(t), list, enabled)
         /\ Top(t).pc = "set" => frames[Top(t).stk] = <<>>
         /\ tls[t] # NoStack =>
              /\ tls[t] \in Stacks /\ frames[tls[t]] \in Seq(Frame \cup {Unwritten})
              /\ Len(frames[tls[t]]) \in Nat
              /\ InFrames(act[t], frames[tls[t]])
              /\ Framed(Top(t), frames[tls[t]], Len(frames[tls[t]]))
<1>1. act[t] \in Seq(Act) /\ ThreadInv(act[t], tls[t], frames, list, enabled)
  BY DEF IInv, Types, ThreadsInv
<1>2. Len(act[t]) \in Nat \ {0} /\ Len(act[t]) \in 1 .. Len(act[t]) /\ act[t][Len(act[t])] \in Act
  BY <1>1
<1>3. tls[t] # NoStack =>
              /\ tls[t] \in Stacks /\ frames[tls[t]] \in Seq(Frame \cup {Unwritten})
              /\ Len(frames[tls[t]]) \in Nat
  BY DEF IInv, Types
<1>4. tls[t] # NoStack => InFrames(act[t], frames[tls[t]])
  BY <1>1 DEF ThreadInv
<1>5. tls[t] # NoStack => Framed(Top(t), frames[tls[t]], Len(frames[tls[t]]))
  BY <1>2, <1>3, <1>4, TopIsFramed DEF Top
<1>6. /\ RaPhase(Top(t)) /\ StackPhase(Top(t), tls[t]) /\ SearchPhase(Top(t), list, enabled)
      /\ Top(t).pc = "set" => frames[Top(t).stk] = <<>>
  BY <1>1, <1>2 DEF ThreadInv, Top
<1>7. QED
  BY <1>1, <1>2, <1>3, <1>4, <1>5, <1>6 DEF Top

(* A step that changes nothing but the last activation.                    *)
LEMMA TopStep ==
  ASSUME IInv, NEW t \in Threads, act[t] # <<>>, NEW b \in Act, SetTop(t, b),
         UNCHANGED <<list, enabled, used, frames, tls, reserved, exiting>>,
         RaPhase(b), StackPhase(b, tls[t]), SearchPhase(b, list, enabled), b.pc # "set",
         b.pc = "create" => tls[t] = NoStack \/ Top(t).pc = "create",
         b.pc \in Running =>
           Top(t).pc \in Running /\ b.func = Top(t).func /\ b.ra = Top(t).ra,
         Pushed(b) <=> Pushed(Top(t)),
         tls[t] # NoStack => Framed(b, frames[tls[t]], Len(frames[tls[t]]))
  PROVE  StepInv(t)
<1> DEFINE n == Len(act[t])
<1>1. /\ act' \in [Threads -> Seq(Act)]
      /\ Replaces(act[t], act'[t], n, b)
      /\ \A u \in Threads \ {t} : act'[u] = act[u]
      /\ Len(act'[t]) = n
  BY SetTopEffect DEF IInv
<1>2. n \in Nat \ {0} /\ act[t] \in Seq(Act) /\ Top(t) = act[t][n]
  BY TopFacts
<1>3. Others(t)
  BY <1>1 DEF Others
<1>4. Types'
  <2>1. \A u \in Threads : Len(act'[u]) <= MaxDepth
    BY <1>1 DEF IInv, Types
  <2>2. QED
    BY <1>1, <2>1 DEF IInv, Types
<1>5. ThreadInv(act[t], tls[t], frames, list, enabled)
  BY DEF IInv, ThreadsInv
<1>6. tls[t] # NoStack =>
        InFrames(act'[t], frames[tls[t]]) /\ Base(act'[t], frames[tls[t]]) = Base(act[t], frames[tls[t]])
  <2> SUFFICES ASSUME tls[t] # NoStack
               PROVE  InFrames(act'[t], frames[tls[t]])
                      /\ Base(act'[t], frames[tls[t]]) = Base(act[t], frames[tls[t]])
    OBVIOUS
  <2>1. Len(frames[tls[t]]) \in Nat /\ InFrames(act[t], frames[tls[t]])
    BY TopFacts
  <2>2. Pushed(b) <=> Pushed(act[t][n])
    BY <1>2
  <2> HIDE DEF n
  <2>3. QED
    BY <1>1, <2>1, <2>2, ReplaceFrames
<1>7. \A i \in 1 .. n - 1 : act[t][i].pc \in Running => act[t][i].func \in Proxies
  <2>1. \A i \in 1 .. n - 1 : i \in 1 .. Len(act[t])
    BY <1>2
  <2>2. QED
    BY <1>5, <2>1, RunningAreProxies
<1>8. ThreadInv(act'[t], tls[t], frames, list, enabled)
  <2>1. b.pc = "create" => tls[t] = NoStack \/ act[t][n].pc = "create"
    BY <1>2
  <2>2. b.pc \in Running =>
          \/ act[t][n].pc \in Running /\ b.func = act[t][n].func /\ b.ra = act[t][n].ra
          \/ b.ra \in CallSites
    BY <1>2
  <2>3. \A s \in Stacks \ {tls[t]} : frames[s] = frames[s]
    OBVIOUS
  <2> HIDE DEF n
  <2>4. QED
    BY <1>1, <1>5, <1>6, <1>7, <2>1, <2>2, <2>3, ReplaceThread
<1>9. OwnStacks(t)
  <2>1. \A s : s \in StacksOf(t)' => s \in StacksOf(t)
    <3>1. SUFFICES ASSUME NEW s, s # NoStack, s = tls[t] \/ \E i \in 1 .. n : act'[t][i].stk = s
                   PROVE  s = tls[t] \/ \E i \in 1 .. n : act[t][i].stk = s
      <4>1. \A s : s \in StacksOf(t)' =>
                     s # NoStack /\ (s = tls[t] \/ \E i \in 1 .. n : act'[t][i].stk = s)
        BY <1>1 DEF StacksOf
      <4>2. \A s : s \in StacksOf(t) <=>
                     s # NoStack /\ (s = tls[t] \/ \E i \in 1 .. n : act[t][i].stk = s)
        BY KnowsStacks DEF IInv
      <4>3. QED
        BY <4>1, <4>2
    <3>2. ASSUME NEW i \in 1 .. n, act'[t][i].stk = s
          PROVE  s = tls[t] \/ \E j \in 1 .. n : act[t][j].stk = s
      <4>1. CASE i = n
        BY <1>1, <3>1, <3>2, <4>1 DEF Replaces, StackPhase
      <4>2. CASE i # n
        BY <1>1, <1>2, <3>2, <4>2 DEF Replaces
      <4>3. QED
        BY <4>1, <4>2
    <3>3. QED
      BY <3>1, <3>2
  <2>2. StacksOf(t) \subseteq used
    BY DEF IInv, StacksAreExclusive
  <2>3. QED
    BY <2>1, <2>2 DEF OwnStacks
<1>10. t \notin exiting /\ tls[t] # NoStack => Base(act[t], frames[tls[t]]) = 0
  BY DEF IInv, NothingLeftBelow
<1>11. \A s \in Stacks : Invited(frames[s])
  BY DEF IInv
<1>12. QED
  BY <1>3, <1>4, <1>6, <1>8, <1>9, <1>10, <1>11 DEF StepInv

----------------------------------------------------------------------------
(* sh_hub_push_stack(), step by step.                                      *)
LEMMA ToOriginalStep ==
  ASSUME IInv, NEW t \in Threads, act[t] # <<>>,
         NEW via \in {"chain", "reserved", "nostack", "recursive", "full"}, ToOriginal(t, via),
         UNCHANGED <<list, enabled, used, frames, tls, reserved, exiting>>,
         Top(t).pc \in {"enter", "create", "check", "find"},
         via = "chain" => Top(t).stable \subseteq Top(t).visited
  PROVE  StepInv(t)
<1> DEFINE a == Top(t)
           b == [a EXCEPT !.pc = "orig", !.via = via]
<1>1. a \in Act /\ RaPhase(a) /\ StackPhase(a, tls[t]) /\ SearchPhase(a, list, enabled)
  BY TopFacts
<1>2. b \in Act /\ SetTop(t, b)
  BY <1>1 DEF Act, Pcs, ToOriginal
<1>3. /\ b.pc = "orig" /\ b.via = via /\ b.hub = a.hub /\ b.stk = a.stk /\ b.owns = a.owns
      /\ b.stable = a.stable /\ b.visited = a.visited
  BY <1>1 DEF Act
<1>4. ~ a.owns
  BY <1>1 DEF RaPhase, Running
<1> HIDE DEF b
<1>5. ~ b.owns
  BY <1>3, <1>4
<1>6. RaPhase(b) /\ StackPhase(b, tls[t]) /\ SearchPhase(b, list, enabled)
  BY <1>1, <1>3, <1>5 DEF RaPhase, StackPhase, SearchPhase, Pushing, Running
<1>7. ~ Pushed(b) /\ ~ Pushed(a)
  BY <1>3, <1>4, <1>5 DEF Pushed
<1>8. \A fr, d : Framed(b, fr, d)
  BY <1>3, <1>5 DEF Framed, Running
<1>9. b.pc \notin {"set", "create"} /\ b.pc \notin Running
  BY <1>3 DEF Running
<1>10. QED
  BY <1>2, <1>6, <1>7, <1>8, <1>9, TopStep

(* A step of push that changes pc, and what the next steps work on.        *)
LEMMA PushStep ==
  ASSUME IInv, NEW t \in Threads, act[t] # <<>>, NEW b \in Act, SetTop(t, b),
         UNCHANGED <<list, enabled, used, frames, tls, reserved, exiting>>,
         Top(t).pc \in Pushing \ {"write"}, b.pc \in Pushing \ {"set", "write"},
         b.hub = Top(t).hub, b.ra = Top(t).ra, b.owns = Top(t).owns, b.stable = Top(t).stable,
         StackPhase(b, tls[t]),
         b.pc = "create" => tls[t] = NoStack \/ Top(t).pc = "create",
         b.pc = "find" => Searches(b, list[b.hub]) /\ tls[t] # NoStack
                          /\ Open(b.hub, frames[tls[t]], Len(frames[tls[t]]))
  PROVE  StepInv(t)
<1>1. RaPhase(Top(t)) /\ SearchPhase(Top(t), list, enabled)
  BY TopFacts
<1>2. ~ Top(t).owns /\ Top(t).ra \in CallSites
  BY <1>1 DEF RaPhase, Running, Pushing
<1>3. ~ b.owns
  BY <1>2
<1>4. RaPhase(b) /\ SearchPhase(b, list, enabled)
  BY <1>1, <1>2, <1>3 DEF RaPhase, SearchPhase, Pushing, Running
<1>5. ~ Pushed(b) /\ ~ Pushed(Top(t))
  BY <1>2, <1>3 DEF Pushed, Pushing
<1>6. tls[t] # NoStack => Framed(b, frames[tls[t]], Len(frames[tls[t]]))
  BY <1>3 DEF Framed, Running, Pushing
<1>7. b.pc # "set" /\ b.pc \notin Running
  BY DEF Running, Pushing
<1>8. QED
  BY <1>4, <1>5, <1>6, <1>7, TopStep

LEMMA ReadTlsStep ==
  ASSUME IInv, NEW t \in Threads, ReadTls(t) PROVE StepInv(t)
<1> DEFINE a == Top(t)
<1>1. act[t] # <<>> /\ a.pc = "enter"
      /\ UNCHANGED <<list, enabled, used, frames, tls, reserved, exiting>>
  BY DEF ReadTls, At
<1>2. a \in Act /\ StackPhase(a, tls[t])
  BY <1>1, TopFacts
<1>3. CASE t \in reserved
  BY <1>1, <1>3, ToOriginalStep DEF ReadTls
<1>4. CASE t \notin reserved /\ tls[t] = NoStack
  <2> DEFINE b == [a EXCEPT !.pc = "create"]
  <2>1. b \in Act /\ SetTop(t, b)
    BY <1>2, <1>4 DEF Act, Pcs, ReadTls, Goto
  <2>2. /\ b.pc = "create" /\ b.hub = a.hub /\ b.ra = a.ra /\ b.owns = a.owns
        /\ b.stable = a.stable /\ b.stk = a.stk
    BY <1>2 DEF Act
  <2> HIDE DEF b
  <2>3. StackPhase(b, tls[t])
    BY <1>1, <1>2, <2>2 DEF StackPhase, Pushing, Running
  <2>4. QED
    BY <1>1, <1>4, <2>1, <2>2, <2>3, PushStep DEF Pushing
<1>5. CASE t \notin reserved /\ tls[t] # NoStack
  <2> DEFINE b == [a EXCEPT !.pc = "check", !.stk = tls[t]]
  <2>0. tls[t] \in Stacks
    BY <1>5 DEF IInv, Types
  <2>1. b \in Act /\ SetTop(t, b)
    BY <1>2, <1>5, <2>0 DEF Act, Pcs, ReadTls
  <2>2. /\ b.pc = "check" /\ b.hub = a.hub /\ b.ra = a.ra /\ b.owns = a.owns
        /\ b.stable = a.stable /\ b.stk = tls[t]
    BY <1>2 DEF Act
  <2> HIDE DEF b
  <2>3. StackPhase(b, tls[t])
    BY <1>5, <2>2 DEF StackPhase, Pushing, Running
  <2>4. QED
    BY <1>1, <2>1, <2>2, <2>3, PushStep DEF Pushing
<1>6. QED
  BY <1>3, <1>4, <1>5

LEMMA SkipSlotStep ==
  ASSUME IInv, NEW t \in Threads, act[t] # <<>>, Top(t).pc = "create", Top(t).scan \in Slots,
         SetTop(t, [Top(t) EXCEPT !.scan = @ + 1]),
         UNCHANGED <<list, enabled, used, frames, tls, reserved, exiting>>
  PROVE  StepInv(t)
<1> DEFINE a == Top(t)
           b == [a EXCEPT !.scan = a.scan + 1]
<1>1. a \in Act /\ StackPhase(a, tls[t])
  BY TopFacts
<1>2. a.scan + 1 \in 1 .. NSlots + 1
  BY HubAssumption DEF Slots
<1>3. b \in Act /\ SetTop(t, b)
  BY <1>1, <1>2 DEF Act
<1>4. /\ b.pc = "create" /\ b.hub = a.hub /\ b.ra = a.ra /\ b.owns = a.owns
      /\ b.stable = a.stable /\ b.stk = a.stk
  BY <1>1 DEF Act
<1> HIDE DEF b
<1>5. StackPhase(b, tls[t])
  BY <1>1, <1>4 DEF StackPhase, Pushing, Running
<1>6. QED
  BY <1>3, <1>4, <1>5, PushStep DEF Pushing

LEMMA CheckRecursionStep ==
  ASSUME IInv, NEW t \in Threads, CheckRecursion(t) PROVE StepInv(t)
<1> DEFINE a  == Top(t)
           fr == frames[tls[t]]
<1>1. act[t] # <<>> /\ a.pc = "check"
      /\ UNCHANGED <<list, enabled, used, frames, tls, reserved, exiting>>
  BY DEF CheckRecursion, At
<1>2. a \in Act /\ StackPhase(a, tls[t]) /\ RaPhase(a) /\ SearchPhase(a, list, enabled)
  BY <1>1, TopFacts
<1>3. a.stk = tls[t] /\ tls[t] # NoStack
  BY <1>1, <1>2 DEF StackPhase, Pushing
<1>4. fr \in Seq(Frame \cup {Unwritten})
  BY <1>1, <1>3, TopFacts
<1>5. PICK verdict \in [1 .. Len(fr) -> BOOLEAN] :
        /\ \A i \in DOMAIN verdict : verdict[i] \in Forbids(fr[i], a.hub)
        /\ IF \E i \in DOMAIN verdict : verdict[i]
           THEN ToOriginal(t, "recursive")
           ELSE SetTop(t, [a EXCEPT !.pc = "find", !.rest = list[a.hub]])
  BY <1>3 DEF CheckRecursion
<1>6. CASE \E i \in DOMAIN verdict : verdict[i]
  BY <1>1, <1>5, <1>6, ToOriginalStep
<1>7. CASE ~ \E i \in DOMAIN verdict : verdict[i]
  <2> DEFINE b == [a EXCEPT !.pc = "find", !.rest = list[a.hub]]
  <2>0. a.hub \in Hubs /\ list[a.hub] \in Seq(Proxies)
    BY <1>2 DEF Act, IInv, Types
  <2>1. b \in Act /\ SetTop(t, b)
    BY <1>2, <1>5, <1>7, <2>0 DEF Act, Pcs
  <2>2. /\ b.pc = "find" /\ b.hub = a.hub /\ b.ra = a.ra /\ b.owns = a.owns
        /\ b.stable = a.stable /\ b.stk = a.stk /\ b.rest = list[a.hub]
    BY <1>2 DEF Act
  <2> HIDE DEF b
  <2>3. StackPhase(b, tls[t])
    BY <1>1, <1>2, <2>2 DEF StackPhase, Pushing, Running
  <2>4. Open(a.hub, fr, Len(fr))
    <3> SUFFICES ASSUME NEW n \in 1 .. Len(fr), fr[n] # Unwritten, fr[n].hub = a.hub
                 PROVE  fr[n].reentrant
      BY DEF Open
    <3>1. ~ verdict[n] /\ verdict[n] \in Forbids(fr[n], a.hub)
      BY <1>5, <1>7
    <3>2. verdict[n] = (fr[n].hub = a.hub /\ ~ fr[n].reentrant)
      BY <3>1 DEF Forbids
    <3>3. QED
      BY <3>1, <3>2
  <2>5. Searches(b, list[b.hub])
    <3> DEFINE l == list[a.hub]
    <3>1. l \in Seq(Proxies) /\ 0 \in 0 .. Len(l) /\ SubSeq(l, 0 + 1, Len(l)) = l
      BY <2>0
    <3>2. \A p \in a.stable : \E j \in 0 + 1 .. Len(l) : l[j] = p
      <4>1. a.stable \subseteq enabled[a.hub] /\ enabled[a.hub] \subseteq Range(l)
        BY <1>2, <2>0 DEF SearchPhase, IInv, ListsAreSound
      <4>2. QED
        BY <3>1, <4>1, RangeIsItems
    <3> HIDE DEF l
    <3>3. Searches(b, l)
      <4>1. b.rest = SubSeq(l, 0 + 1, Len(l))
        BY <2>2, <3>1 DEF l
      <4>2. \A p \in b.stable : \E j \in 0 + 1 .. Len(l) : l[j] = p
        BY <2>2, <3>2
      <4>3. b.pc # "write"
        BY <2>2
      <4>4. QED
        BY <3>1, <4>1, <4>2, <4>3 DEF Searches
    <3>4. QED
      BY <2>2, <3>3 DEF l
  <2>6. QED
    BY <1>1, <1>3, <2>1, <2>2, <2>3, <2>4, <2>5, PushStep DEF Pushing
<1>8. QED
  BY <1>6, <1>7

LEMMA SameItems ==
  ASSUME NEW l1 \in Seq(Proxies), NEW l2 \in Seq(Proxies), Len(l1) = Len(l2),
         \A j \in 1 .. Len(l1) : l1[j] = l2[j]
  PROVE  l1 = l2
OBVIOUS

LEMMA SuffixFacts ==
  ASSUME NEW l \in Seq(Proxies), NEW m \in 0 .. Len(l)
  PROVE  LET r == SubSeq(l, m + 1, Len(l))
         IN /\ r \in Seq(Proxies)
            /\ r = <<>> => m = Len(l)
            /\ r # <<>> => /\ m < Len(l) /\ Head(r) = l[m + 1] /\ l[m + 1] \in Proxies
                           /\ Tail(r) = SubSeq(l, (m + 1) + 1, Len(l))
<1> DEFINE r == SubSeq(l, m + 1, Len(l))
<1>1. r \in Seq(Proxies) /\ Len(r) = Len(l) - m /\ \A j \in 1 .. Len(r) : r[j] = l[m + j]
  OBVIOUS
<1>2. r = <<>> => m = Len(l)
  <2>1. r = <<>> => Len(r) = 0
    OBVIOUS
  <2> HIDE DEF r
  <2>2. QED
    BY <1>1, <2>1
<1>3. ASSUME r # <<>> PROVE m < Len(l) /\ Head(r) = l[m + 1] /\ l[m + 1] \in Proxies
  <2>1. Len(r) > 0
    BY <1>1, <1>3
  <2>2. QED
    BY <1>1, <2>1
<1>4. ASSUME r # <<>> PROVE Tail(r) = SubSeq(l, (m + 1) + 1, Len(l))
  <2> DEFINE q == SubSeq(l, (m + 1) + 1, Len(l))
  <2>1. q \in Seq(Proxies) /\ Len(q) = Len(l) - m - 1 /\ \A j \in 1 .. Len(q) : q[j] = l[m + 1 + j]
    BY <1>3, <1>4
  <2>2. /\ Tail(r) \in Seq(Proxies) /\ Len(Tail(r)) = Len(r) - 1
        /\ \A j \in 1 .. Len(r) - 1 : Tail(r)[j] = r[j + 1]
    BY <1>1, <1>4
  <2>3. \A j \in 1 .. Len(q) : Tail(r)[j] = q[j]
    BY <1>1, <2>1, <2>2
  <2>4. Len(Tail(r)) = Len(q)
    BY <1>1, <2>1, <2>2
  <2>5. Tail(r) = q
    <3> HIDE DEF q, r
    <3>1. QED
      BY <2>1, <2>2, <2>3, <2>4, SameItems
  <2>6. QED
    BY <2>5
<1>5. QED
  BY <1>1, <1>2, <1>3, <1>4

(* A step that changes the last activation and the frames of the stack.    *)
LEMMA FrameStep ==
  ASSUME IInv, NEW t \in Threads, act[t] # <<>>, NEW b \in Act, SetTop(t, b),
         UNCHANGED <<list, enabled, used, tls, reserved, exiting>>,
         tls[t] # NoStack,
         NEW fr2 \in Seq(Frame \cup {Unwritten}), frames' = [frames EXCEPT ![tls[t]] = fr2],
         Invited(fr2),
         RaPhase(b), StackPhase(b, tls[t]), SearchPhase(b, list, enabled),
         b.pc \notin {"create", "set"},
         b.pc \in Running => b.ra \in CallSites,
         InFrames(act'[t], fr2), Base(act'[t], fr2) = Base(act[t], frames[tls[t]])
  PROVE  StepInv(t)
<1> DEFINE n == Len(act[t])
<1>1. /\ act' \in [Threads -> Seq(Act)]
      /\ Replaces(act[t], act'[t], n, b)
      /\ \A u \in Threads \ {t} : act'[u] = act[u]
      /\ Len(act'[t]) = n
  BY SetTopEffect DEF IInv
<1>2. n \in Nat \ {0} /\ act[t] \in Seq(Act) /\ tls[t] \in Stacks
  BY TopFacts
<1>3. Others(t)
  BY <1>1 DEF Others
<1>4. /\ frames' \in [Stacks -> Seq(Frame \cup {Unwritten})] /\ frames'[tls[t]] = fr2
      /\ \A s \in Stacks \ {tls[t]} : frames'[s] = frames[s]
  BY <1>2 DEF IInv, Types
<1>5. Types'
  <2>1. \A u \in Threads : Len(act'[u]) <= MaxDepth
    BY <1>1 DEF IInv, Types
  <2>2. QED
    BY <1>1, <1>4, <2>1 DEF IInv, Types
<1>6. ThreadInv(act[t], tls[t], frames, list, enabled)
  BY DEF IInv, ThreadsInv
<1>7. \A i \in 1 .. n - 1 : act[t][i].pc \in Running => act[t][i].func \in Proxies
  <2>1. \A i \in 1 .. n - 1 : i \in 1 .. Len(act[t])
    BY <1>2
  <2>2. QED
    BY <1>6, <2>1, RunningAreProxies
<1>8. ThreadInv(act'[t], tls[t], frames', list, enabled)
  <2>1. b.pc # "set" /\ b.pc # "create"
    OBVIOUS
  <2>2. InFrames(act'[t], frames'[tls[t]])
    BY <1>4
  <2> HIDE DEF n
  <2>3. QED
    BY <1>1, <1>4, <1>6, <1>7, <2>1, <2>2, ReplaceThread
<1>9. OwnStacks(t)
  <2>1. \A s : s \in StacksOf(t)' => s \in StacksOf(t)
    <3>1. SUFFICES ASSUME NEW s, s # NoStack, s = tls[t] \/ \E i \in 1 .. n : act'[t][i].stk = s
                   PROVE  s = tls[t] \/ \E i \in 1 .. n : act[t][i].stk = s
      <4>1. \A s : s \in StacksOf(t)' =>
                     s # NoStack /\ (s = tls[t] \/ \E i \in 1 .. n : act'[t][i].stk = s)
        BY <1>1 DEF StacksOf
      <4>2. \A s : s \in StacksOf(t) <=>
                     s # NoStack /\ (s = tls[t] \/ \E i \in 1 .. n : act[t][i].stk = s)
        BY KnowsStacks DEF IInv
      <4>3. QED
        BY <4>1, <4>2
    <3>2. ASSUME NEW i \in 1 .. n, act'[t][i].stk = s
          PROVE  s = tls[t] \/ \E j \in 1 .. n : act[t][j].stk = s
      <4>1. CASE i = n
        BY <1>1, <3>1, <3>2, <4>1 DEF Replaces, StackPhase
      <4>2. CASE i # n
        <5>1. i \in 1 .. n - 1
          BY <1>2, <4>2
        <5>2. act'[t][i] = act[t][i]
          BY <1>1, <5>1 DEF Replaces
        <5>3. QED
          BY <3>2, <5>2
      <4>3. QED
        BY <4>1, <4>2
    <3>3. QED
      BY <3>1, <3>2
  <2>2. StacksOf(t) \subseteq used
    BY DEF IInv, StacksAreExclusive
  <2>3. tls[t] \in StacksOf(t)
    BY KnowsStacks DEF IInv
  <2>4. QED
    BY <1>4, <2>1, <2>2, <2>3 DEF OwnStacks
<1>10. t \notin exiting => Base(act'[t], frames'[tls[t]]) = 0
  BY <1>4 DEF IInv, NothingLeftBelow
<1>11. \A s \in Stacks : Invited(frames'[s])
  BY <1>4 DEF IInv
<1>12. QED
  BY <1>3, <1>5, <1>8, <1>9, <1>10, <1>11 DEF StepInv

LEMMA FindFirstStep ==
  ASSUME IInv, NEW t \in Threads, FindFirst(t) PROVE StepInv(t)
<1> DEFINE a  == Top(t)
           l  == list[a.hub]
           fr == frames[tls[t]]
           n  == Len(act[t])
<1>1. act[t] # <<>> /\ a.pc = "find"
      /\ UNCHANGED <<list, enabled, used, tls, reserved, exiting>>
  BY DEF FindFirst, At
<1>2. a \in Act /\ StackPhase(a, tls[t]) /\ RaPhase(a) /\ SearchPhase(a, list, enabled)
  BY <1>1, TopFacts
<1>3. a.stk = tls[t] /\ tls[t] # NoStack
  BY <1>1, <1>2 DEF StackPhase, Pushing
<1>4. fr \in Seq(Frame \cup {Unwritten}) /\ Len(fr) \in Nat /\ tls[t] \in Stacks
      /\ Framed(a, fr, Len(fr)) /\ InFrames(act[t], fr)
  BY <1>1, <1>3, TopFacts
<1>5. a.hub \in Hubs /\ l \in Seq(Proxies) /\ a.stable \subseteq enabled[a.hub]
  BY <1>2 DEF Act, IInv, Types, SearchPhase
<1>6. PICK m \in 0 .. Len(l) :
        /\ a.rest = SubSeq(l, m + 1, Len(l))
        /\ \A p \in a.stable : \E j \in m + 1 .. Len(l) : l[j] = p
  BY <1>1, <1>2 DEF SearchPhase, Searches
<1> HIDE DEF l
<1>7. CASE a.rest = <<>>
  <2>1. m = Len(l)
    BY <1>5, <1>6, <1>7, SuffixFacts
  <2>2. a.stable = {}
    BY <1>5, <1>6, <2>1
  <2>3. ToOriginal(t, "chain") /\ UNCHANGED frames
    BY <1>7 DEF FindFirst
  <2>4. QED
    BY <1>1, <2>2, <2>3, ToOriginalStep
<1>8. CASE a.rest # <<>> /\ Head(a.rest) \notin enabled[a.hub]
  <2> DEFINE b == [a EXCEPT !.rest = Tail(a.rest)]
  <2>1. /\ m < Len(l) /\ Head(a.rest) = l[m + 1] /\ Tail(a.rest) = SubSeq(l, (m + 1) + 1, Len(l))
        /\ a.rest \in Seq(Proxies)
    BY <1>5, <1>6, <1>8, SuffixFacts
  <2>2. Tail(a.rest) \in Seq(Proxies)
    BY <1>8, <2>1
  <2>3. b \in Act /\ SetTop(t, b) /\ UNCHANGED frames
    BY <1>2, <1>8, <2>2 DEF Act, FindFirst
  <2>4. /\ b.pc = "find" /\ b.hub = a.hub /\ b.ra = a.ra /\ b.owns = a.owns
        /\ b.stable = a.stable /\ b.stk = a.stk /\ b.rest = Tail(a.rest)
    BY <1>1, <1>2 DEF Act
  <2> HIDE DEF b
  <2>5. StackPhase(b, tls[t])
    BY <1>1, <1>2, <2>4 DEF StackPhase, Pushing, Running
  <2>6. Open(b.hub, fr, Len(fr))
    BY <1>1, <1>4, <2>4 DEF Framed
  <2>7. Searches(b, list[b.hub])
    <3> DEFINE k == m + 1
    <3>1. k \in 0 .. Len(l) /\ b.rest = SubSeq(l, k + 1, Len(l)) /\ b.pc # "write"
      BY <1>5, <2>1, <2>4
    <3>2. ASSUME NEW p \in b.stable PROVE \E j \in k + 1 .. Len(l) : l[j] = p
      <4>1. PICK j \in m + 1 .. Len(l) : l[j] = p
        BY <1>6, <2>4
      <4>2. j # m + 1
        BY <1>5, <1>8, <2>1, <2>4, <4>1
      <4>3. j \in k + 1 .. Len(l)
        BY <4>2
      <4>4. QED
        BY <4>1, <4>3
    <3> HIDE DEF k
    <3>3. Searches(b, l)
      BY <3>1, <3>2 DEF Searches
    <3>4. QED
      BY <2>4, <3>3 DEF l
  <2>8. QED
    BY <1>1, <1>3, <2>3, <2>4, <2>5, <2>6, <2>7, PushStep DEF Pushing
<1>9. CASE a.rest # <<>> /\ Head(a.rest) \in enabled[a.hub] /\ Len(fr) >= FrameMax
  <2>1. ToOriginal(t, "full") /\ UNCHANGED frames
    BY <1>3, <1>9 DEF FindFirst
  <2>2. QED
    BY <1>1, <2>1, ToOriginalStep
<1>10. CASE a.rest # <<>> /\ Head(a.rest) \in enabled[a.hub] /\ ~ Len(fr) >= FrameMax
  <2> DEFINE b   == [a EXCEPT !.pc = "write", !.func = Head(a.rest)]
             fr2 == Append(fr, Unwritten)
  <2>1. m < Len(l) /\ Head(a.rest) = l[m + 1] /\ l[m + 1] \in Proxies
    BY <1>5, <1>6, <1>10, SuffixFacts
  <2>2. b \in Act /\ SetTop(t, b)
    BY <1>2, <1>3, <1>10, <2>1 DEF Act, Pcs, FindFirst
  <2>3. /\ b.pc = "write" /\ b.hub = a.hub /\ b.ra = a.ra /\ b.owns = a.owns
        /\ b.stable = a.stable /\ b.stk = a.stk /\ b.rest = a.rest /\ b.func = l[m + 1]
    BY <1>2, <2>1 DEF Act
  <2>4. frames' = [frames EXCEPT ![tls[t]] = fr2]
    BY <1>3, <1>4, <1>10 DEF FindFirst, IInv, Types
  <2> HIDE DEF b
  <2>5. /\ fr2 \in Seq(Frame \cup {Unwritten}) /\ Len(fr2) = Len(fr) + 1
        /\ fr2[Len(fr) + 1] = Unwritten /\ \A k \in 1 .. Len(fr) : fr2[k] = fr[k]
    BY <1>4
  <2> HIDE DEF fr2
  <2>6. ~ a.owns
    BY <1>1, <1>2 DEF RaPhase, Running
  <2>7. ~ b.owns
    BY <2>3, <2>6
  <2>8. RaPhase(b) /\ StackPhase(b, tls[t])
    BY <1>1, <1>2, <2>3, <2>7 DEF RaPhase, StackPhase, Pushing, Running
  <2>9. SearchPhase(b, list, enabled)
    <3>1. \A p \in b.stable : \E j \in m + 1 .. Len(l) : l[j] = p
      BY <1>6, <2>3
    <3>2. b.rest = SubSeq(l, m + 1, Len(l)) /\ m < Len(l) /\ b.func = l[m + 1]
      BY <1>6, <2>1, <2>3
    <3>3. Searches(b, l)
      BY <3>1, <3>2 DEF Searches
    <3>4. QED
      BY <1>5, <2>3, <3>3 DEF SearchPhase, l
  <2>10. Invited(fr2)
    <3>1. Invited(fr)
      BY <1>4 DEF IInv
    <3>2. ASSUME NEW i \in 1 .. Len(fr2), NEW j \in 1 .. Len(fr2), i < j,
                 Unwritten \notin {fr2[i], fr2[j]}, fr2[i].hub = fr2[j].hub
          PROVE  fr2[i].reentrant
      <4>1. i \in 1 .. Len(fr) /\ j \in 1 .. Len(fr)
        <5>1. i # Len(fr) + 1 /\ j # Len(fr) + 1
          BY <2>5, <3>2
        <5>2. Len(fr) \in Nat
          BY <1>4
        <5>3. QED
          BY <2>5, <3>2, <5>1, <5>2
      <4>2. fr2[i] = fr[i] /\ fr2[j] = fr[j]
        BY <2>5, <4>1
      <4>3. QED
        BY <3>1, <3>2, <4>1, <4>2 DEF Invited
    <3>3. QED
      BY <3>2 DEF Invited
  <2>11. Framed(b, fr2, Len(fr) + 1)
    <3>1. Open(a.hub, fr, Len(fr))
      BY <1>1, <1>4 DEF Framed
    <3>2. Open(b.hub, fr2, Len(fr) + 1 - 1)
      <4>1. Len(fr) + 1 - 1 = Len(fr)
        BY <1>4
      <4>2. Open(a.hub, fr2, Len(fr))
        BY <2>5, <3>1 DEF Open
      <4>3. QED
        BY <2>3, <4>1, <4>2
    <3>3. QED
      BY <2>3, <2>5, <2>7, <3>2 DEF Framed, Running
  <2>12. InFrames(act'[t], fr2) /\ Base(act'[t], fr2) = Base(act[t], fr)
    <3>1. Replaces(act[t], act'[t], n, b)
      BY <1>1, <2>2, SetTopEffect DEF IInv
    <3>2. n \in Nat \ {0} /\ Len(act[t]) = n /\ Len(act'[t]) = n /\ act'[t][n] = b
      BY <3>1 DEF Replaces
    <3>3. \A i \in 1 .. n - 1 : act'[t][i] = act[t][i]
      BY <3>1 DEF Replaces
    <3>4. Top(t) = act[t][n]
      BY <1>1, TopFacts
    <3>5. ~ Pushed(act[t][n])
      BY <1>1, <2>6, <3>4 DEF Pushed
    <3>6. Pushed(act'[t][n])
      BY <2>3, <3>2 DEF Pushed
    <3>7. Framed(act'[t][n], fr2, Len(fr) + 1)
      BY <2>11, <3>2
    <3>8. InFrames(act[t], fr) /\ Len(fr) \in Nat
      BY <1>4
    <3> DEFINE c2 == act'[t]
    <3>9. /\ Len(c2) = n /\ Pushed(c2[n]) /\ Framed(c2[n], fr2, Len(fr) + 1)
          /\ \A i \in 1 .. n - 1 : c2[i] = act[t][i]
      BY <3>2, <3>3, <3>6, <3>7
    <3>10. /\ Len(fr2) = Len(fr) + 1 /\ \A k \in 1 .. Len(fr) : fr2[k] = fr[k]
           /\ n \in Nat \ {0} /\ Len(act[t]) = n
      BY <2>5, <3>2
    <3> HIDE DEF n, fr, c2
    <3>11. InFrames(c2, fr2) /\ Base(c2, fr2) = Base(act[t], fr)
      BY <3>5, <3>8, <3>9, <3>10, PushFrames
    <3>12. QED
      BY <3>11 DEF c2
  <2>13. QED
    BY <1>1, <1>3, <2>2, <2>3, <2>4, <2>5, <2>8, <2>9, <2>10, <2>12, FrameStep DEF Running
<1>11. QED
  BY <1>7, <1>8, <1>9, <1>10

(* sh_hub_stack_create() has taken stack s.                                *)
LEMMA TakeStackStep ==
  ASSUME IInv, NEW t \in Threads, act[t] # <<>>, NEW s \in Stacks, s \notin used,
         Top(t).pc = "create", TakeStack(t, s),
         UNCHANGED <<list, enabled, tls, reserved, exiting>>
  PROVE  StepInv(t)
<1> DEFINE a == Top(t)
           b == [a EXCEPT !.pc = "set", !.stk = s]
           n == Len(act[t])
<1>1. a \in Act /\ RaPhase(a) /\ n \in Nat \ {0} /\ act[t] \in Seq(Act) /\ a = act[t][n]
  BY TopFacts
<1>2. b \in Act /\ SetTop(t, b)
  BY <1>1 DEF Act, Pcs, TakeStack
<1>3. /\ b.pc = "set" /\ b.hub = a.hub /\ b.ra = a.ra /\ b.owns = a.owns
      /\ b.stable = a.stable /\ b.stk = s
  BY <1>1 DEF Act
<1> HIDE DEF b
<1>4. ~ b.owns
  BY <1>1, <1>3 DEF RaPhase, Running
<1>5. /\ act' \in [Threads -> Seq(Act)]
      /\ Replaces(act[t], act'[t], n, b)
      /\ \A u \in Threads \ {t} : act'[u] = act[u]
      /\ Len(act'[t]) = n
  BY <1>2, SetTopEffect DEF IInv
<1>6. used' = used \cup {s} /\ frames' = [frames EXCEPT ![s] = <<>>]
  BY DEF TakeStack
<1>7. /\ frames' \in [Stacks -> Seq(Frame \cup {Unwritten})] /\ frames'[s] = <<>>
      /\ \A x \in Stacks \ {s} : frames'[x] = frames[x]
  BY <1>6 DEF IInv, Types
<1>8. Others(t)
  BY <1>5 DEF Others
<1>9. Types'
  <2>1. \A u \in Threads : Len(act'[u]) <= MaxDepth
    BY <1>5 DEF IInv, Types
  <2>2. QED
    BY <1>5, <1>6, <1>7, <2>1 DEF IInv, Types
<1>10. s \notin StacksOf(t) /\ s # NoStack
  BY HubAssumption DEF IInv, StacksAreExclusive
<1>11. s # tls[t] /\ \A i \in 1 .. n : act[t][i].stk # s
  BY <1>10, KnowsStacks DEF IInv
<1>12. tls[t] \in Stacks \cup {NoStack} /\ (tls[t] # NoStack => Len(frames[tls[t]]) \in Nat)
  BY TopFacts DEF IInv, Types
<1>13. ThreadInv(act[t], tls[t], frames, list, enabled)
  BY DEF IInv, ThreadsInv
<1>14. /\ ThreadInv(act'[t], tls[t], frames', list, enabled)
       /\ tls[t] # NoStack => Base(act'[t], frames'[tls[t]]) = Base(act[t], frames[tls[t]])
  <2>1. Takes(act[t][n], b, s)
    BY <1>1, <1>3, <1>4 DEF Takes
  <2>2. Unknown(act[t], tls[t], s)
    BY <1>11 DEF Unknown
  <2>3. Empties(frames, frames', s)
    BY <1>7 DEF Empties
  <2> HIDE DEF n, a
  <2>4. QED
    BY <1>5, <1>12, <1>13, <2>1, <2>2, <2>3, TakeThread
<1>15. OwnStacks(t)
  <2>1. \A x : x \in StacksOf(t)' => x \in StacksOf(t) \/ x = s
    <3>1. SUFFICES ASSUME NEW x, x # NoStack, x = tls[t] \/ \E i \in 1 .. n : act'[t][i].stk = x
                   PROVE  x = s \/ x = tls[t] \/ \E i \in 1 .. n : act[t][i].stk = x
      <4>1. \A x : x \in StacksOf(t)' =>
                     x # NoStack /\ (x = tls[t] \/ \E i \in 1 .. n : act'[t][i].stk = x)
        BY <1>5 DEF StacksOf
      <4>2. \A x : x \in StacksOf(t) <=>
                     x # NoStack /\ (x = tls[t] \/ \E i \in 1 .. n : act[t][i].stk = x)
        BY KnowsStacks DEF IInv
      <4>3. QED
        BY <4>1, <4>2
    <3>2. ASSUME NEW i \in 1 .. n, act'[t][i].stk = x
          PROVE  x = s \/ \E j \in 1 .. n : act[t][j].stk = x
      <4>1. CASE i = n
        BY <1>3, <1>5, <3>2, <4>1 DEF Replaces
      <4>2. CASE i # n
        <5>1. i \in 1 .. n - 1
          BY <1>1, <4>2
        <5>2. act'[t][i] = act[t][i]
          BY <1>5, <5>1 DEF Replaces
        <5>3. QED
          BY <3>2, <5>2
      <4>3. QED
        BY <4>1, <4>2
    <3>3. QED
      BY <3>1, <3>2
  <2>2. StacksOf(t) \subseteq used
    BY DEF IInv, StacksAreExclusive
  <2>3. QED
    BY <1>6, <1>7, <2>1, <2>2 DEF OwnStacks
<1>16. t \notin exiting /\ tls[t] # NoStack => Base(act[t], frames[tls[t]]) = 0
  BY DEF IInv, NothingLeftBelow
<1>17. \A x \in Stacks : Invited(frames'[x])
  <2>1. Invited(<<>>)
    BY DEF Invited
  <2>2. QED
    BY <1>7, <2>1 DEF IInv
<1>18. QED
  BY <1>8, <1>9, <1>14, <1>15, <1>16, <1>17 DEF StepInv

LEMMA TrySlotStep ==
  ASSUME IInv, NEW t \in Threads, TrySlot(t) PROVE StepInv(t)
<1>1. act[t] # <<>> /\ Top(t).pc = "create" /\ Top(t).scan \in Slots
      /\ UNCHANGED <<list, enabled, tls, reserved, exiting>>
  BY DEF TrySlot, At
<1>2. CASE Top(t).scan \notin used
  <2>1. TakeStack(t, Top(t).scan) /\ Top(t).scan \in Stacks
    BY <1>1, <1>2 DEF TrySlot, SlotIsFree, Stacks
  <2>2. QED
    BY <1>1, <1>2, <2>1, TakeStackStep
<1>3. CASE Top(t).scan \in used
  BY <1>1, <1>3, SkipSlotStep DEF TrySlot, SlotIsFree
<1>4. QED
  BY <1>2, <1>3

LEMMA MapStackStep ==
  ASSUME IInv, NEW t \in Threads, MapStack(t) PROVE StepInv(t)
<1>1. act[t] # <<>> /\ Top(t).pc = "create"
      /\ UNCHANGED <<list, enabled, tls, reserved, exiting>>
  BY DEF MapStack, At
<1>2. ASSUME NEW m \in Maps \ used, TakeStack(t, m) PROVE StepInv(t)
  BY <1>1, <1>2, TakeStackStep DEF Stacks
<1>3. ASSUME ToOriginal(t, "nostack"), UNCHANGED <<used, frames>> PROVE StepInv(t)
  BY <1>1, <1>3, ToOriginalStep
<1>4. QED
  BY <1>2, <1>3 DEF MapStack

LEMMA FramesAreWritten == \A f \in Frame : f # Unwritten
<1> SUFFICES ASSUME NEW f \in Frame PROVE f # Unwritten
  OBVIOUS
<1>1. DOMAIN f = {"hub", "ra", "reentrant", "proxies"} /\ DOMAIN Unwritten = {"hub"}
  BY DEF Frame, Unwritten
<1>2. QED
  BY <1>1

LEMMA SetTlsStep ==
  ASSUME IInv, NEW t \in Threads, SetTls(t) PROVE StepInv(t)
<1> DEFINE a == Top(t)
           b == [a EXCEPT !.pc = "check"]
           n == Len(act[t])
<1>1. act[t] # <<>> /\ a.pc = "set" /\ tls' = [tls EXCEPT ![t] = a.stk]
      /\ UNCHANGED <<list, enabled, used, frames, reserved, exiting>>
  BY DEF SetTls, At
<1>2. a \in Act /\ RaPhase(a) /\ n \in Nat \ {0} /\ act[t] \in Seq(Act) /\ a = act[t][n]
      /\ StackPhase(a, tls[t])
  BY <1>1, TopFacts
<1>3. b \in Act /\ SetTop(t, b)
  BY <1>2 DEF Act, Pcs, SetTls, Goto
<1>4. /\ b.pc = "check" /\ b.hub = a.hub /\ b.ra = a.ra /\ b.owns = a.owns
      /\ b.stable = a.stable /\ b.stk = a.stk
  BY <1>2 DEF Act
<1> HIDE DEF b
<1>5. ~ b.owns
  BY <1>1, <1>2, <1>4 DEF RaPhase, Running
<1>6. /\ act' \in [Threads -> Seq(Act)]
      /\ Replaces(act[t], act'[t], n, b)
      /\ \A u \in Threads \ {t} : act'[u] = act[u]
      /\ Len(act'[t]) = n
  BY <1>1, <1>3, SetTopEffect DEF IInv
<1>7. a.stk \in Stacks /\ a.stk # NoStack
  BY <1>1, <1>2 DEF Act, StackPhase, Pushing
<1>8. /\ tls' \in [Threads -> Stacks \cup {NoStack}] /\ tls'[t] = a.stk
      /\ \A u \in Threads \ {t} : tls'[u] = tls[u]
  BY <1>1, <1>7 DEF IInv, Types
<1>9. Others(t)
  BY <1>1, <1>6, <1>8 DEF Others
<1>10. Types'
  <2>1. \A u \in Threads : Len(act[u]) <= MaxDepth
    BY DEF IInv, Types
  <2>2. ASSUME NEW u \in Threads PROVE Len(act'[u]) <= MaxDepth
    <3>1. CASE u = t
      BY <1>6, <2>1, <3>1
    <3>2. CASE u # t
      BY <1>6, <2>1, <3>2
    <3>3. QED
      BY <3>1, <3>2
  <2>3. QED
    BY <1>1, <1>6, <1>8, <2>2 DEF IInv, Types
<1>11. ThreadInv(act[t], tls[t], frames, list, enabled)
  BY DEF IInv, ThreadsInv
<1>12. ThreadInv(act'[t], tls'[t], frames, list, enabled) /\ Base(act'[t], frames[tls'[t]]) = 0
  <2>1. act[t][n].pc = "set" /\ tls'[t] = act[t][n].stk
    BY <1>1, <1>2, <1>8
  <2>2. b.pc = "check" /\ b.stk = tls'[t] /\ b.ra = act[t][n].ra
        /\ b.hub = act[t][n].hub /\ b.stable = act[t][n].stable
    BY <1>2, <1>4, <1>8
  <2> HIDE DEF n, a
  <2>3. QED
    BY <1>5, <1>6, <1>11, <2>1, <2>2, SetThread
<1>13. OwnStacks(t)
  <2>1. \A x : x \in StacksOf(t)' => x \in StacksOf(t)
    <3>1. SUFFICES ASSUME NEW x, x # NoStack, x = a.stk \/ \E i \in 1 .. n : act'[t][i].stk = x
                   PROVE  x = tls[t] \/ \E i \in 1 .. n : act[t][i].stk = x
      <4>1. \A x : x \in StacksOf(t)' =>
                     x # NoStack /\ (x = a.stk \/ \E i \in 1 .. n : act'[t][i].stk = x)
        BY <1>6, <1>8 DEF StacksOf
      <4>2. \A x : x \in StacksOf(t) <=>
                     x # NoStack /\ (x = tls[t] \/ \E i \in 1 .. n : act[t][i].stk = x)
        BY KnowsStacks DEF IInv
      <4>3. QED
        BY <4>1, <4>2
    <3>2. n \in 1 .. n /\ act[t][n].stk = a.stk
      BY <1>2
    <3>3. ASSUME NEW i \in 1 .. n, act'[t][i].stk = x
          PROVE  \E j \in 1 .. n : act[t][j].stk = x
      <4>1. CASE i = n
        BY <1>4, <1>6, <3>2, <3>3, <4>1 DEF Replaces
      <4>2. CASE i # n
        <5>1. i \in 1 .. n - 1
          BY <1>2, <4>2
        <5>2. act'[t][i] = act[t][i]
          BY <1>6, <5>1 DEF Replaces
        <5>3. QED
          BY <3>3, <5>2
      <4>3. QED
        BY <4>1, <4>2
    <3>4. QED
      BY <3>1, <3>2, <3>3
  <2>2. StacksOf(t) \subseteq used
    BY DEF IInv, StacksAreExclusive
  <2>3. QED
    BY <1>1, <2>1, <2>2 DEF OwnStacks
<1>14. \A x \in Stacks : Invited(frames'[x])
  BY <1>1 DEF IInv
<1>15. frames' = frames
  BY <1>1
<1>16. QED
  BY <1>9, <1>10, <1>12, <1>13, <1>14, <1>15 DEF StepInv

LEMMA WriteFrameStep ==
  ASSUME IInv, NEW t \in Threads, WriteFrame(t) PROVE StepInv(t)
<1> DEFINE a   == Top(t)
           l   == list[a.hub]
           fr  == frames[tls[t]]
           d   == Len(fr)
           n   == Len(act[t])
           f   == [hub |-> a.hub, ra |-> a.ra, reentrant |-> FALSE, proxies |-> l]
           fr2 == [fr EXCEPT ![d] = f]
           b   == [a EXCEPT !.pc = "proxy", !.owns = TRUE, !.rest = <<>>, !.visited = {a.func}]
<1>1. act[t] # <<>> /\ a.pc = "write"
      /\ UNCHANGED <<list, enabled, used, tls, reserved, exiting>>
  BY DEF WriteFrame, At
<1>2. a \in Act /\ StackPhase(a, tls[t]) /\ RaPhase(a) /\ SearchPhase(a, list, enabled)
  BY <1>1, TopFacts
<1>3. a.stk = tls[t] /\ tls[t] # NoStack /\ a.ra \in CallSites
  BY <1>1, <1>2 DEF StackPhase, RaPhase, Pushing
<1>4. fr \in Seq(Frame \cup {Unwritten}) /\ d \in Nat /\ tls[t] \in Stacks
      /\ Framed(a, fr, d) /\ InFrames(act[t], fr)
  BY <1>1, <1>3, TopFacts
<1>5. a.hub \in Hubs /\ l \in Seq(Proxies) /\ a.stable \subseteq enabled[a.hub]
      /\ IsInjectiveSeq(l)
  BY <1>2 DEF Act, IInv, Types, SearchPhase, ListsAreSound
<1>6. PICK m \in 0 .. Len(l) :
        /\ \A p \in a.stable : \E j \in m + 1 .. Len(l) : l[j] = p
        /\ m < Len(l) /\ a.func = l[m + 1]
  BY <1>1, <1>2 DEF SearchPhase, Searches
<1> DEFINE k == m + 1
<1>7. k \in 1 .. Len(l) /\ a.func = l[k] /\ a.func \in Proxies
      /\ \A p \in a.stable : p = a.func \/ \E j \in k + 1 .. Len(l) : l[j] = p
  <2>1. k \in 1 .. Len(l) /\ a.func = l[k] /\ a.func \in Proxies
    BY <1>5, <1>6
  <2>2. ASSUME NEW p \in a.stable, p # a.func PROVE \E j \in k + 1 .. Len(l) : l[j] = p
    <3>1. PICK j \in m + 1 .. Len(l) : l[j] = p
      BY <1>6
    <3>2. j # k
      BY <2>1, <2>2, <3>1
    <3>3. j \in k + 1 .. Len(l)
      BY <3>2
    <3>4. QED
      BY <3>1, <3>3
  <2>3. QED
    BY <2>1, <2>2
<1> HIDE DEF k
<1>8. f \in Frame /\ f.hub = a.hub /\ f.ra = a.ra /\ f.proxies = l /\ f # Unwritten
  <2>1. f \in Frame /\ f.hub = a.hub /\ f.ra = a.ra /\ f.proxies = l
    BY <1>3, <1>5 DEF Frame
  <2>2. QED
    BY <2>1, FramesAreWritten
<1>9. b \in Act
  <2>1. {a.func} \in SUBSET Proxies /\ <<>> \in Seq(Proxies) /\ TRUE \in BOOLEAN
    BY <1>7
  <2>2. QED
    BY <1>2, <2>1 DEF Act, Pcs
<1>10. /\ b.pc = "proxy" /\ b.owns = TRUE /\ b.rest = <<>> /\ b.visited = {a.func}
       /\ b.hub = a.hub /\ b.ra = a.ra /\ b.stable = a.stable /\ b.stk = a.stk
       /\ b.func = a.func
  BY <1>2 DEF Act
<1>11. SetTop(t, b) /\ frames' = [frames EXCEPT ![tls[t]] = fr2]
  <2>1. frames' = [frames EXCEPT ![tls[t]][d] = f]
    BY <1>3 DEF WriteFrame
  <2>2. QED
    BY <2>1 DEF WriteFrame, IInv, Types
<1> HIDE DEF b, f
<1>12. n \in Nat \ {0} /\ Top(t) = act[t][n] /\ Len(act[t]) = n /\ Pushed(act[t][n])
  BY <1>1, TopFacts DEF Pushed
<1>13. d > 0
  <2> HIDE DEF n, fr
  <2>1. QED
    BY <1>4, <1>12, PushedHasFrame
<1>14. /\ fr2 \in Seq(Frame \cup {Unwritten}) /\ Len(fr2) = d /\ fr2[d] = f
       /\ \A i \in 1 .. d - 1 : fr2[i] = fr[i]
  <2>1. f \in Frame \cup {Unwritten} /\ d \in 1 .. Len(fr)
    BY <1>4, <1>8, <1>13
  <2>2. QED
    BY <1>4, <2>1
<1> HIDE DEF fr2
<1>15. Invited(fr2)
  <2>1. Invited(fr) /\ Open(a.hub, fr, d - 1)
    BY <1>1, <1>4 DEF IInv, Framed
  <2>2. ASSUME NEW i \in 1 .. d, NEW j \in 1 .. d, i < j,
               Unwritten \notin {fr2[i], fr2[j]}, fr2[i].hub = fr2[j].hub
        PROVE  fr2[i].reentrant
    <3>1. i \in 1 .. d - 1 /\ i \in 1 .. Len(fr) /\ fr2[i] = fr[i]
      BY <1>4, <1>14, <2>2
    <3>2. CASE j = d
      BY <1>8, <1>14, <2>1, <2>2, <3>1, <3>2 DEF Open
    <3>3. CASE j # d
      <4>1. j \in 1 .. d - 1 /\ j \in 1 .. Len(fr)
        BY <1>4, <3>3
      <4>2. fr2[j] = fr[j]
        BY <1>14, <4>1
      <4>3. QED
        BY <2>1, <2>2, <3>1, <4>1, <4>2 DEF Invited
    <3>4. QED
      BY <3>2, <3>3
  <2>3. QED
    BY <1>14, <2>2 DEF Invited
<1>16. RaPhase(b) /\ StackPhase(b, tls[t]) /\ SearchPhase(b, list, enabled)
  BY <1>2, <1>3, <1>5, <1>10 DEF RaPhase, StackPhase, SearchPhase, Pushing, Running
<1>17. InChain(b, l)
  <2>1. k \in k .. Len(l) /\ k \in 1 .. k
    BY <1>7
  <2>2. \A p \in b.visited : \E j \in 1 .. k : l[j] = p
    BY <1>7, <1>10, <2>1
  <2>3. \A p \in b.stable : p \in b.visited \/ \E j \in k + 1 .. Len(l) : l[j] = p
    BY <1>7, <1>10
  <2>4. l[k] = b.func /\ b.pc # "prev"
    BY <1>7, <1>10
  <2> HIDE DEF l
  <2>5. QED
    BY <1>7, <2>1, <2>2, <2>3, <2>4 DEF InChain
<1>18. Framed(b, fr2, d)
  BY <1>5, <1>8, <1>10, <1>13, <1>14, <1>17 DEF Framed, Running
<1>19. InFrames(act'[t], fr2) /\ Base(act'[t], fr2) = Base(act[t], fr)
  <2>1. Replaces(act[t], act'[t], n, b)
    BY <1>1, <1>9, <1>11, SetTopEffect DEF IInv
  <2>2. Len(act'[t]) = n /\ act'[t][n] = b
    BY <2>1 DEF Replaces
  <2>3. \A i \in 1 .. n - 1 : act'[t][i] = act[t][i]
    BY <2>1 DEF Replaces
  <2>4. Pushed(act'[t][n]) /\ Framed(act'[t][n], fr2, Len(fr)) /\ Len(fr2) = Len(fr)
    BY <1>10, <1>14, <1>18, <2>2 DEF Pushed
  <2>5. \A i \in 1 .. Len(fr) - 1 : fr2[i] = fr[i]
    BY <1>14
  <2>6. InFrames(act[t], fr) /\ Len(fr) \in Nat
    BY <1>4
  <2>7. n \in Nat \ {0} /\ Len(act[t]) = n /\ Pushed(act[t][n])
    BY <1>12
  <2>8. Len(act'[t]) = n
    BY <2>2
  <2>9. Rewrites(act[t], act'[t], fr, fr2, n)
    BY <2>3, <2>4, <2>5, <2>6, <2>7, <2>8 DEF Rewrites
  <2> HIDE DEF n, fr, d, a
  <2>10. QED
    BY <2>6, <2>9, RewriteFrames
<1>20. QED
  BY <1>1, <1>3, <1>9, <1>10, <1>11, <1>14, <1>15, <1>16, <1>19, FrameStep

LEMMA ExtendFrames ==
  ASSUME NEW calls, NEW calls2, NEW fr, NEW n, NEW b, Len(fr) \in Nat,
         Extends(calls, calls2, n, b), InFrames(calls, fr),
         ~ Pushed(b), Framed(b, fr, Len(fr))
  PROVE  InFrames(calls2, fr) /\ Base(calls2, fr) = Base(calls, fr)
<1>1. n \in Nat /\ Len(calls) = n /\ Len(calls2) = n + 1
      /\ \A i \in 1 .. n : calls2[i] = calls[i]
  BY DEF Extends
<1>2. ~ Pushed(calls2[n + 1])
  BY DEF Extends
<1>3. Framed(calls2[n + 1], fr, Len(fr))
  BY DEF Extends
<1>4. QED
  BY <1>1, <1>2, <1>3, EnterFrames

(* A step that adds an activation on top of mid, which are those of the    *)
(* thread but for what a proxy keeps of its traversal.                     *)
LEMMA BeginStep ==
  ASSUME IInv, NEW t \in Threads, NEW mid, NEW n, NEW b,
         n = Len(act[t]), n < MaxDepth,
         Extends(mid, act'[t], n, b),
         act' \in [Threads -> Seq(Act)], \A u \in Threads \ {t} : act'[u] = act[u],
         UNCHANGED <<list, enabled, used, frames, tls, reserved, exiting>>,
         \A i \in 1 .. n : mid[i].stk = act[t][i].stk,
         ThreadInv(mid, tls[t], frames, list, enabled),
         tls[t] # NoStack => Base(mid, frames[tls[t]]) = Base(act[t], frames[tls[t]]),
         RaPhase(b), StackPhase(b, tls[t]), SearchPhase(b, list, enabled),
         b.pc \notin {"create", "set"}, ~ Pushed(b),
         n > 0 => Follows(mid[n], b),
         tls[t] # NoStack => Framed(b, frames[tls[t]], Len(frames[tls[t]]))
  PROVE  StepInv(t)
<1>1. n \in Nat /\ Len(mid) = n /\ Len(act'[t]) = n + 1 /\ act'[t][n + 1] = b
      /\ \A i \in 1 .. n : act'[t][i] = mid[i]
  BY DEF Extends
<1>2. Others(t)
  BY DEF Others
<1>3. Types'
  <2>1. ASSUME NEW u \in Threads PROVE Len(act'[u]) <= MaxDepth
    <3>1. CASE u = t
      BY <1>1, <3>1, HubAssumption
    <3>2. CASE u # t
      BY <3>2 DEF IInv, Types
    <3>3. QED
      BY <3>1, <3>2
  <2>2. QED
    BY <2>1 DEF IInv, Types
<1>4. tls[t] # NoStack =>
        InFrames(act'[t], frames[tls[t]]) /\ Base(act'[t], frames[tls[t]]) = Base(act[t], frames[tls[t]])
  <2> SUFFICES ASSUME tls[t] # NoStack
               PROVE  InFrames(act'[t], frames[tls[t]])
                      /\ Base(act'[t], frames[tls[t]]) = Base(act[t], frames[tls[t]])
    OBVIOUS
  <2> DEFINE fr == frames[tls[t]]
  <2>1. Len(fr) \in Nat /\ InFrames(mid, fr)
    BY DEF IInv, Types, ThreadInv
  <2>2. ~ Pushed(b) /\ Framed(b, fr, Len(fr))
    OBVIOUS
  <2>3. Base(mid, fr) = Base(act[t], fr)
    OBVIOUS
  <2> HIDE DEF fr
  <2>4. InFrames(act'[t], fr) /\ Base(act'[t], fr) = Base(mid, fr)
    BY <2>1, <2>2, ExtendFrames
  <2>5. QED
    BY <2>3, <2>4 DEF fr
<1>5. ThreadInv(act'[t], tls[t], frames, list, enabled)
  BY <1>4, ExtendThread
<1>6. OwnStacks(t)
  <2>1. \A s : s \in StacksOf(t)' => s \in StacksOf(t)
    <3>1. SUFFICES ASSUME NEW s, s # NoStack, s = tls[t] \/ \E i \in 1 .. n + 1 : act'[t][i].stk = s
                   PROVE  s = tls[t] \/ \E i \in 1 .. n : act[t][i].stk = s
      <4>1. \A s : s \in StacksOf(t)' =>
                     s # NoStack /\ (s = tls[t] \/ \E i \in 1 .. n + 1 : act'[t][i].stk = s)
        BY <1>1 DEF StacksOf
      <4>2. \A s : s \in StacksOf(t) <=>
                     s # NoStack /\ (s = tls[t] \/ \E i \in 1 .. n : act[t][i].stk = s)
        BY KnowsStacks DEF IInv
      <4>3. QED
        BY <4>1, <4>2
    <3>2. ASSUME NEW i \in 1 .. n + 1, act'[t][i].stk = s
          PROVE  s = tls[t] \/ \E j \in 1 .. n : act[t][j].stk = s
      <4>1. CASE i = n + 1
        BY <1>1, <3>1, <3>2, <4>1 DEF StackPhase
      <4>2. CASE i # n + 1
        <5>1. i \in 1 .. n
          BY <1>1, <4>2
        <5>2. act'[t][i].stk = act[t][i].stk
          BY <1>1, <5>1
        <5>3. QED
          BY <3>2, <5>1, <5>2
      <4>3. QED
        BY <4>1, <4>2
    <3>3. QED
      BY <3>1, <3>2
  <2>2. StacksOf(t) \subseteq used
    BY DEF IInv, StacksAreExclusive
  <2>3. QED
    BY <2>1, <2>2 DEF OwnStacks
<1>7. t \notin exiting /\ tls[t] # NoStack => Base(act[t], frames[tls[t]]) = 0
  BY DEF IInv, NothingLeftBelow
<1>8. \A s \in Stacks : Invited(frames[s])
  BY DEF IInv
<1>9. QED
  BY <1>2, <1>3, <1>4, <1>5, <1>6, <1>7, <1>8 DEF StepInv

LEMMA CallStep ==
  ASSUME IInv, NEW t \in Threads, NEW h \in Hubs, NEW ra \in CallSites, Call(t, h, ra)
  PROVE  StepInv(t)
<1> DEFINE n == Len(act[t])
           b == [hub |-> h, ra |-> ra, pc |-> "enter", func |-> NoFunc, rest |-> <<>>,
                 scan |-> 1, stk |-> NoStack, owns |-> FALSE, via |-> "chain",
                 stable |-> enabled[h], visited |-> {}]
<1>1. act[t] \in Seq(Act) /\ n \in Nat /\ enabled[h] \in SUBSET Proxies
  BY DEF IInv, Types
<1>2. b \in Act
  <2>1. 1 \in 1 .. NSlots + 1 /\ <<>> \in Seq(Proxies) /\ {} \in SUBSET Proxies
    BY HubAssumption
  <2>2. QED
    BY <1>1, <2>1 DEF Act, Pcs
<1>3. /\ b.pc = "enter" /\ b.ra = ra /\ b.stk = NoStack /\ b.owns = FALSE /\ b.hub = h
      /\ b.stable = enabled[h]
  OBVIOUS
<1>4. act' = [act EXCEPT ![t] = Append(act[t], b)] /\ n < MaxDepth
      /\ UNCHANGED <<list, enabled, used, frames, tls, reserved, exiting>>
  BY DEF Call
<1> HIDE DEF b
<1>5. Append(act[t], b) \in Seq(Act) /\ Extends(act[t], Append(act[t], b), n, b)
  BY <1>1, <1>2 DEF Extends
<1>6. /\ act' \in [Threads -> Seq(Act)] /\ Extends(act[t], act'[t], n, b)
      /\ \A u \in Threads \ {t} : act'[u] = act[u]
  BY <1>4, <1>5 DEF IInv, Types
<1>7. RaPhase(b) /\ StackPhase(b, tls[t]) /\ SearchPhase(b, list, enabled) /\ ~ Pushed(b)
  BY <1>3 DEF RaPhase, StackPhase, SearchPhase, Pushing, Running, Pushed
<1>8. \A a, fr, d : Follows(a, b) /\ Framed(b, fr, d)
  BY <1>3 DEF Follows, Framed, Running
<1>9. ThreadInv(act[t], tls[t], frames, list, enabled)
  BY DEF IInv, ThreadsInv
<1>10. b.pc \notin {"create", "set"}
  BY <1>3
<1> HIDE DEF n
<1>11. QED
  BY <1>4, <1>6, <1>7, <1>8, <1>9, <1>10, BeginStep DEF n

----------------------------------------------------------------------------
(* The proxies, step by step.                                              *)
LEMMA AfterIsSuffix ==
  ASSUME NEW l \in Seq(Proxies), IsInjectiveSeq(l), NEW k \in 1 .. Len(l)
  PROVE  After(l[k], l) = SubSeq(l, k + 1, Len(l))
<1> DEFINE c == CHOOSE i \in 1 .. Len(l) : l[i] = l[k]
<1>1. c \in 1 .. Len(l) /\ l[c] = l[k]
  OBVIOUS
<1> HIDE DEF c
<1>2. c = k
  BY <1>1 DEF IsInjectiveSeq
<1>3. After(l[k], l) = SubSeq(l, 1 + c, Len(l))
  BY DEF After, c
<1>4. 1 + c = k + 1
  BY <1>2
<1>5. QED
  BY <1>3, <1>4

(* What a proxy that runs knows.                                           *)
LEMMA RunningFacts ==
  ASSUME IInv, NEW t \in Threads, act[t] # <<>>, Top(t).pc \in Running
  PROVE  LET fr == frames[tls[t]]
             d  == Len(fr)
         IN /\ tls[t] # NoStack /\ tls[t] \in Stacks /\ Top(t).stk = tls[t]
            /\ fr \in Seq(Frame \cup {Unwritten}) /\ d \in Nat \ {0} /\ fr[d] \in Frame
            /\ CurrentFrame(t) = fr[d] /\ fr # <<>>
            /\ fr[d].hub = Top(t).hub /\ fr[d].proxies \in Seq(Proxies)
            /\ IsInjectiveSeq(fr[d].proxies) /\ InChain(Top(t), fr[d].proxies)
            /\ HasFrame(t, Top(t).ra) <=> Top(t).owns
            /\ Framed(Top(t), fr, d) /\ InFrames(act[t], fr)
<1> DEFINE a  == Top(t)
           fr == frames[tls[t]]
           d  == Len(fr)
<1>1. RaPhase(a) /\ StackPhase(a, tls[t])
  BY TopFacts
<1>2. a.stk = tls[t] /\ tls[t] # NoStack
  BY <1>1 DEF StackPhase, Running, Pushing
<1>3. tls[t] \in Stacks /\ fr \in Seq(Frame \cup {Unwritten}) /\ d \in Nat /\ Framed(a, fr, d)
      /\ InFrames(act[t], fr)
  BY <1>2, TopFacts
<1>4. d > 0 /\ fr[d] \in Frame /\ fr[d].hub = a.hub
      /\ IsInjectiveSeq(fr[d].proxies) /\ InChain(a, fr[d].proxies)
  BY <1>3 DEF Framed
<1>5. CurrentFrame(t) = fr[d] /\ fr # <<>>
  <2>1. fr # <<>>
    BY <1>4
  <2>2. QED
    BY <2>1 DEF CurrentFrame
<1>6. fr[d].proxies \in Seq(Proxies) /\ fr[d].ra \in CallSites
  BY <1>4 DEF Frame
<1>7. HasFrame(t, a.ra) <=> a.owns
  <2>1. a.owns => fr[d].ra = a.ra
    BY <1>3 DEF Framed
  <2>2. a.owns <=> a.ra \in CallSites
    BY <1>1 DEF RaPhase
  <2>3. QED
    BY <1>5, <1>6, <2>1, <2>2 DEF HasFrame
<1>8. QED
  BY <1>2, <1>3, <1>4, <1>5, <1>6, <1>7

(* A step of a proxy along its list.                                       *)
LEMMA ChainStep ==
  ASSUME IInv, NEW t \in Threads, act[t] # <<>>, NEW b \in Act, SetTop(t, b),
         UNCHANGED <<list, enabled, used, frames, tls, reserved, exiting>>,
         Top(t).pc \in Running, b.pc \in Running,
         b.hub = Top(t).hub, b.ra = Top(t).ra, b.owns = Top(t).owns, b.stable = Top(t).stable,
         b.func = Top(t).func, b.stk = Top(t).stk,
         InChain(b, CurrentFrame(t).proxies)
  PROVE  StepInv(t)
<1> DEFINE a  == Top(t)
           fr == frames[tls[t]]
           d  == Len(fr)
<1>1. RaPhase(a) /\ StackPhase(a, tls[t]) /\ SearchPhase(a, list, enabled)
  BY TopFacts
<1>2. /\ tls[t] # NoStack /\ a.stk = tls[t] /\ d > 0 /\ fr[d] \in Frame
      /\ CurrentFrame(t) = fr[d] /\ fr[d].hub = a.hub
      /\ IsInjectiveSeq(fr[d].proxies) /\ Framed(a, fr, d)
  BY RunningFacts
<1>3. RaPhase(b) /\ StackPhase(b, tls[t]) /\ SearchPhase(b, list, enabled)
  BY <1>1, <1>2 DEF RaPhase, StackPhase, SearchPhase, Pushing, Running
<1>4. Framed(b, fr, d)
  BY <1>2 DEF Framed, Running
<1>5. Pushed(b) <=> Pushed(a)
  BY DEF Pushed, Running
<1>6. b.pc # "set" /\ b.pc # "create"
  BY DEF Running
<1>7. QED
  BY <1>3, <1>4, <1>5, <1>6, TopStep

LEMMA GetPrevStartStep ==
  ASSUME IInv, NEW t \in Threads, GetPrevStart(t) PROVE StepInv(t)
<1> DEFINE a == Top(t)
           l == CurrentFrame(t).proxies
           b == [a EXCEPT !.pc = "prev", !.rest = After(a.func, l)]
<1>1. act[t] # <<>> /\ a.pc = "proxy" /\ SetTop(t, b)
      /\ UNCHANGED <<list, enabled, used, frames, tls, reserved, exiting>>
  BY DEF GetPrevStart, At
<1>2. a.pc \in Running /\ a \in Act
  BY <1>1, TopFacts DEF Running
<1>3. l \in Seq(Proxies) /\ IsInjectiveSeq(l) /\ InChain(a, l)
  BY <1>1, <1>2, RunningFacts
<1>4. PICK k \in 1 .. Len(l) : \E m \in k .. Len(l) :
        /\ l[k] = a.func
        /\ \A p \in a.visited : \E j \in 1 .. k : l[j] = p
        /\ \A p \in a.stable : p \in a.visited \/ \E j \in m + 1 .. Len(l) : l[j] = p
  BY <1>3 DEF InChain
<1>5. After(a.func, l) = SubSeq(l, k + 1, Len(l)) /\ SubSeq(l, k + 1, Len(l)) \in Seq(Proxies)
  <2> HIDE DEF l
  <2>1. After(l[k], l) = SubSeq(l, k + 1, Len(l))
    BY <1>3, AfterIsSuffix
  <2>2. k \in 0 .. Len(l)
    OBVIOUS
  <2>3. QED
    BY <1>3, <1>4, <2>1, <2>2, SuffixFacts
<1>6. b \in Act
  BY <1>2, <1>5 DEF Act, Pcs
<1>7. /\ b.pc = "prev" /\ b.hub = a.hub /\ b.ra = a.ra /\ b.owns = a.owns /\ b.stable = a.stable
      /\ b.func = a.func /\ b.stk = a.stk /\ b.visited = a.visited
      /\ b.rest = SubSeq(l, k + 1, Len(l))
  BY <1>2, <1>5 DEF Act
<1> HIDE DEF b, l
<1>8. InChain(b, l)
  <2>1. l[k] = b.func /\ \A p \in b.visited : \E j \in 1 .. k : l[j] = p
    BY <1>4, <1>7
  <2>2. \A p \in b.stable : p \in b.visited \/ \E j \in k + 1 .. Len(l) : l[j] = p
    <3> SUFFICES ASSUME NEW p \in b.stable, p \notin b.visited
                 PROVE  \E j \in k + 1 .. Len(l) : l[j] = p
      OBVIOUS
    <3>1. PICK m \in k .. Len(l) : \E j \in m + 1 .. Len(l) : l[j] = p
      BY <1>4, <1>7
    <3>2. PICK j \in m + 1 .. Len(l) : l[j] = p
      BY <3>1
    <3>3. j \in k + 1 .. Len(l)
      OBVIOUS
    <3>4. QED
      BY <3>2, <3>3
  <2>3. k \in k .. Len(l)
    OBVIOUS
  <2>4. QED
    BY <1>7, <2>1, <2>2, <2>3 DEF InChain
<1>9. QED
  BY <1>1, <1>2, <1>6, <1>7, <1>8, ChainStep DEF l, Running

LEMMA GetPrevNextStep ==
  ASSUME IInv, NEW t \in Threads, GetPrevNext(t) PROVE StepInv(t)
<1> DEFINE a  == Top(t)
           n  == Len(act[t])
           fr == frames[tls[t]]
           d  == Len(fr)
           l  == fr[d].proxies
           a2 == [a EXCEPT !.pc = "proxy", !.rest = <<>>]
           callee == [a EXCEPT !.ra = a.func, !.owns = FALSE, !.rest = <<>>, !.via = "chain"]
           Chain(b) == act' = [act EXCEPT ![t] = Under(t) \o <<a2, b>>]
           mid == [act[t] EXCEPT ![n] = a2]
<1>1. act[t] # <<>> /\ a.pc = "prev" /\ n < MaxDepth
      /\ UNCHANGED <<list, enabled, used, frames, tls, reserved, exiting>>
  BY DEF GetPrevNext, At
<1>2. /\ a \in Act /\ RaPhase(a) /\ StackPhase(a, tls[t]) /\ SearchPhase(a, list, enabled)
      /\ n \in Nat \ {0} /\ act[t] \in Seq(Act) /\ a = act[t][n]
  BY <1>1, TopFacts
<1>3. a.pc \in Running
  BY <1>1 DEF Running
<1>4. /\ tls[t] # NoStack /\ tls[t] \in Stacks /\ a.stk = tls[t]
      /\ d \in Nat \ {0} /\ fr[d] \in Frame /\ CurrentFrame(t) = fr[d]
      /\ fr[d].hub = a.hub /\ l \in Seq(Proxies)
      /\ IsInjectiveSeq(l) /\ InChain(a, l)
      /\ Framed(a, fr, d) /\ InFrames(act[t], fr)
  BY <1>1, <1>3, RunningFacts
<1>5. PICK k \in 1 .. Len(l) : \E m \in k .. Len(l) :
        /\ l[k] = a.func
        /\ \A p \in a.visited : \E j \in 1 .. k : l[j] = p
        /\ \A p \in a.stable : p \in a.visited \/ \E j \in m + 1 .. Len(l) : l[j] = p
        /\ a.pc = "prev" => a.rest = SubSeq(l, m + 1, Len(l))
  BY <1>4 DEF InChain
<1>6. PICK m \in k .. Len(l) :
        /\ l[k] = a.func
        /\ \A p \in a.visited : \E j \in 1 .. k : l[j] = p
        /\ \A p \in a.stable : p \in a.visited \/ \E j \in m + 1 .. Len(l) : l[j] = p
        /\ a.rest = SubSeq(l, m + 1, Len(l))
  BY <1>1, <1>5
<1>7. m \in 0 .. Len(l) /\ a.func \in Proxies /\ a.stable \subseteq enabled[a.hub]
      /\ a.hub \in Hubs
  <2>1. a.stable \subseteq enabled[a.hub] /\ a.hub \in Hubs
    BY <1>2 DEF SearchPhase, Act
  <2> HIDE DEF l
  <2>2. m \in 0 .. Len(l) /\ Len(l) \in Nat
    BY <1>4
  <2>3. a.func \in Proxies
    BY <1>4, <1>6
  <2>4. QED
    BY <2>1, <2>2, <2>3
<1>8. /\ a.rest = <<>> => m = Len(l)
      /\ a.rest # <<>> => /\ m < Len(l) /\ Head(a.rest) = l[m + 1] /\ l[m + 1] \in Proxies
                          /\ Tail(a.rest) = SubSeq(l, (m + 1) + 1, Len(l))
                          /\ a.rest \in Seq(Proxies)
  <2> HIDE DEF l
  <2>1. QED
    BY <1>4, <1>6, <1>7, SuffixFacts
(* When the item is disabled, the traversal goes on.                       *)
<1>9. CASE a.rest # <<>> /\ Head(a.rest) \notin enabled[a.hub]
  <2> DEFINE b == [a EXCEPT !.rest = Tail(a.rest)]
  <2>1. SetTop(t, b)
    BY <1>4, <1>9 DEF GetPrevNext
  <2>2. b \in Act
    <3>1. Tail(a.rest) \in Seq(Proxies)
      BY <1>8, <1>9
    <3>2. QED
      BY <1>2, <3>1 DEF Act
  <2>3. /\ b.pc = "prev" /\ b.hub = a.hub /\ b.ra = a.ra /\ b.owns = a.owns /\ b.stable = a.stable
        /\ b.func = a.func /\ b.stk = a.stk /\ b.visited = a.visited
        /\ b.rest = Tail(a.rest)
    BY <1>1, <1>2 DEF Act
  <2> DEFINE j2 == m + 1
  <2>4. j2 \in k .. Len(l) /\ b.rest = SubSeq(l, j2 + 1, Len(l))
    <3> HIDE DEF l, b
    <3>1. m < Len(l) /\ Len(l) \in Nat /\ b.rest = SubSeq(l, (m + 1) + 1, Len(l))
      BY <1>4, <1>8, <1>9, <2>3
    <3>2. QED
      BY <3>1
  <2>5. \A p \in b.stable : p \in b.visited \/ \E j \in j2 + 1 .. Len(l) : l[j] = p
    <3> SUFFICES ASSUME NEW p \in a.stable, p \notin a.visited
                 PROVE  \E j \in j2 + 1 .. Len(l) : l[j] = p
      BY <2>3
    <3>1. PICK j \in m + 1 .. Len(l) : l[j] = p
      BY <1>6
    <3>2. j # j2
      BY <1>7, <1>8, <1>9, <3>1
    <3>3. j \in j2 + 1 .. Len(l)
      BY <3>2
    <3>4. QED
      BY <3>1, <3>3
  <2> HIDE DEF b, l, j2
  <2>6. InChain(b, l)
    BY <1>6, <2>3, <2>4, <2>5 DEF InChain
  <2>7. InChain(b, CurrentFrame(t).proxies)
    BY <1>4, <2>6 DEF l
  <2>8. b.pc \in Running
    BY <2>3 DEF Running
  <2> HIDE DEF a, fr, d
  <2>9. QED
    BY <1>1, <1>3, <2>1, <2>2, <2>3, <2>7, <2>8, ChainStep DEF a
(* Otherwise the proxy calls the next one, or the original function.       *)
<1>10. /\ a2.pc = "proxy" /\ a2.hub = a.hub /\ a2.ra = a.ra /\ a2.owns = a.owns
       /\ a2.stable = a.stable /\ a2.func = a.func /\ a2.stk = a.stk /\ a2.visited = a.visited
  BY <1>2 DEF Act
<1>11. a2 \in Act
  <2>1. <<>> \in Seq(Proxies)
    OBVIOUS
  <2>2. QED
    BY <1>2, <2>1 DEF Act, Pcs
<1> HIDE DEF a2
<1>12. /\ Len(mid) = n /\ mid \in Seq(Act) /\ mid[n] = a2
       /\ \A i \in 1 .. n - 1 : mid[i] = act[t][i]
  BY <1>2, <1>11
<1>13. ASSUME NEW b \in Act, Chain(b)
       PROVE  /\ act' \in [Threads -> Seq(Act)] /\ Extends(mid, act'[t], n, b)
              /\ \A u \in Threads \ {t} : act'[u] = act[u]
  <2> DEFINE c2 == Under(t) \o <<a2, b>>
  <2>1. Under(t) \in Seq(Act) /\ Len(Under(t)) = n - 1
        /\ \A i \in 1 .. n - 1 : Under(t)[i] = act[t][i]
    BY <1>2 DEF Under
  <2>2. /\ c2 \in Seq(Act) /\ Len(c2) = n + 1 /\ c2[n] = a2 /\ c2[n + 1] = b
        /\ \A i \in 1 .. n - 1 : c2[i] = act[t][i]
    BY <1>2, <1>11, <2>1
  <2>3. \A i \in 1 .. n : c2[i] = mid[i]
    <3> SUFFICES ASSUME NEW i \in 1 .. n PROVE c2[i] = mid[i]
      OBVIOUS
    <3>1. CASE i = n
      BY <1>12, <2>2, <3>1
    <3>2. CASE i # n
      <4>1. i \in 1 .. n - 1
        BY <1>2, <3>2
      <4>2. QED
        BY <1>12, <2>2, <4>1
    <3>3. QED
      BY <3>1, <3>2
  <2>4. Extends(mid, c2, n, b)
    BY <1>2, <1>12, <2>2, <2>3 DEF Extends
  <2>5. act' = [act EXCEPT ![t] = c2]
    BY <1>13
  <2> HIDE DEF c2, mid
  <2>6. QED
    BY <2>2, <2>4, <2>5 DEF IInv, Types
<1>14. InChain(a2, l)
  <2> HIDE DEF l
  <2>1. QED
    BY <1>6, <1>10 DEF InChain
<1>15. Framed(a2, fr, d)
  BY <1>3, <1>4, <1>10, <1>14 DEF Framed, Running
<1>16. Replaces(act[t], mid, n, a2)
  BY <1>2, <1>12 DEF Replaces
<1>17. ThreadInv(act[t], tls[t], frames, list, enabled)
  BY DEF IInv, ThreadsInv
<1>18. InFrames(mid, fr) /\ Base(mid, fr) = Base(act[t], fr)
  <2>1. Pushed(a2) <=> Pushed(act[t][n])
    BY <1>1, <1>2, <1>10 DEF Pushed
  <2>2. InFrames(act[t], fr) /\ Len(fr) \in Nat /\ Framed(a2, fr, Len(fr))
    BY <1>4, <1>15
  <2> HIDE DEF mid, fr, n
  <2>3. QED
    BY <1>16, <2>1, <2>2, ReplaceFrames
<1>19. ThreadInv(mid, tls[t], frames, list, enabled)
  <2>1. \A i \in 1 .. n - 1 : act[t][i].pc \in Running => act[t][i].func \in Proxies
    <3>1. \A i \in 1 .. n - 1 : i \in 1 .. Len(act[t])
      BY <1>2
    <3>2. QED
      BY <1>17, <3>1, RunningAreProxies
  <2>2. RaPhase(a2) /\ StackPhase(a2, tls[t]) /\ SearchPhase(a2, list, enabled)
    BY <1>1, <1>2, <1>4, <1>10 DEF RaPhase, StackPhase, SearchPhase, Running, Pushing
  <2>3. act[t][n].pc \in Running /\ a2.func = act[t][n].func /\ a2.ra = act[t][n].ra
    BY <1>2, <1>3, <1>10
  <2>4. a2.pc # "set" /\ a2.pc # "create"
    BY <1>10
  <2>5. \A s \in Stacks \ {tls[t]} : frames[s] = frames[s]
    OBVIOUS
  <2> HIDE DEF mid, n, a
  <2>6. QED
    BY <1>16, <1>17, <1>18, <2>1, <2>2, <2>3, <2>4, <2>5, ReplaceThread
<1>20. \A i \in 1 .. n : mid[i].stk = act[t][i].stk
  <2> SUFFICES ASSUME NEW i \in 1 .. n PROVE mid[i].stk = act[t][i].stk
    OBVIOUS
  <2>1. CASE i = n
    BY <1>2, <1>10, <1>12, <2>1
  <2>2. CASE i # n
    <3>1. i \in 1 .. n - 1
      BY <1>2, <2>2
    <3>2. QED
      BY <1>12, <3>1
  <2>3. QED
    BY <2>1, <2>2
<1>21. ASSUME NEW b \in Act, Chain(b), b.hub = a.hub, b.ra = a.func, ~ b.owns,
              b.pc \in {"proxy", "orig"}, b.stk = a.stk, b.stable = a.stable,
              b.pc = "orig" => b.stable \subseteq b.visited,
              b.pc = "proxy" => b.func \notin a.visited /\ InChain(b, l)
       PROVE  StepInv(t)
  <2>1. /\ act' \in [Threads -> Seq(Act)] /\ Extends(mid, act'[t], n, b)
        /\ \A u \in Threads \ {t} : act'[u] = act[u]
    BY <1>13, <1>21
  <2>2. a.func \notin CallSites
    BY <1>7, HubAssumption
  <2>3. RaPhase(b) /\ StackPhase(b, tls[t]) /\ SearchPhase(b, list, enabled) /\ ~ Pushed(b)
    BY <1>2, <1>4, <1>21, <2>2 DEF RaPhase, StackPhase, SearchPhase, Running, Pushing, Pushed
  <2>4. Follows(mid[n], b)
    BY <1>10, <1>12, <1>21 DEF Follows, Running
  <2>5. Framed(b, fr, d)
    BY <1>4, <1>21 DEF Framed, Running
  <2>6. b.pc \notin {"create", "set"}
    BY <1>21
  <2>7. tls[t] # NoStack => Base(mid, frames[tls[t]]) = Base(act[t], frames[tls[t]])
    BY <1>18
  <2>8. tls[t] # NoStack => Framed(b, frames[tls[t]], Len(frames[tls[t]]))
    BY <2>5
  <2> HIDE DEF mid, Chain, a2, fr, d, l
  <2>9. QED
    BY <1>1, <1>19, <1>20, <2>1, <2>3, <2>4, <2>6, <2>7, <2>8, BeginStep
<1>22. CASE a.rest = <<>>
  <2> DEFINE b == [callee EXCEPT !.pc = "orig", !.func = NoFunc]
  <2>1. Chain(b)
    BY <1>22 DEF GetPrevNext, a2
  <2>2. /\ b.pc = "orig" /\ b.hub = a.hub /\ b.ra = a.func /\ b.owns = FALSE
        /\ b.stable = a.stable /\ b.stk = a.stk /\ b.visited = a.visited
    BY <1>2 DEF Act
  <2>3. b \in Act
    <3>1. <<>> \in Seq(Proxies) /\ FALSE \in BOOLEAN /\ a.func \in CallSites \cup Proxies
      BY <1>7
    <3>2. QED
      BY <1>2, <3>1 DEF Act, Pcs
  <2>4. b.stable \subseteq b.visited
    <3> HIDE DEF b, l
    <3>1. m = Len(l) /\ Len(l) \in Nat
      BY <1>4, <1>8, <1>22
    <3>2. \A p \in a.stable : p \in a.visited
      BY <1>6, <3>1
    <3>3. QED
      BY <2>2, <3>2
  <2> HIDE DEF b
  <2>5. QED
    BY <1>21, <2>1, <2>2, <2>3, <2>4
<1>23. CASE a.rest # <<>> /\ Head(a.rest) \in enabled[a.hub]
  <2> DEFINE p0 == Head(a.rest)
             b  == [callee EXCEPT !.pc = "proxy", !.func = p0, !.visited = a.visited \cup {p0}]
             k2 == m + 1
  <2>1. Chain(b)
    <3>1. callee.visited = a.visited
      BY <1>2 DEF Act
    <3>2. QED
      BY <1>4, <1>23, <3>1 DEF GetPrevNext, a2
  <2>2. /\ b.pc = "proxy" /\ b.hub = a.hub /\ b.ra = a.func /\ b.owns = FALSE
        /\ b.stable = a.stable /\ b.stk = a.stk /\ b.visited = a.visited \cup {p0} /\ b.func = p0
    BY <1>2 DEF Act
  <2>3. m < Len(l) /\ p0 = l[k2] /\ p0 \in Proxies
    BY <1>8, <1>23
  <2>4. b \in Act
    <3>1. <<>> \in Seq(Proxies) /\ FALSE \in BOOLEAN /\ a.func \in CallSites \cup Proxies
          /\ a.visited \cup {p0} \in SUBSET Proxies
      BY <1>2, <1>7, <2>3 DEF Act
    <3>2. QED
      BY <1>2, <2>3, <3>1 DEF Act, Pcs
  <2>5. p0 \notin a.visited
    <3> SUFFICES ASSUME p0 \in a.visited PROVE FALSE
      OBVIOUS
    <3>1. PICK j \in 1 .. k : l[j] = p0
      BY <1>6
    <3>2. j \in 1 .. Len(l) /\ k2 \in 1 .. Len(l) /\ l[j] = l[k2] /\ j # k2
      BY <2>3, <3>1
    <3> HIDE DEF l, k2
    <3>3. QED
      BY <1>4, <3>2 DEF IsInjectiveSeq
  <2>6. InChain(b, l)
    <3>1. k2 \in 1 .. Len(l) /\ k2 \in k2 .. Len(l) /\ l[k2] = b.func /\ b.pc # "prev"
      BY <2>2, <2>3
    <3>2. \A p \in b.visited : \E j \in 1 .. k2 : l[j] = p
      <4> SUFFICES ASSUME NEW p \in b.visited PROVE \E j \in 1 .. k2 : l[j] = p
        OBVIOUS
      <4>1. CASE p = p0
        BY <2>3, <3>1, <4>1
      <4>2. CASE p \in a.visited
        <5>1. PICK j \in 1 .. k : l[j] = p
          BY <1>6, <4>2
        <5>2. j \in 1 .. k2
          OBVIOUS
        <5>3. QED
          BY <5>1, <5>2
      <4>3. QED
        BY <2>2, <4>1, <4>2
    <3>3. \A p \in b.stable : p \in b.visited \/ \E j \in k2 + 1 .. Len(l) : l[j] = p
      <4> SUFFICES ASSUME NEW p \in a.stable, p \notin b.visited
                   PROVE  \E j \in k2 + 1 .. Len(l) : l[j] = p
        BY <2>2
      <4>1. p \notin a.visited /\ p # p0
        BY <2>2
      <4>2. PICK j \in m + 1 .. Len(l) : l[j] = p
        BY <1>6, <4>1
      <4>3. j # k2
        BY <2>3, <4>1, <4>2
      <4>4. j \in k2 + 1 .. Len(l)
        BY <4>3
      <4>5. QED
        BY <4>2, <4>4
    <3> HIDE DEF b, l, k2
    <3>4. QED
      BY <3>1, <3>2, <3>3 DEF InChain
  <2> HIDE DEF b
  <2>7. QED
    BY <1>21, <2>1, <2>2, <2>4, <2>5, <2>6
<1>24. QED
  BY <1>9, <1>22, <1>23

LEMMA SetReentrantStep ==
  ASSUME IInv, NEW t \in Threads, NEW allow \in BOOLEAN, SetReentrant(t, allow)
  PROVE  StepInv(t)
<1> DEFINE a   == Top(t)
           n   == Len(act[t])
           fr  == frames[tls[t]]
           d   == Len(fr)
           f   == [fr[d] EXCEPT !.reentrant = allow]
           fr2 == [fr EXCEPT ![d] = f]
<1>1. act[t] # <<>> /\ a.pc = "proxy" /\ HasFrame(t, a.ra)
      /\ UNCHANGED <<list, enabled, used, tls, reserved, exiting, act>>
  BY DEF SetReentrant, At
<1>2. a.pc \in Running /\ n \in Nat \ {0} /\ a = act[t][n] /\ act[t] \in Seq(Act)
  BY <1>1, TopFacts DEF Running
<1>3. /\ tls[t] # NoStack /\ tls[t] \in Stacks /\ a.stk = tls[t] /\ a.owns
      /\ fr \in Seq(Frame \cup {Unwritten}) /\ d \in Nat \ {0} /\ fr[d] \in Frame
      /\ Framed(a, fr, d) /\ InFrames(act[t], fr)
  BY <1>1, <1>2, RunningFacts
<1>4. f \in Frame /\ f.hub = fr[d].hub /\ f.ra = fr[d].ra /\ f.proxies = fr[d].proxies
  BY <1>3 DEF Frame
<1>5. frames' = [frames EXCEPT ![tls[t]] = fr2]
  BY <1>3 DEF SetReentrant, IInv, Types
<1> HIDE DEF f
<1>6. /\ fr2 \in Seq(Frame \cup {Unwritten}) /\ Len(fr2) = d /\ fr2[d] = f
      /\ \A i \in 1 .. d - 1 : fr2[i] = fr[i]
  <2>1. f \in Frame \cup {Unwritten} /\ d \in 1 .. Len(fr)
    BY <1>3, <1>4
  <2>2. QED
    BY <1>3, <2>1
<1> HIDE DEF fr2
<1>7. /\ frames' \in [Stacks -> Seq(Frame \cup {Unwritten})] /\ frames'[tls[t]] = fr2
      /\ \A s \in Stacks \ {tls[t]} : frames'[s] = frames[s]
  BY <1>3, <1>5, <1>6 DEF IInv, Types
<1>8. Invited(fr2)
  <2>1. fr[d] # Unwritten
    BY <1>3, FramesAreWritten
  <2>2. f # Unwritten
    BY <1>4, FramesAreWritten
  <2>3. Invited(fr)
    BY <1>3 DEF IInv
  <2>4. ASSUME NEW i \in 1 .. d, NEW j \in 1 .. d, i < j,
               Unwritten \notin {fr2[i], fr2[j]}, fr2[i].hub = fr2[j].hub
        PROVE  fr2[i].reentrant
    <3>1. i \in 1 .. d - 1 /\ fr2[i] = fr[i]
      BY <1>3, <1>6, <2>4
    <3>2. fr[j].hub = fr2[j].hub /\ fr[j] # Unwritten
      <4>1. CASE j = d
        BY <1>4, <1>6, <2>1, <4>1
      <4>2. CASE j # d
        <5>1. j \in 1 .. d - 1
          BY <1>3, <4>2
        <5>2. QED
          BY <1>6, <2>4, <5>1
      <4>3. QED
        BY <4>1, <4>2
    <3>3. QED
      BY <2>3, <2>4, <3>1, <3>2 DEF Invited
  <2>5. QED
    BY <1>6, <2>4 DEF Invited
<1>9. Framed(a, fr2, d)
  BY <1>1, <1>2, <1>3, <1>4, <1>6 DEF Framed
<1>10. InFrames(act[t], fr2) /\ Base(act[t], fr2) = Base(act[t], fr)
  <2>1. Pushed(act[t][n])
    BY <1>2, <1>3 DEF Pushed
  <2>2. Rewrites(act[t], act[t], fr, fr2, n)
    BY <1>2, <1>3, <1>6, <1>9, <2>1 DEF Rewrites
  <2> HIDE DEF fr, n
  <2>3. QED
    BY <1>3, <2>2, RewriteFrames
<1>11. ThreadInv(act[t], tls[t], frames, list, enabled)
  BY DEF IInv, ThreadsInv
<1>12. \A i \in 1 .. n : act[t][i].pc = "set" => frames'[act[t][i].stk] = frames[act[t][i].stk]
  <2> SUFFICES ASSUME NEW i \in 1 .. n, act[t][i].pc = "set"
               PROVE  frames'[act[t][i].stk] = frames[act[t][i].stk]
    OBVIOUS
  <2>1. act[t][i].stk # NoStack /\ act[t][i].stk # tls[t] /\ act[t][i] \in Act
    BY <1>2, <1>11 DEF ThreadInv, StackPhase, Pushing
  <2>2. QED
    BY <1>7, <2>1 DEF Act
<1>13. ThreadInv(act[t], tls[t], frames', list, enabled)
  BY <1>2, <1>7, <1>10, <1>11, <1>12, SameThread
<1>14. Types' /\ Others(t)
  BY <1>1, <1>7 DEF IInv, Types, Others
<1>15. OwnStacks(t)
  <2>1. StacksOf(t)' = StacksOf(t)
    BY <1>1 DEF StacksOf
  <2>2. StacksOf(t) \subseteq used /\ tls[t] \in StacksOf(t)
    BY <1>3, KnowsStacks DEF IInv, StacksAreExclusive
  <2>3. QED
    BY <1>1, <1>7, <2>1, <2>2 DEF OwnStacks
<1>16. t \notin exiting => Base(act[t], fr2) = 0
  BY <1>3, <1>10 DEF IInv, NothingLeftBelow
<1>17. \A s \in Stacks : Invited(frames'[s])
  BY <1>7, <1>8 DEF IInv
<1>18. QED
  BY <1>1, <1>7, <1>13, <1>14, <1>15, <1>16, <1>17 DEF StepInv

(* The frames fr2 are fr without the frame of activation a, if it has one. *)
Pops(a, fr, fr2) ==
  /\ Len(fr) \in Nat
  /\ Pushed(a) => Len(fr2) = Len(fr) - 1
  /\ ~ Pushed(a) => Len(fr2) = Len(fr)
  /\ \A k \in 1 .. Len(fr2) : fr2[k] = fr[k]

LEMMA DropFrames ==
  ASSUME NEW calls, NEW calls2, NEW fr, NEW fr2, NEW n,
         Drops(calls, calls2, n), Pops(calls[n], fr, fr2), InFrames(calls, fr)
  PROVE  InFrames(calls2, fr2) /\ Base(calls2, fr2) = Base(calls, fr)
<1>1. n \in Nat \ {0} /\ Len(calls) = n /\ Len(calls2) = n - 1
      /\ \A i \in 1 .. n - 1 : calls2[i] = calls[i]
  BY DEF Drops
<1>2. Len(fr) \in Nat /\ \A k \in 1 .. Len(fr2) : fr2[k] = fr[k]
  BY DEF Pops
<1>3. Pushed(calls[n]) => Len(fr2) = Len(fr) - 1
  BY DEF Pops
<1>4. ~ Pushed(calls[n]) => Len(fr2) = Len(fr)
  BY DEF Pops
<1>5. QED
  BY <1>1, <1>2, <1>3, <1>4, PopFrames

(* A step that ends the last activation, and takes its frame away with it. *)
LEMMA ReturnStep ==
  ASSUME IInv, NEW t \in Threads, act[t] # <<>>,
         act' = [act EXCEPT ![t] = Under(t)],
         UNCHANGED <<list, enabled, used, tls, reserved, exiting>>,
         Pushed(Top(t)) =>
           /\ tls[t] # NoStack /\ frames[tls[t]] # <<>>
           /\ frames' = [frames EXCEPT ![tls[t]] = SubSeq(@, 1, Len(@) - 1)],
         ~ Pushed(Top(t)) => frames' = frames
  PROVE  StepInv(t)
<1> DEFINE a   == Top(t)
           n   == Len(act[t])
           fr  == frames[tls[t]]
           fr2 == frames'[tls[t]]
<1>1. n \in Nat \ {0} /\ a = act[t][n] /\ act[t] \in Seq(Act)
  BY TopFacts
<1>2. Under(t) \in Seq(Act) /\ Drops(act[t], Under(t), n) /\ Len(Under(t)) = n - 1
  BY <1>1 DEF Under, Drops
<1>3. /\ act' \in [Threads -> Seq(Act)] /\ Drops(act[t], act'[t], n) /\ Len(act'[t]) = n - 1
      /\ \A u \in Threads \ {t} : act'[u] = act[u]
  BY <1>2 DEF IInv, Types
<1>4. tls[t] # NoStack => tls[t] \in Stacks /\ fr \in Seq(Frame \cup {Unwritten})
                          /\ Len(fr) \in Nat /\ InFrames(act[t], fr)
  BY TopFacts
<1>5. /\ frames' \in [Stacks -> Seq(Frame \cup {Unwritten})]
      /\ \A s \in Stacks \ {tls[t]} : frames'[s] = frames[s]
      /\ \A s \in Stacks : s # tls[t] => frames'[s] = frames[s]
      /\ tls[t] # NoStack =>
           /\ Pushed(a) => Len(fr2) = Len(fr) - 1
           /\ ~ Pushed(a) => Len(fr2) = Len(fr)
           /\ Len(fr2) <= Len(fr) /\ fr2 \in Seq(Frame \cup {Unwritten})
           /\ \A i \in 1 .. Len(fr2) : fr2[i] = fr[i]
  <2>1. CASE ~ Pushed(a)
    BY <1>4, <2>1 DEF IInv, Types
  <2>2. CASE Pushed(a)
    <3>1. tls[t] # NoStack /\ frames' = [frames EXCEPT ![tls[t]] = SubSeq(fr, 1, Len(fr) - 1)]
          /\ fr # <<>>
      BY <2>2
    <3>2. /\ SubSeq(fr, 1, Len(fr) - 1) \in Seq(Frame \cup {Unwritten})
          /\ Len(SubSeq(fr, 1, Len(fr) - 1)) = Len(fr) - 1
          /\ \A i \in 1 .. Len(fr) - 1 : SubSeq(fr, 1, Len(fr) - 1)[i] = fr[i]
      BY <1>4, <3>1
    <3>3. fr2 = SubSeq(fr, 1, Len(fr) - 1)
      BY <1>4, <3>1 DEF IInv, Types
    <3>4. /\ frames' \in [Stacks -> Seq(Frame \cup {Unwritten})]
          /\ \A s \in Stacks : s # tls[t] => frames'[s] = frames[s]
      BY <1>4, <3>1, <3>2 DEF IInv, Types
    <3> HIDE DEF fr
    <3>5. QED
      BY <1>4, <2>2, <3>1, <3>2, <3>3, <3>4
  <2>3. QED
    BY <2>1, <2>2
<1>6. tls[t] # NoStack => InFrames(act'[t], fr2) /\ Base(act'[t], fr2) = Base(act[t], fr)
  <2> SUFFICES ASSUME tls[t] # NoStack
               PROVE  InFrames(act'[t], fr2) /\ Base(act'[t], fr2) = Base(act[t], fr)
    OBVIOUS
  <2>1. Pops(act[t][n], fr, fr2)
    BY <1>1, <1>4, <1>5 DEF Pops
  <2>2. InFrames(act[t], fr)
    BY <1>4
  <2> HIDE DEF n, fr, fr2, a
  <2>3. QED
    BY <1>3, <2>1, <2>2, DropFrames
<1>7. ThreadInv(act[t], tls[t], frames, list, enabled)
  BY DEF IInv, ThreadsInv
<1>8. ThreadInv(act'[t], tls[t], frames', list, enabled)
  <2>1. tls[t] # NoStack => InFrames(act'[t], frames'[tls[t]])
    BY <1>6
  <2> HIDE DEF n
  <2>2. QED
    BY <1>3, <1>5, <1>7, <2>1, DropThread
<1>9. Types'
  <2>1. ASSUME NEW u \in Threads PROVE Len(act'[u]) <= MaxDepth
    <3>1. Len(act[u]) <= MaxDepth
      BY DEF IInv, Types
    <3>2. CASE u = t
      BY <1>1, <1>3, <3>1, <3>2, HubAssumption
    <3>3. CASE u # t
      BY <1>3, <3>1, <3>3
    <3>4. QED
      BY <3>2, <3>3
  <2>2. QED
    BY <1>3, <1>5, <2>1 DEF IInv, Types
<1>10. Others(t)
  BY <1>3 DEF Others
<1>11. OwnStacks(t)
  <2>1. \A s : s \in StacksOf(t)' => s \in StacksOf(t)
    <3>1. \A s : s \in StacksOf(t)' =>
                   s # NoStack /\ (s = tls[t] \/ \E i \in 1 .. n - 1 : act'[t][i].stk = s)
      BY <1>3 DEF StacksOf
    <3>2. \A s : s \in StacksOf(t) <=>
                   s # NoStack /\ (s = tls[t] \/ \E i \in 1 .. n : act[t][i].stk = s)
      BY KnowsStacks DEF IInv
    <3>3. \A i \in 1 .. n - 1 : i \in 1 .. n /\ act'[t][i] = act[t][i]
      BY <1>1, <1>3 DEF Drops
    <3>4. QED
      BY <3>1, <3>2, <3>3
  <2>2. StacksOf(t) \subseteq used
    BY DEF IInv, StacksAreExclusive
  <2>3. \A s \in Stacks : frames'[s] = frames[s] \/ s \in StacksOf(t)
    <3>1. tls[t] \in Stacks => tls[t] \in StacksOf(t)
      BY KnowsStacks, HubAssumption DEF IInv
    <3>2. QED
      BY <1>5, <3>1
  <2>4. QED
    BY <2>1, <2>2, <2>3 DEF OwnStacks
<1>12. t \notin exiting /\ tls[t] # NoStack => Base(act'[t], frames'[tls[t]]) = 0
  BY <1>6 DEF IInv, NothingLeftBelow
<1>13. \A s \in Stacks : Invited(frames'[s])
  <2>1. \A s \in Stacks : Invited(frames[s])
    BY DEF IInv
  <2>2. ASSUME tls[t] \in Stacks PROVE Invited(fr2)
    <3>1. tls[t] # NoStack /\ Invited(fr)
      BY <2>1, <2>2, HubAssumption
    <3>2. Len(fr2) \in Nat /\ Len(fr) \in Nat /\ Len(fr2) <= Len(fr)
          /\ \A i \in 1 .. Len(fr2) : fr2[i] = fr[i]
      BY <1>4, <1>5, <3>1
    <3>3. \A i \in 1 .. Len(fr2) : i \in 1 .. Len(fr)
      BY <3>2
    <3> HIDE DEF fr, fr2
    <3>4. QED
      BY <3>1, <3>2, <3>3 DEF Invited
  <2>3. QED
    BY <1>5, <2>1, <2>2
<1>14. QED
  BY <1>8, <1>9, <1>10, <1>11, <1>12, <1>13 DEF StepInv

LEMMA PopAndReturnStep ==
  ASSUME IInv, NEW t \in Threads, PopAndReturn(t) PROVE StepInv(t)
<1>1. act[t] # <<>> /\ Top(t).pc = "proxy" /\ act' = [act EXCEPT ![t] = Under(t)]
      /\ UNCHANGED <<list, enabled, used, tls, reserved, exiting>>
  BY DEF PopAndReturn, At
<1>2. Top(t).pc \in Running
  BY <1>1 DEF Running
<1>3. tls[t] # NoStack /\ frames[tls[t]] # <<>> /\ (HasFrame(t, Top(t).ra) <=> Top(t).owns)
  BY <1>1, <1>2, RunningFacts
<1>4. Pushed(Top(t)) <=> HasFrame(t, Top(t).ra)
  BY <1>1, <1>3 DEF Pushed
<1>5. Pushed(Top(t)) => frames' = [frames EXCEPT ![tls[t]] = SubSeq(@, 1, Len(@) - 1)]
  BY <1>4 DEF PopAndReturn
<1>6. ~ Pushed(Top(t)) => frames' = frames
  BY <1>4 DEF PopAndReturn
<1>7. QED
  BY <1>1, <1>3, <1>5, <1>6, ReturnStep

LEMMA ReturnFromOriginalStep ==
  ASSUME IInv, NEW t \in Threads, ReturnFromOriginal(t) PROVE StepInv(t)
<1>1. act[t] # <<>> /\ Top(t).pc = "orig" /\ act' = [act EXCEPT ![t] = Under(t)]
      /\ UNCHANGED <<list, enabled, used, frames, tls, reserved, exiting>>
  BY DEF ReturnFromOriginal, At
<1>2. RaPhase(Top(t))
  BY <1>1, TopFacts
<1>3. ~ Pushed(Top(t))
  BY <1>1, <1>2 DEF Pushed, RaPhase, Running
<1>4. QED
  BY <1>1, <1>3, ReturnStep

----------------------------------------------------------------------------
(* The end of a thread.                                                    *)
(* A thread inside of nothing.                                             *)
LEMMA NoCalls ==
  ASSUME NEW own, NEW fs, NEW lists, NEW on, own # NoStack => Len(fs[own]) \in Nat
  PROVE  ThreadInv(<<>>, own, fs, lists, on)
<1>1. Len(<<>>) = 0 /\ 1 .. 0 = {} /\ 1 .. 0 - 1 = {}
  OBVIOUS
<1>2. Depth(<<>>, 0) = 0
  BY DepthZero
<1>3. own # NoStack => InFrames(<<>>, fs[own])
  BY <1>1, <1>2 DEF InFrames, Base
<1>4. QED
  BY <1>1, <1>3 DEF ThreadInv, StacksDiffer

LEMMA ThreadExitStep ==
  ASSUME IInv, NEW t \in Threads, ThreadExit(t) PROVE StepInv(t)
<1>1. /\ exiting' = exiting \cup {t} /\ act' = [act EXCEPT ![t] = <<>>]
      /\ UNCHANGED <<list, enabled, used, frames, tls, reserved>>
  BY DEF ThreadExit
<1>2. /\ act' \in [Threads -> Seq(Act)] /\ act'[t] = <<>> /\ Len(act'[t]) = 0
      /\ \A u \in Threads \ {t} : act'[u] = act[u]
  BY <1>1 DEF IInv, Types
<1>3. Types'
  <2>1. ASSUME NEW u \in Threads PROVE Len(act'[u]) <= MaxDepth
    <3>1. CASE u = t
      BY <1>2, <3>1, HubAssumption
    <3>2. CASE u # t
      BY <1>2, <3>2 DEF IInv, Types
    <3>3. QED
      BY <3>1, <3>2
  <2>2. QED
    BY <1>1, <1>2, <2>1 DEF IInv, Types
<1>4. Others(t)
  BY <1>1, <1>2 DEF Others
<1>5. ThreadInv(act'[t], tls[t], frames, list, enabled)
  BY <1>2, NoCalls, TopFacts DEF IInv, Types
<1>6. OwnStacks(t)
  <2>1. StacksOf(t)' \subseteq {tls[t]} \ {NoStack}
    BY <1>1, <1>2 DEF StacksOf
  <2>2. {tls[t]} \ {NoStack} \subseteq StacksOf(t) /\ StacksOf(t) \subseteq used
    BY KnowsStacks DEF IInv, StacksAreExclusive
  <2>3. QED
    BY <1>1, <2>1, <2>2 DEF OwnStacks
<1>7. t \in exiting' /\ \A s \in Stacks : Invited(frames[s])
  BY <1>1 DEF IInv
<1>8. QED
  BY <1>1, <1>3, <1>4, <1>5, <1>6, <1>7 DEF StepInv

LEMMA StackDestroyStep ==
  ASSUME IInv, NEW t \in Threads, StackDestroy(t) PROVE StepInv(t)
<1>1. /\ t \in exiting /\ act[t] = <<>> /\ tls[t] \in used
      /\ used' = used \ {tls[t]} /\ tls' = [tls EXCEPT ![t] = NoStack]
      /\ reserved' = reserved \cup {t}
      /\ UNCHANGED <<list, enabled, frames, exiting, act>>
  BY DEF StackDestroy
<1>2. /\ tls' \in [Threads -> Stacks \cup {NoStack}] /\ tls'[t] = NoStack
      /\ \A u \in Threads \ {t} : tls'[u] = tls[u]
  BY <1>1 DEF IInv, Types
<1>3. Types' /\ Others(t)
  BY <1>1, <1>2 DEF IInv, Types, Others
<1>4. ThreadInv(act[t], NoStack, frames, list, enabled)
  BY <1>1, NoCalls
<1>5. OwnStacks(t)
  <2>1. StacksOf(t)' = {}
    BY <1>1, <1>2 DEF StacksOf
  <2>2. tls[t] \in StacksOf(t)
    BY <1>1, KnowsStacks, HubAssumption DEF IInv, Types
  <2>3. QED
    BY <1>1, <2>1, <2>2 DEF OwnStacks
<1>6. \A s \in Stacks : Invited(frames[s])
  BY DEF IInv
<1>7. QED
  BY <1>1, <1>2, <1>3, <1>4, <1>5, <1>6 DEF StepInv

LEMMA ThreadEndStep ==
  ASSUME IInv, NEW t \in Threads, ThreadEnd(t) PROVE StepInv(t)
<1>1. /\ tls[t] = NoStack /\ exiting' = exiting \ {t} /\ reserved' = reserved \ {t}
      /\ UNCHANGED <<list, enabled, used, frames, tls, act>>
  BY DEF ThreadEnd
<1>2. Types' /\ Others(t)
  BY <1>1 DEF IInv, Types, Others
<1>3. OwnStacks(t)
  <2>1. StacksOf(t)' = StacksOf(t) /\ StacksOf(t) \subseteq used
    BY <1>1 DEF StacksOf, IInv, StacksAreExclusive
  <2>2. QED
    BY <1>1, <2>1 DEF OwnStacks
<1>4. ThreadInv(act[t], tls[t], frames, list, enabled) /\ \A s \in Stacks : Invited(frames[s])
  BY DEF IInv, ThreadsInv
<1>5. QED
  BY <1>1, <1>2, <1>3, <1>4 DEF StepInv

----------------------------------------------------------------------------
(* Hooking and unhooking.                                                  *)
LEMMA AddProxyStep ==
  ASSUME IInv, NEW p \in Proxies, AddProxy(Target[p], p) PROVE IInv'
<1> DEFINE h == Target[p]
<1>1. h \in Hubs
  BY HubAssumption
<1>2. /\ enabled' = [enabled EXCEPT ![h] = enabled[h] \cup {p}]
      /\ UNCHANGED <<used, frames, tls, reserved, exiting, act>>
      /\ p \in Range(list[h]) => list' = list
      /\ p \notin Range(list[h]) => list' = [list EXCEPT ![h] = <<p>> \o list[h]]
  BY DEF AddProxy
<1>3. /\ list \in [Hubs -> Seq(Proxies)] /\ enabled \in [Hubs -> SUBSET Proxies]
      /\ act \in [Threads -> Seq(Act)]
  BY DEF IInv, Types
<1>4. /\ enabled' \in [Hubs -> SUBSET Proxies] /\ enabled'[h] = enabled[h] \cup {p}
      /\ \A g \in Hubs : g # h => enabled'[g] = enabled[g]
  BY <1>1, <1>2, <1>3
<1>5. list' \in [Hubs -> Seq(Proxies)] /\ \A g \in Hubs : g # h => list'[g] = list[g]
  <2>1. list[h] \in Seq(Proxies) /\ <<p>> \o list[h] \in Seq(Proxies)
    BY <1>1, <1>3
  <2>2. CASE p \in Range(list[h])
    BY <1>2, <1>3, <2>2
  <2>3. CASE p \notin Range(list[h])
    BY <1>1, <1>2, <1>3, <2>1, <2>3
  <2>4. QED
    BY <2>2, <2>3
<1>6. \/ p \in Range(list[h]) /\ list'[h] = list[h]
      \/ p \notin Range(list[h]) /\ list'[h] = <<p>> \o list[h]
  BY <1>1, <1>2, <1>3
<1> HIDE DEF h
<1>7. Types'
  BY <1>2, <1>4, <1>5 DEF IInv, Types
<1>8. ListsAreSound'
  <2> SUFFICES ASSUME NEW g \in Hubs
               PROVE  IsInjectiveSeq(list'[g]) /\ enabled'[g] \subseteq Range(list'[g])
    BY DEF ListsAreSound
  <2>1. IsInjectiveSeq(list[g]) /\ enabled[g] \subseteq Range(list[g]) /\ list[g] \in Seq(Proxies)
    BY <1>3 DEF IInv, ListsAreSound
  <2>2. CASE g # h
    BY <1>4, <1>5, <2>1, <2>2
  <2>3. CASE g = h /\ p \in Range(list[h]) /\ list'[h] = list[h]
    BY <1>4, <2>1, <2>3
  <2>4. CASE g = h /\ p \notin Range(list[h]) /\ list'[h] = <<p>> \o list[h]
    <3>1. /\ IsInjectiveSeq(<<p>> \o list[h])
          /\ \A q : q \in Range(<<p>> \o list[h]) <=> q = p \/ q \in Range(list[h])
      BY <2>1, <2>4, InjectiveLonger
    <3>2. QED
      BY <1>4, <2>1, <2>4, <3>1
  <2>5. QED
    BY <1>6, <2>2, <2>3, <2>4
<1>9. ThreadsInv'
  <2> SUFFICES ASSUME NEW t \in Threads
               PROVE  ThreadInv(act[t], tls[t], frames, list', enabled')
    BY <1>2 DEF ThreadsInv
  <2>1. ThreadInv(act[t], tls[t], frames, list, enabled) /\ act[t] \in Seq(Act)
    BY <1>3 DEF IInv, ThreadsInv
  <2>2. \A g \in Hubs : enabled[g] \subseteq enabled'[g]
    BY <1>4
  <2>3. \A g \in Hubs : list[g] \in Seq(Proxies)
    BY <1>3
  <2>4. \A g \in Hubs : list'[g] = list[g] \/ \E q \in Proxies : list'[g] = <<q>> \o list[g]
    BY <1>5, <1>6
  <2>5. QED
    BY <2>1, <2>2, <2>3, <2>4, GrowThread
<1>10. StacksAreExclusive'
  <2>1. StacksAreExclusive
    BY DEF IInv
  <2>2. \A t \in Threads : StacksOf(t)' = StacksOf(t)
    BY <1>2 DEF StacksOf
  <2>3. QED
    BY <1>2, <2>1, <2>2 DEF StacksAreExclusive
<1>11. NothingLeftBelow' /\ \A s \in Stacks : Invited(frames'[s])
  BY <1>2 DEF IInv, NothingLeftBelow
<1>12. QED
  BY <1>7, <1>8, <1>9, <1>10, <1>11 DEF IInv

LEMMA DelProxyStep ==
  ASSUME IInv, NEW p \in Proxies, DelProxy(Target[p], p) PROVE IInv'
<1> DEFINE h == Target[p]
           Less(a) == IF a.hub = h THEN [a EXCEPT !.stable = @ \ {p}] ELSE a
<1>1. h \in Hubs
  BY HubAssumption
<1>2. /\ enabled' = [enabled EXCEPT ![h] = enabled[h] \ {p}]
      /\ UNCHANGED <<list, used, frames, tls, reserved, exiting>>
      /\ act' = [t \in Threads |-> [i \in 1 .. Len(act[t]) |-> Less(act[t][i])]]
  BY DEF DelProxy, NoLongerStable
<1>3. /\ enabled \in [Hubs -> SUBSET Proxies] /\ act \in [Threads -> Seq(Act)]
  BY DEF IInv, Types
<1>4. /\ enabled' \in [Hubs -> SUBSET Proxies] /\ enabled'[h] = enabled[h] \ {p}
      /\ \A g \in Hubs : g # h => enabled'[g] = enabled[g]
  BY <1>1, <1>2, <1>3
<1>5. ASSUME NEW a \in Act
      PROVE  Less(a) \in Act /\ Loses(a, Less(a)) /\ (a.hub = h => p \notin Less(a).stable)
  <2>1. CASE a.hub = h
    <3>1. a.stable \ {p} \in SUBSET Proxies
      BY <1>5 DEF Act
    <3>2. QED
      BY <1>5, <2>1, <3>1 DEF Act, Loses
  <2>2. CASE a.hub # h
    BY <1>5, <2>2 DEF Loses
  <2>3. QED
    BY <2>1, <2>2
<1> HIDE DEF h, Less
<1>6. ASSUME NEW t \in Threads
      PROVE  /\ act'[t] \in Seq(Act) /\ Len(act'[t]) = Len(act[t])
             /\ \A i \in 1 .. Len(act[t]) :
                  act[t][i] \in Act /\ act'[t][i] = Less(act[t][i]) /\ Loses(act[t][i], act'[t][i])
  <2>1. act[t] \in Seq(Act) /\ Len(act[t]) \in Nat /\ \A i \in 1 .. Len(act[t]) : act[t][i] \in Act
    BY <1>3
  <2>2. act'[t] = [i \in 1 .. Len(act[t]) |-> Less(act[t][i])]
    BY <1>2
  <2>3. \A i \in 1 .. Len(act[t]) : Less(act[t][i]) \in Act /\ Loses(act[t][i], Less(act[t][i]))
    BY <1>5, <2>1
  <2>4. act'[t] \in Seq(Act) /\ Len(act'[t]) = Len(act[t])
    BY <2>1, <2>2, <2>3
  <2>5. QED
    BY <2>1, <2>2, <2>3, <2>4
<1>7. Types'
  <2>1. act' \in [Threads -> Seq(Act)]
    <3>1. act' = [t \in Threads |-> act'[t]]
      BY <1>2
    <3>2. QED
      BY <1>6, <3>1
  <2>2. \A t \in Threads : Len(act'[t]) <= MaxDepth
    BY <1>6 DEF IInv, Types
  <2>3. QED
    BY <1>2, <1>4, <2>1, <2>2 DEF IInv, Types
<1>8. ListsAreSound'
  <2>1. \A g \in Hubs : enabled'[g] \subseteq enabled[g]
    BY <1>4
  <2>2. QED
    BY <1>2, <2>1 DEF IInv, ListsAreSound
<1>9. ASSUME NEW t \in Threads
      PROVE  /\ ThreadInv(act'[t], tls[t], frames, list, enabled')
             /\ Base(act'[t], frames[tls[t]]) = Base(act[t], frames[tls[t]])
  <2>1. ThreadInv(act[t], tls[t], frames, list, enabled) /\ act[t] \in Seq(Act)
    BY <1>3 DEF IInv, ThreadsInv
  <2>2. \A i \in 1 .. Len(act[t]) : act'[t][i].stable \subseteq enabled'[act'[t][i].hub]
    <3> SUFFICES ASSUME NEW i \in 1 .. Len(act[t])
                 PROVE  act'[t][i].stable \subseteq enabled'[act'[t][i].hub]
      OBVIOUS
    <3> DEFINE a == act[t][i]
               b == act'[t][i]
    <3>1. a \in Act /\ b = Less(a) /\ Loses(a, b) /\ (a.hub = h => p \notin b.stable)
      BY <1>5, <1>6
    <3>2. a.stable \subseteq enabled[a.hub] /\ a.hub \in Hubs
      BY <2>1, <3>1 DEF ThreadInv, SearchPhase, Act
    <3> HIDE DEF a, b
    <3>3. b.stable \subseteq enabled'[b.hub]
      BY <1>4, <3>1, <3>2 DEF Loses
    <3>4. QED
      BY <3>3 DEF b
  <2>3. Len(act'[t]) = Len(act[t]) /\ \A i \in 1 .. Len(act[t]) : Loses(act[t][i], act'[t][i])
    BY <1>6
  <2> DEFINE c   == act[t]
             c2  == act'[t]
             own == tls[t]
             on2 == enabled'
  <2>4. /\ Len(c2) = Len(c) /\ \A i \in 1 .. Len(c) : Loses(c[i], c2[i])
        /\ \A i \in 1 .. Len(c) : c2[i].stable \subseteq on2[c2[i].hub]
        /\ c \in Seq(Act) /\ ThreadInv(c, own, frames, list, enabled)
    BY <2>1, <2>2, <2>3
  <2> HIDE DEF c, c2, own, on2
  <2>5. ThreadInv(c2, own, frames, list, on2) /\ Base(c2, frames[own]) = Base(c, frames[own])
    BY <2>4, LoseThread
  <2>6. QED
    BY <2>5 DEF c, c2, own, on2
<1>10. ThreadsInv'
  BY <1>2, <1>9 DEF ThreadsInv
<1>11. StacksAreExclusive'
  <2>1. ASSUME NEW t \in Threads PROVE StacksOf(t)' = StacksOf(t)
    <3>1. \A i \in 1 .. Len(act[t]) : act'[t][i].stk = act[t][i].stk
      BY <1>6 DEF Loses
    <3>2. Len(act'[t]) = Len(act[t]) /\ tls' = tls
      BY <1>2, <1>6
    <3> DEFINE c2 == act'[t]
    <3>3. Len(c2) = Len(act[t]) /\ \A i \in 1 .. Len(act[t]) : c2[i].stk = act[t][i].stk
      BY <3>1, <3>2
    <3> HIDE DEF c2
    <3>4. {c2[i].stk : i \in 1 .. Len(c2)} = {act[t][i].stk : i \in 1 .. Len(act[t])}
      BY <3>3
    <3>5. QED
      BY <3>2, <3>4 DEF StacksOf, c2
  <2>2. StacksAreExclusive
    BY DEF IInv
  <2>3. QED
    BY <1>2, <2>1, <2>2 DEF StacksAreExclusive
<1>12. NothingLeftBelow' /\ \A s \in Stacks : Invited(frames'[s])
  BY <1>2, <1>9 DEF IInv, NothingLeftBelow
<1>13. QED
  BY <1>7, <1>8, <1>10, <1>11, <1>12 DEF IInv

----------------------------------------------------------------------------
LEMMA InitIInv == Init => IInv
<1> SUFFICES ASSUME Init PROVE IInv
  OBVIOUS
<1> USE DEF Init
<1>1. <<>> \in Seq(Proxies) /\ <<>> \in Seq(Frame \cup {Unwritten}) /\ <<>> \in Seq(Act)
      /\ Len(<<>>) = 0
  OBVIOUS
<1>2. Types
  BY <1>1, HubAssumption DEF Types
<1>3. ListsAreSound
  BY <1>1 DEF ListsAreSound, IsInjectiveSeq
<1>4. StacksAreExclusive
  BY <1>1 DEF StacksAreExclusive, StacksOf
<1>5. ThreadsInv
  <2> SUFFICES ASSUME NEW t \in Threads
               PROVE  ThreadInv(<<>>, NoStack, frames, list, enabled)
    BY DEF ThreadsInv
  <2>1. QED
    BY NoCalls
<1>6. NothingLeftBelow
  BY DEF NothingLeftBelow
<1>7. \A s \in Stacks : Invited(frames[s])
  BY <1>1 DEF Invited
<1>8. QED
  BY <1>2, <1>3, <1>4, <1>5, <1>6, <1>7 DEF IInv

LEMMA NextIInv == IInv /\ [Next]_vars => IInv'
<1> SUFFICES ASSUME IInv, [Next]_vars PROVE IInv'
  OBVIOUS
<1>1. ASSUME NEW t \in Threads, Step(t) PROVE IInv'
  <2>1. CASE \E h \in Hubs, ra \in CallSites : Call(t, h, ra)
    BY <2>1, CallStep, StepSuffices
  <2>2. CASE ReadTls(t)
    BY <2>2, ReadTlsStep, StepSuffices
  <2>3. CASE TrySlot(t)
    BY <2>3, TrySlotStep, StepSuffices
  <2>4. CASE MapStack(t)
    BY <2>4, MapStackStep, StepSuffices
  <2>5. CASE SetTls(t)
    BY <2>5, SetTlsStep, StepSuffices
  <2>6. CASE CheckRecursion(t)
    BY <2>6, CheckRecursionStep, StepSuffices
  <2>7. CASE FindFirst(t)
    BY <2>7, FindFirstStep, StepSuffices
  <2>8. CASE WriteFrame(t)
    BY <2>8, WriteFrameStep, StepSuffices
  <2>9. CASE GetPrevStart(t)
    BY <2>9, GetPrevStartStep, StepSuffices
  <2>10. CASE GetPrevNext(t)
    BY <2>10, GetPrevNextStep, StepSuffices
  <2>11. CASE \E allow \in BOOLEAN : SetReentrant(t, allow)
    BY <2>11, SetReentrantStep, StepSuffices
  <2>12. CASE PopAndReturn(t)
    BY <2>12, PopAndReturnStep, StepSuffices
  <2>13. CASE ReturnFromOriginal(t)
    BY <2>13, ReturnFromOriginalStep, StepSuffices
  <2>14. CASE ThreadExit(t)
    BY <2>14, ThreadExitStep, StepSuffices
  <2>15. CASE StackDestroy(t)
    BY <2>15, StackDestroyStep, StepSuffices
  <2>16. CASE ThreadEnd(t)
    BY <2>16, ThreadEndStep, StepSuffices
  <2>17. QED
    BY <1>1, <2>1, <2>2, <2>3, <2>4, <2>5, <2>6, <2>7, <2>8, <2>9, <2>10, <2>11, <2>12,
       <2>13, <2>14, <2>15, <2>16 DEF Step
<1>2. ASSUME NEW p \in Proxies, AddProxy(Target[p], p) \/ DelProxy(Target[p], p) PROVE IInv'
  BY <1>2, AddProxyStep, DelProxyStep
<1>3. CASE UNCHANGED vars
  <2>1. UNCHANGED <<list, enabled, used, frames, tls, reserved, exiting, act>>
    BY <1>3 DEF vars
  <2>2. Types' /\ ListsAreSound' /\ ThreadsInv' /\ NothingLeftBelow'
    BY <2>1 DEF IInv, Types, ListsAreSound, ThreadsInv, NothingLeftBelow
  <2>3. StacksAreExclusive'
    <3>1. \A t \in Threads : StacksOf(t)' = StacksOf(t)
      BY <2>1 DEF StacksOf
    <3>2. StacksAreExclusive
      BY DEF IInv
    <3>3. QED
      BY <2>1, <3>1, <3>2 DEF StacksAreExclusive
  <2>4. QED
    BY <2>1, <2>2, <2>3 DEF IInv
<1>4. QED
  BY <1>1, <1>2, <1>3 DEF Next

(* The inductive invariant of the hub: what every activation of a thread   *)
(* knows of the lists, the stacks and its frame at the step it is at.      *)
THEOREM Invariance == Spec => []IInv
<1>1. Init => IInv
  BY InitIInv
<1>2. IInv /\ [Next]_vars => IInv'
  BY NextIInv
<1>3. QED
  BY <1>1, <1>2, PTL DEF Spec

(* The state of the hub keeps its types.                                   *)
THEOREM TypeCorrect == Spec => []TypeOK
<1>1. IInv => TypeOK
  <2> SUFFICES ASSUME IInv PROVE TypeOK
    OBVIOUS
  <2>1. \A s \in Stacks : \A i \in 1 .. Len(frames[s]) : frames[s][i] \in Frame \cup {Unwritten}
    BY DEF IInv, Types
  <2>2. QED
    BY <2>1 DEF IInv, Types, TypeOK
<1>2. QED
  BY <1>1, Invariance, PTL

(* No two threads use one stack, and a stack in use is marked as taken:    *)
(* the slots of the cache are handed out by compare-and-swap, and given    *)
(* back by the destructor of the thread that has them.                     *)
THEOREM StacksStayExclusive == Spec => []StacksAreExclusive
<1>1. IInv => StacksAreExclusive
  BY DEF IInv
<1>2. QED
  BY <1>1, Invariance, PTL

(* A thread is inside of a hooked function twice only if the proxy of the  *)
(* outer call has allowed it.                                              *)
THEOREM ReentryIsInvited == Spec => []NoUninvitedReentry
<1>1. IInv => NoUninvitedReentry
  BY DEF IInv, Invited, NoUninvitedReentry
<1>2. QED
  BY <1>1, Invariance, PTL

(* No proxy is called twice in one call, whatever happens to the list      *)
(* meanwhile: sh_hub_get_prev_func() goes on behind the caller's item.     *)
THEOREM ChainsMoveForward == Spec => []ChainMovesForward
<1>1. IInv => ChainMovesForward
  BY DEF IInv, ThreadsInv, ThreadInv, Follows, Running, ChainMovesForward
<1>2. QED
  BY <1>1, Invariance, PTL

(* Every hooked call pops the frame it has pushed, and no other, also when *)
(* signal handlers call hooked functions between any two steps.            *)
THEOREM FramesMatchCalls == Spec => []FramesMirrorCalls
<1>1. IInv => FramesMirrorCalls
  <2> SUFFICES ASSUME IInv, NEW t \in Threads \ exiting, tls[t] # NoStack
               PROVE  LET calls == act[t]
                          fr    == frames[tls[t]]
                      IN /\ Len(fr) = Depth(calls, Len(calls))
                         /\ \A i \in 1 .. Len(calls) :
                              /\ calls[i].owns => /\ fr[Depth(calls, i)].hub = calls[i].hub
                                                  /\ fr[Depth(calls, i)].ra = calls[i].ra
                              /\ calls[i].pc = "write" => fr[Depth(calls, i)] = Unwritten
    BY DEF FramesMirrorCalls
  <2> DEFINE calls == act[t]
             fr    == frames[tls[t]]
  <2>1. InFrames(calls, fr) /\ Base(calls, fr) = 0
    BY DEF IInv, ThreadsInv, ThreadInv, NothingLeftBelow
  <2>2. Len(calls) \in Nat /\ Len(fr) \in Nat
    BY DEF IInv, Types
  <2> HIDE DEF calls, fr
  <2>3. Depth(calls, Len(calls)) \in Nat
    BY <2>2, DepthIsFinite
  <2>4. Len(fr) = Depth(calls, Len(calls))
    BY <2>1, <2>2, <2>3 DEF Base
  <2>5. ASSUME NEW i \in 1 .. Len(calls)
        PROVE  /\ calls[i].owns => /\ fr[Depth(calls, i)].hub = calls[i].hub
                                   /\ fr[Depth(calls, i)].ra = calls[i].ra
               /\ calls[i].pc = "write" => fr[Depth(calls, i)] = Unwritten
    <3>1. Depth(calls, i) \in Nat
      BY DepthIsFinite
    <3>2. Framed(calls[i], fr, Depth(calls, i))
      BY <2>1, <3>1 DEF InFrames
    <3>3. QED
      BY <3>2 DEF Framed
  <2>6. QED
    BY <2>4, <2>5 DEF calls, fr
<1>2. QED
  BY <1>1, Invariance, PTL

----------------------------------------------------------------------------
(* Without signal handlers.                                                *)
LEMMA QuietReplaced ==
  ASSUME NEW calls, NEW calls2, NEW n, NEW b, NEW own, NEW own2, NEW ends,
         Replaces(calls, calls2, n, b), QuietThread(calls, own, ends),
         b.pc \in {"create", "set"} => own2 = NoStack,
         ~ ends /\ b.pc = "orig" /\ b.via = "recursive" =>
           \E j \in 1 .. n - 1 : calls[j].owns /\ calls[j].hub = b.hub
  PROVE  QuietThread(calls2, own2, ends)
<1>1. n \in Nat /\ Len(calls) = n /\ Len(calls2) = n /\ calls2[n] = b
  BY DEF Replaces
<1>2. \A i \in 1 .. n - 1 : calls2[i] = calls[i]
  BY DEF Replaces
<1>3. \A i \in 1 .. n : i = n \/ i \in 1 .. n - 1
  BY <1>1
<1>4. \A i \in 1 .. n - 1 : calls[i].pc \in {"proxy", "orig"}
  BY <1>1 DEF QuietThread
<1>5. \A i \in 1 .. n : calls2[i].pc \in {"create", "set"} => own2 = NoStack
  BY <1>1, <1>2, <1>3, <1>4
<1>6. ASSUME ~ ends, NEW i \in 1 .. n, calls2[i].pc = "orig", calls2[i].via = "recursive"
      PROVE  \E j \in 1 .. i - 1 : calls2[j].owns /\ calls2[j].hub = calls2[i].hub
  <2>1. \E j \in 1 .. i - 1 : calls[j].owns /\ calls[j].hub = calls2[i].hub
    <3>1. CASE i = n
      BY <1>1, <1>6, <3>1
    <3>2. CASE i # n
      <4>1. i \in 1 .. n - 1 /\ calls2[i] = calls[i]
        BY <1>2, <1>3, <3>2
      <4>2. QED
        BY <1>1, <1>6, <4>1 DEF QuietThread
    <3>3. QED
      BY <3>1, <3>2
  <2>2. \A j \in 1 .. i - 1 : calls2[j] = calls[j]
    BY <1>1, <1>2
  <2>3. QED
    BY <2>1, <2>2
<1>7. QED
  BY <1>1, <1>2, <1>4, <1>5, <1>6 DEF QuietThread

LEMMA QuietExtended ==
  ASSUME NEW calls, NEW calls2, NEW n, NEW b, NEW own, NEW ends,
         Extends(calls, calls2, n, b), QuietThread(calls, own, ends),
         n > 0 => calls[n].pc \in {"proxy", "orig"},
         b.pc \notin {"create", "set"}, b.via = "chain"
  PROVE  QuietThread(calls2, own, ends)
<1>1. n \in Nat /\ Len(calls) = n /\ Len(calls2) = n + 1 /\ calls2[n + 1] = b
  BY DEF Extends
<1>2. \A i \in 1 .. n : calls2[i] = calls[i]
  BY DEF Extends
<1>3. \A i \in 1 .. n + 1 : i = n + 1 \/ i \in 1 .. n
  BY <1>1
<1>4. \A i \in 1 .. n : calls[i].pc \in {"proxy", "orig"}
  <2>1. \A i \in 1 .. n : i = n \/ i \in 1 .. n - 1
    BY <1>1
  <2>2. QED
    BY <1>1, <2>1 DEF QuietThread
<1>5. \A i \in 1 .. n + 1 : calls2[i].pc \in {"create", "set"} => own = NoStack
  BY <1>1, <1>2, <1>3, <1>4
<1>6. ASSUME ~ ends, NEW i \in 1 .. n + 1, calls2[i].pc = "orig", calls2[i].via = "recursive"
      PROVE  \E j \in 1 .. i - 1 : calls2[j].owns /\ calls2[j].hub = calls2[i].hub
  <2>1. i \in 1 .. n /\ calls2[i] = calls[i]
    BY <1>1, <1>2, <1>3, <1>6
  <2>2. \E j \in 1 .. i - 1 : calls[j].owns /\ calls[j].hub = calls[i].hub
    BY <1>1, <1>6, <2>1 DEF QuietThread
  <2>3. \A j \in 1 .. i - 1 : calls2[j] = calls[j]
    BY <1>1, <1>2, <2>1
  <2>4. QED
    BY <2>1, <2>2, <2>3
<1>7. Len(calls2) - 1 = n
  BY <1>1
<1>8. QED
  BY <1>1, <1>2, <1>4, <1>5, <1>6, <1>7 DEF QuietThread

LEMMA QuietDropped ==
  ASSUME NEW calls, NEW calls2, NEW n, NEW own, NEW ends,
         Drops(calls, calls2, n), QuietThread(calls, own, ends)
  PROVE  QuietThread(calls2, own, ends)
<1>1. n \in Nat /\ Len(calls) = n /\ Len(calls2) = n - 1
  BY DEF Drops
<1>2. \A i \in 1 .. n - 1 : calls2[i] = calls[i] /\ i \in 1 .. n
  BY DEF Drops
<1>3. \A i \in 1 .. n - 1 - 1 : i \in 1 .. n - 1
  BY <1>1
<1>4. \A i \in 1 .. n - 1 : \A j \in 1 .. i - 1 : calls2[j] = calls[j]
  BY <1>1, <1>2
<1>5. QED
  BY <1>1, <1>2, <1>3, <1>4 DEF QuietThread

(* The stacks that are taken: the thread keeps those it has got.           *)
Keeps(t) == \A s \in used' : s \in StacksOf(t)' \/ (s \in used /\ s \notin StacksOf(t))

LEMMA QuietSuffices ==
  ASSUME QuietInv, NEW t \in Threads, StepInv(t), Keeps(t),
         QuietThread(act'[t], tls'[t], t \in exiting')
  PROVE  QuietInv'
<1>1. \A u \in Threads \ {t} : act'[u] = act[u] /\ tls'[u] = tls[u] /\ (u \in exiting' <=> u \in exiting)
  BY DEF StepInv, Others
<1>2. ASSUME NEW u \in Threads PROVE QuietThread(act'[u], tls'[u], u \in exiting')
  <2>1. CASE u = t
    BY <2>1
  <2>2. CASE u # t
    BY <1>1, <2>2 DEF QuietInv, QuietThread
  <2>3. QED
    BY <2>1, <2>2
<1>3. \A u \in Threads \ {t} : StacksOf(u)' = StacksOf(u)
  BY <1>1 DEF StacksOf
<1>4. NoStackLeaks'
  <2> SUFFICES ASSUME NEW s \in used' PROVE \E u \in Threads : s \in StacksOf(u)'
    BY DEF NoStackLeaks
  <2>1. CASE s \in StacksOf(t)'
    BY <2>1
  <2>2. CASE s \in used /\ s \notin StacksOf(t)
    <3>1. PICK u \in Threads : s \in StacksOf(u)
      BY <2>2 DEF QuietInv, NoStackLeaks
    <3>2. u \in Threads \ {t}
      BY <2>2, <3>1
    <3>3. QED
      BY <1>3, <3>1, <3>2
  <2>3. QED
    BY <2>1, <2>2 DEF Keeps
<1>5. QED
  BY <1>2, <1>4 DEF QuietInv

(* A step that replaces the last activation, other than the one of SetTls. *)
LEMMA QuietTopStep ==
  ASSUME IInv, QuietInv, NEW t \in Threads, StepInv(t), act[t] # <<>>, NEW b \in Act, SetTop(t, b),
         tls' = tls, exiting' = exiting, used' \subseteq used \cup ({b.stk} \ {NoStack}),
         Top(t).pc # "set",
         b.pc \in {"create", "set"} => tls[t] = NoStack,
         t \notin exiting /\ b.pc = "orig" /\ b.via = "recursive" =>
           \E j \in 1 .. Len(act[t]) - 1 : act[t][j].owns /\ act[t][j].hub = b.hub
  PROVE  QuietInv'
<1> DEFINE n == Len(act[t])
<1>1. Replaces(act[t], act'[t], n, b) /\ Top(t) = act[t][n] /\ n \in Nat \ {0}
      /\ Len(act'[t]) = n /\ act'[t][n] = b /\ StackPhase(Top(t), tls[t])
  BY SetTopEffect, TopFacts DEF IInv, Replaces
<1>2. QuietThread(act[t], tls[t], t \in exiting)
  BY DEF QuietInv
<1>3. QuietThread(act'[t], tls[t], t \in exiting)
  <2> HIDE DEF n
  <2>1. ~ (t \in exiting) /\ b.pc = "orig" /\ b.via = "recursive" =>
           \E j \in 1 .. n - 1 : act[t][j].owns /\ act[t][j].hub = b.hub
    BY DEF n
  <2>2. QED
    BY <1>1, <1>2, <2>1, QuietReplaced
<1>4. Keeps(t)
  <2>1. \A s : s # NoStack /\ (s = tls[t] \/ \E i \in 1 .. n : act'[t][i].stk = s)
                 => s \in StacksOf(t)'
    BY <1>1 DEF StacksOf
  <2>2. \A s : s \in StacksOf(t) <=>
                 s # NoStack /\ (s = tls[t] \/ \E i \in 1 .. n : act[t][i].stk = s)
    BY KnowsStacks DEF IInv
  <2>3. ASSUME NEW s, s \in StacksOf(t) PROVE s \in StacksOf(t)'
    <3>1. CASE s = tls[t]
      BY <2>1, <2>2, <2>3, <3>1
    <3>2. ASSUME NEW i \in 1 .. n, act[t][i].stk = s PROVE s \in StacksOf(t)'
      <4>1. CASE i = n
        <5>1. s = NoStack \/ s = tls[t]
          BY <1>1, <3>2, <4>1 DEF StackPhase
        <5>2. QED
          BY <2>1, <2>2, <2>3, <5>1
      <4>2. CASE i # n
        <5>1. i \in 1 .. n - 1
          BY <1>1, <4>2
        <5>2. act'[t][i].stk = s
          BY <1>1, <3>2, <5>1 DEF Replaces
        <5>3. QED
          BY <2>1, <2>2, <2>3, <5>2
      <4>3. QED
        BY <4>1, <4>2
    <3>3. QED
      BY <2>2, <2>3, <3>1, <3>2
  <2>4. b.stk # NoStack => b.stk \in StacksOf(t)'
    <3>1. n \in 1 .. n /\ act'[t][n].stk = b.stk
      BY <1>1
    <3>2. QED
      BY <2>1, <3>1
  <2>5. QED
    BY <2>3, <2>4 DEF Keeps
<1>5. QED
  BY <1>3, <1>4, QuietSuffices

LEMMA QuietToOriginal ==
  ASSUME IInv, QuietInv, NEW t \in Threads, StepInv(t), act[t] # <<>>,
         NEW via \in {"chain", "reserved", "nostack", "recursive", "full"}, ToOriginal(t, via),
         UNCHANGED <<used, tls, exiting>>, Top(t).pc # "set",
         t \notin exiting /\ via = "recursive" =>
           \E j \in 1 .. Len(act[t]) - 1 : act[t][j].owns /\ act[t][j].hub = Top(t).hub
  PROVE  QuietInv'
<1> DEFINE a == Top(t)
           b == [a EXCEPT !.pc = "orig", !.via = via]
<1>1. a \in Act
  BY TopFacts
<1>2. b \in Act /\ SetTop(t, b)
  BY <1>1 DEF Act, Pcs, ToOriginal
<1>3. b.pc = "orig" /\ b.via = via /\ b.hub = a.hub
  BY <1>1 DEF Act
<1> HIDE DEF b
<1>4. QED
  BY <1>2, <1>3, QuietTopStep

(* The steps of a thread that put their activation at another step.        *)
LEMMA QuietPush ==
  ASSUME IInv, QuietInv, NEW t \in Threads, StepInv(t),
         \/ ReadTls(t) \/ TrySlot(t) \/ MapStack(t) \/ FindFirst(t) \/ WriteFrame(t)
         \/ GetPrevStart(t)
  PROVE  QuietInv'
<1> DEFINE a == Top(t)
<1>1. act[t] # <<>> /\ a.pc \in {"enter", "create", "find", "write", "proxy"}
      /\ tls' = tls /\ exiting' = exiting
  BY DEF ReadTls, TrySlot, MapStack, FindFirst, WriteFrame, GetPrevStart, At
<1>2. a \in Act /\ act[t] \in Seq(Act) /\ Len(act[t]) \in Nat \ {0} /\ a = act[t][Len(act[t])]
      /\ SearchPhase(a, list, enabled) /\ StackPhase(a, tls[t])
  BY <1>1, TopFacts
<1>3. a.pc = "create" => tls[t] = NoStack
  <2>1. Len(act[t]) \in 1 .. Len(act[t])
    BY <1>2
  <2>2. QED
    BY <1>2, <2>1 DEF QuietInv, QuietThread
<1>4. ASSUME NEW b \in Act, SetTop(t, b), b.pc # "orig",
             b.pc \in {"create", "set"} => tls[t] = NoStack,
             used' \subseteq used \cup ({b.stk} \ {NoStack})
      PROVE  QuietInv'
  BY <1>1, <1>4, QuietTopStep
<1>5. CASE ReadTls(t)
  <2>1. CASE t \in reserved
    BY <1>1, <1>5, <2>1, QuietToOriginal DEF ReadTls
  <2>2. CASE t \notin reserved /\ tls[t] = NoStack
    <3> DEFINE b == [a EXCEPT !.pc = "create"]
    <3>1. b \in Act /\ SetTop(t, b) /\ b.pc = "create" /\ used' = used
      BY <1>2, <1>5, <2>2 DEF Act, Pcs, ReadTls, Goto
    <3> HIDE DEF b
    <3>2. QED
      BY <1>4, <2>2, <3>1
  <2>3. CASE t \notin reserved /\ tls[t] # NoStack
    <3> DEFINE b == [a EXCEPT !.pc = "check", !.stk = tls[t]]
    <3>1. tls[t] \in Stacks
      BY <2>3 DEF IInv, Types
    <3>2. b \in Act /\ SetTop(t, b) /\ b.pc = "check" /\ used' = used
      BY <1>2, <1>5, <2>3, <3>1 DEF Act, Pcs, ReadTls
    <3> HIDE DEF b
    <3>3. QED
      BY <1>4, <3>2
  <2>4. QED
    BY <2>1, <2>2, <2>3
<1>6. ASSUME NEW s \in Stacks, TakeStack(t, s), a.pc = "create" PROVE QuietInv'
  <2> DEFINE b == [a EXCEPT !.pc = "set", !.stk = s]
  <2>1. b \in Act /\ SetTop(t, b) /\ b.pc = "set" /\ b.stk = s /\ used' = used \cup {s}
    BY <1>2, <1>6 DEF Act, Pcs, TakeStack
  <2>2. s # NoStack
    BY HubAssumption
  <2> HIDE DEF b
  <2>3. QED
    BY <1>3, <1>4, <1>6, <2>1, <2>2
<1>7. CASE TrySlot(t)
  <2>1. CASE Top(t).scan \notin used
    BY <1>6, <1>7, <2>1 DEF TrySlot, SlotIsFree, Stacks, At
  <2>2. CASE Top(t).scan \in used
    <3> DEFINE b == [a EXCEPT !.scan = a.scan + 1]
    <3>1. a.pc = "create" /\ a.scan + 1 \in 1 .. NSlots + 1
      BY <1>7, HubAssumption DEF TrySlot, At, Slots
    <3>2. b \in Act /\ SetTop(t, b) /\ b.pc = "create" /\ used' = used
      BY <1>2, <1>7, <2>2, <3>1 DEF Act, TrySlot, SlotIsFree
    <3> HIDE DEF b
    <3>3. QED
      BY <1>3, <1>4, <3>1, <3>2
  <2>3. QED
    BY <2>1, <2>2
<1>8. CASE MapStack(t)
  <2>1. ASSUME NEW m \in Maps \ used, TakeStack(t, m) PROVE QuietInv'
    BY <1>6, <1>8, <2>1 DEF MapStack, Stacks, At
  <2>2. ASSUME ToOriginal(t, "nostack"), UNCHANGED <<used, frames>> PROVE QuietInv'
    BY <1>1, <2>2, QuietToOriginal
  <2>3. QED
    BY <1>8, <2>1, <2>2 DEF MapStack
<1>9. CASE FindFirst(t)
  <2>1. a.hub \in Hubs /\ used' = used /\ a.pc = "find"
    BY <1>2, <1>9 DEF FindFirst, Act, At
  <2>2. ASSUME NEW via \in {"chain", "full"}, ToOriginal(t, via) PROVE QuietInv'
    BY <1>1, <2>1, <2>2, QuietToOriginal
  <2>3. ASSUME a.rest # <<>>, SetTop(t, [a EXCEPT !.rest = Tail(@)]) PROVE QuietInv'
    <3> DEFINE b == [a EXCEPT !.rest = Tail(a.rest)]
    <3>1. Tail(a.rest) \in Seq(Proxies)
      BY <1>2, <2>3 DEF Act
    <3>2. b \in Act /\ SetTop(t, b) /\ b.pc = "find"
      BY <1>2, <2>1, <2>3, <3>1 DEF Act
    <3> HIDE DEF b
    <3>3. QED
      BY <1>4, <2>1, <3>2
  <2>4. ASSUME a.rest # <<>>, SetTop(t, [a EXCEPT !.pc = "write", !.func = Head(a.rest)])
        PROVE  QuietInv'
    <3> DEFINE b == [a EXCEPT !.pc = "write", !.func = Head(a.rest)]
    <3>1. Head(a.rest) \in Proxies
      BY <1>2, <2>4 DEF Act
    <3>2. b \in Act /\ SetTop(t, b) /\ b.pc = "write"
      BY <1>2, <2>4, <3>1 DEF Act, Pcs
    <3> HIDE DEF b
    <3>3. QED
      BY <1>4, <2>1, <3>2
  <2>5. QED
    BY <1>9, <2>2, <2>3, <2>4 DEF FindFirst
<1>10. CASE WriteFrame(t)
  <2> DEFINE b == [a EXCEPT !.pc = "proxy", !.owns = TRUE, !.rest = <<>>, !.visited = {a.func}]
  <2>1. a.func \in Proxies /\ used' = used
    <3>1. PICK m \in 0 .. Len(list[a.hub]) : m < Len(list[a.hub]) /\ a.func = list[a.hub][m + 1]
      BY <1>2, <1>10 DEF WriteFrame, At, SearchPhase, Searches
    <3>2. list[a.hub] \in Seq(Proxies)
      BY <1>2 DEF Act, IInv, Types
    <3>3. QED
      BY <1>10, <3>1, <3>2 DEF WriteFrame
  <2>2. {a.func} \in SUBSET Proxies /\ <<>> \in Seq(Proxies) /\ TRUE \in BOOLEAN
    BY <2>1
  <2>3. b \in Act /\ SetTop(t, b) /\ b.pc = "proxy"
    BY <1>2, <1>10, <2>2 DEF Act, Pcs, WriteFrame
  <2> HIDE DEF b
  <2>4. QED
    BY <1>4, <2>1, <2>3
<1>11. CASE GetPrevStart(t)
  <2> DEFINE l == CurrentFrame(t).proxies
             b == [a EXCEPT !.pc = "prev", !.rest = After(a.func, l)]
  <2>1. a.pc \in Running /\ used' = used
    BY <1>11 DEF GetPrevStart, At, Running
  <2>2. l \in Seq(Proxies) /\ IsInjectiveSeq(l) /\ InChain(a, l)
    BY <1>1, <2>1, RunningFacts
  <2> HIDE DEF l
  <2>3. PICK k \in 1 .. Len(l) : l[k] = a.func
    BY <2>2 DEF InChain
  <2>4. After(a.func, l) \in Seq(Proxies)
    <3>1. After(l[k], l) = SubSeq(l, k + 1, Len(l)) /\ k \in 0 .. Len(l)
      BY <2>2, AfterIsSuffix
    <3>2. SubSeq(l, k + 1, Len(l)) \in Seq(Proxies)
      BY <2>2, <3>1, SuffixFacts
    <3>3. QED
      BY <2>3, <3>1, <3>2
  <2>5. b \in Act /\ b.pc = "prev"
    BY <1>2, <2>4 DEF Act, Pcs
  <2>6. SetTop(t, b)
    BY <1>11 DEF GetPrevStart, l
  <2> HIDE DEF b
  <2>7. QED
    BY <1>4, <2>1, <2>5, <2>6
<1>12. QED
  BY <1>5, <1>7, <1>8, <1>9, <1>10, <1>11

(* A call is taken for recursive: the frame that says so is one of a proxy *)
(* of the same function that the thread is inside of.                      *)
LEMMA QuietCheck ==
  ASSUME IInv, QuietInv, NEW t \in Threads, StepInv(t), CheckRecursion(t) PROVE QuietInv'
<1> DEFINE a  == Top(t)
           n  == Len(act[t])
           fr == frames[tls[t]]
<1>1. act[t] # <<>> /\ a.pc = "check" /\ UNCHANGED <<used, frames, tls, exiting>>
  BY DEF CheckRecursion, At
<1>2. a \in Act /\ StackPhase(a, tls[t]) /\ RaPhase(a) /\ a = act[t][n] /\ n \in Nat \ {0}
      /\ act[t] \in Seq(Act)
  BY <1>1, TopFacts
<1>3. a.stk = tls[t] /\ tls[t] # NoStack
  BY <1>1, <1>2 DEF StackPhase, Pushing
<1>4. fr \in Seq(Frame \cup {Unwritten}) /\ InFrames(act[t], fr)
  BY <1>1, <1>3, TopFacts
<1>5. PICK verdict \in [1 .. Len(fr) -> BOOLEAN] :
        /\ \A i \in DOMAIN verdict : verdict[i] \in Forbids(fr[i], a.hub)
        /\ IF \E i \in DOMAIN verdict : verdict[i]
           THEN ToOriginal(t, "recursive")
           ELSE SetTop(t, [a EXCEPT !.pc = "find", !.rest = list[a.hub]])
  BY <1>3 DEF CheckRecursion
<1>6. CASE \E i \in DOMAIN verdict : verdict[i]
  <2>1. PICK i \in 1 .. Len(fr) : verdict[i] /\ verdict[i] \in Forbids(fr[i], a.hub)
    BY <1>5, <1>6
  <2>2. ASSUME t \notin exiting
        PROVE  \E j \in 1 .. n - 1 : act[t][j].owns /\ act[t][j].hub = a.hub
    <3>1. Base(act[t], fr) = 0
      BY <1>3, <2>2 DEF IInv, NothingLeftBelow
    <3>2. Depth(act[t], n) \in Nat
      BY <1>2, DepthIsFinite
    <3>3. i \in 1 .. Depth(act[t], n)
      BY <1>4, <3>1, <3>2 DEF Base
    <3>4. PICK j \in 1 .. n : Pushed(act[t][j]) /\ Depth(act[t], j) = i
      BY <1>2, <3>3, DepthHasOwner
    <3>5. ~ Pushed(a)
      BY <1>1, <1>2 DEF Pushed, RaPhase, Running
    <3>6. j \in 1 .. n - 1
      <4>1. j # n
        BY <1>2, <3>4, <3>5
      <4>2. QED
        BY <1>2, <4>1
    <3>7. act[t][j].pc \in {"proxy", "orig"}
      BY <3>6 DEF QuietInv, QuietThread
    <3>8. act[t][j].owns /\ act[t][j].pc \in Running
      <4>1. RaPhase(act[t][j])
        BY DEF IInv, ThreadsInv, ThreadInv
      <4>2. QED
        BY <3>4, <3>7, <4>1 DEF Pushed, RaPhase, Running
    <3>9. Framed(act[t][j], fr, 0 + i)
      BY <1>4, <3>1, <3>4 DEF InFrames
    <3>10. fr[i] \in Frame /\ fr[i].hub = act[t][j].hub
      BY <3>8, <3>9 DEF Framed
    <3>11. fr[i].hub = a.hub
      BY <2>1, <3>10, FramesAreWritten DEF Forbids
    <3>12. QED
      BY <3>6, <3>8, <3>10, <3>11
  <2>3. ToOriginal(t, "recursive")
    BY <1>5, <1>6
  <2>4. QED
    BY <1>1, <2>2, <2>3, QuietToOriginal
<1>7. CASE ~ \E i \in DOMAIN verdict : verdict[i]
  <2> DEFINE b == [a EXCEPT !.pc = "find", !.rest = list[a.hub]]
  <2>1. list[a.hub] \in Seq(Proxies)
    BY <1>2 DEF Act, IInv, Types
  <2>2. b \in Act /\ SetTop(t, b) /\ b.pc = "find"
    BY <1>2, <1>5, <1>7, <2>1 DEF Act, Pcs
  <2> HIDE DEF b
  <2>3. QED
    BY <1>1, <2>2, QuietTopStep
<1>8. QED
  BY <1>6, <1>7

(* The TLS had no value before it is set.                                  *)
LEMMA QuietSetTls ==
  ASSUME IInv, QuietInv, NEW t \in Threads, StepInv(t), SetTls(t) PROVE QuietInv'
<1> DEFINE a == Top(t)
           b == [a EXCEPT !.pc = "check"]
           n == Len(act[t])
<1>1. act[t] # <<>> /\ a.pc = "set" /\ tls' = [tls EXCEPT ![t] = a.stk]
      /\ UNCHANGED <<list, enabled, used, frames, reserved, exiting>>
  BY DEF SetTls, At
<1>2. a \in Act /\ n \in Nat \ {0} /\ a = act[t][n]
  BY <1>1, TopFacts
<1>3. b \in Act /\ SetTop(t, b) /\ b.pc = "check" /\ b.stk = a.stk
  BY <1>2 DEF Act, Pcs, SetTls, Goto
<1> HIDE DEF b
<1>4. Replaces(act[t], act'[t], n, b) /\ Len(act'[t]) = n
  BY <1>1, <1>3, SetTopEffect DEF IInv
<1>5. QuietThread(act[t], tls[t], t \in exiting)
  BY DEF QuietInv
<1>6. tls[t] = NoStack /\ tls'[t] = a.stk
  <2>1. n \in 1 .. n /\ act[t][n].pc = "set"
    BY <1>1, <1>2
  <2>2. QED
    BY <1>1, <1>5, <2>1 DEF QuietThread, IInv, Types
<1>7. QuietThread(act'[t], tls'[t], t \in exiting')
  <2>1. b.pc \notin {"create", "set"} /\ b.pc # "orig"
    BY <1>3
  <2> HIDE DEF n
  <2>2. QuietThread(act'[t], tls'[t], t \in exiting)
    BY <1>4, <1>5, <2>1, QuietReplaced
  <2>3. QED
    BY <1>1, <2>2
<1>8. Keeps(t)
  <2>1. \A s : s # NoStack /\ (s = a.stk \/ \E i \in 1 .. n : act'[t][i].stk = s)
                 => s \in StacksOf(t)'
    BY <1>4, <1>6 DEF StacksOf
  <2>2. \A s : s \in StacksOf(t) <=> s # NoStack /\ \E i \in 1 .. n : act[t][i].stk = s
    BY <1>6, KnowsStacks DEF IInv
  <2>3. ASSUME NEW s, s \in StacksOf(t) PROVE s \in StacksOf(t)'
    <3>1. PICK i \in 1 .. n : act[t][i].stk = s
      BY <2>2, <2>3
    <3>2. CASE i = n
      BY <1>2, <2>1, <2>2, <2>3, <3>1, <3>2
    <3>3. CASE i # n
      <4>1. i \in 1 .. n - 1
        BY <1>2, <3>3
      <4>2. act'[t][i].stk = s
        BY <1>4, <3>1, <4>1 DEF Replaces
      <4>3. QED
        BY <2>1, <2>2, <2>3, <3>1, <4>2
    <3>4. QED
      BY <3>2, <3>3
  <2>4. QED
    BY <1>1, <2>3 DEF Keeps
<1>9. QED
  BY <1>7, <1>8, QuietSuffices

(* The activations that a thread adds or ends have no stack of their own.  *)
LEMMA QuietKeeps ==
  ASSUME IInv, NEW t \in Threads, used' = used, tls' = tls,
         \A i \in 1 .. Len(act[t]) :
           \/ act[t][i].stk \in {NoStack, tls[t]}
           \/ \E j \in 1 .. Len(act'[t]) : act'[t][j].stk = act[t][i].stk
  PROVE  Keeps(t)
<1>1. \A s : s # NoStack /\ (s = tls[t] \/ \E i \in 1 .. Len(act'[t]) : act'[t][i].stk = s)
               => s \in StacksOf(t)'
  BY DEF StacksOf
<1>2. \A s : s \in StacksOf(t) <=>
               s # NoStack /\ (s = tls[t] \/ \E i \in 1 .. Len(act[t]) : act[t][i].stk = s)
  BY KnowsStacks DEF IInv
<1>3. \A s : s \in StacksOf(t) => s \in StacksOf(t)'
  BY <1>1, <1>2
<1>4. QED
  BY <1>3 DEF Keeps

LEMMA QuietCall ==
  ASSUME ~ Interrupts, IInv, QuietInv, NEW t \in Threads, StepInv(t),
         NEW h \in Hubs, NEW ra \in CallSites, Call(t, h, ra)
  PROVE  QuietInv'
<1> DEFINE n == Len(act[t])
           b == [hub |-> h, ra |-> ra, pc |-> "enter", func |-> NoFunc, rest |-> <<>>,
                 scan |-> 1, stk |-> NoStack, owns |-> FALSE, via |-> "chain",
                 stable |-> enabled[h], visited |-> {}]
<1>1. act' = [act EXCEPT ![t] = Append(act[t], b)] /\ (act[t] = <<>> \/ At(t, "proxy") \/ At(t, "orig"))
      /\ UNCHANGED <<list, enabled, used, frames, tls, reserved, exiting>>
  BY DEF Call
<1>2. act[t] \in Seq(Act) /\ n \in Nat /\ Append(act[t], b) \in Seq(Act)
  <2>1. act[t] \in Seq(Act) /\ n \in Nat
    BY DEF IInv, Types
  <2>2. b \in Act
    <3>1. 1 \in 1 .. NSlots + 1 /\ <<>> \in Seq(Proxies) /\ {} \in SUBSET Proxies
          /\ enabled[h] \in SUBSET Proxies
      BY HubAssumption DEF IInv, Types
    <3>2. QED
      BY <3>1 DEF Act, Pcs
  <2> HIDE DEF b
  <2>3. QED
    BY <2>1, <2>2
<1>3. b.pc = "enter" /\ b.via = "chain"
  OBVIOUS
<1> HIDE DEF b
<1>4. Extends(act[t], act'[t], n, b)
  <2>1. act'[t] = Append(act[t], b)
    BY <1>1 DEF IInv, Types
  <2>2. QED
    BY <1>2, <2>1 DEF Extends
<1>5. QuietThread(act[t], tls[t], t \in exiting)
  BY DEF QuietInv
<1>6. n > 0 => act[t][n].pc \in {"proxy", "orig"}
  BY <1>1, <1>2 DEF At, Top
<1>7. QuietThread(act'[t], tls'[t], t \in exiting')
  <2>1. b.pc \notin {"create", "set"}
    BY <1>3
  <2> HIDE DEF n
  <2>2. QuietThread(act'[t], tls[t], t \in exiting)
    BY <1>3, <1>4, <1>5, <1>6, <2>1, QuietExtended
  <2>3. QED
    BY <1>1, <2>2
<1>8. Keeps(t)
  <2>1. \A i \in 1 .. n : i \in 1 .. Len(act'[t]) /\ act'[t][i] = act[t][i]
    BY <1>2, <1>4 DEF Extends
  <2>2. QED
    BY <1>1, <2>1, QuietKeeps
<1>9. QED
  BY <1>7, <1>8, QuietSuffices

LEMMA QuietGetPrevNext ==
  ASSUME IInv, QuietInv, NEW t \in Threads, StepInv(t), GetPrevNext(t) PROVE QuietInv'
<1> DEFINE a  == Top(t)
           n  == Len(act[t])
           a2 == [a EXCEPT !.pc = "proxy", !.rest = <<>>]
           callee == [a EXCEPT !.ra = a.func, !.owns = FALSE, !.rest = <<>>, !.via = "chain"]
           mid == [act[t] EXCEPT ![n] = a2]
<1>1. act[t] # <<>> /\ a.pc = "prev"
      /\ UNCHANGED <<list, enabled, used, frames, tls, reserved, exiting>>
  BY DEF GetPrevNext, At
<1>2. /\ a \in Act /\ n \in Nat \ {0} /\ act[t] \in Seq(Act) /\ a = act[t][n] /\ a.rest \in Seq(Proxies)
  BY <1>1, TopFacts DEF Act
<1>3. QuietThread(act[t], tls[t], t \in exiting)
  BY DEF QuietInv
<1>4. ASSUME a.rest # <<>>, SetTop(t, [a EXCEPT !.rest = Tail(@)]) PROVE QuietInv'
  <2> DEFINE b == [a EXCEPT !.rest = Tail(a.rest)]
  <2>1. Tail(a.rest) \in Seq(Proxies)
    BY <1>2, <1>4
  <2>2. b \in Act /\ SetTop(t, b) /\ b.pc = "prev"
    BY <1>1, <1>2, <1>4, <2>1 DEF Act
  <2> HIDE DEF b
  <2>3. QED
    BY <1>1, <2>2, QuietTopStep
<1>5. a2 \in Act /\ a2.pc = "proxy" /\ a2.stk = a.stk
  <2>1. <<>> \in Seq(Proxies)
    OBVIOUS
  <2>2. QED
    BY <1>2, <2>1 DEF Act, Pcs
<1> HIDE DEF a2
<1>6. mid \in Seq(Act) /\ Len(mid) = n /\ mid[n] = a2 /\ \A i \in 1 .. n - 1 : mid[i] = act[t][i]
  BY <1>2, <1>5
<1>7. Replaces(act[t], mid, n, a2)
  BY <1>2, <1>6 DEF Replaces
<1> HIDE DEF mid
<1>8. QuietThread(mid, tls[t], t \in exiting)
  <2>1. a2.pc \notin {"create", "set"} /\ a2.pc # "orig"
    BY <1>5
  <2> HIDE DEF n
  <2>2. QED
    BY <1>3, <1>7, <2>1, QuietReplaced
<1>9. ASSUME NEW b, b \in Act, b.pc \in {"proxy", "orig"}, b.via = "chain",
             act' = [act EXCEPT ![t] = Under(t) \o <<a2, b>>]
      PROVE  QuietInv'
  <2> DEFINE c2 == Under(t) \o <<a2, b>>
  <2>1. Under(t) \in Seq(Act) /\ Len(Under(t)) = n - 1
        /\ \A i \in 1 .. n - 1 : Under(t)[i] = act[t][i]
    BY <1>2 DEF Under
  <2>2. /\ c2 \in Seq(Act) /\ Len(c2) = n + 1 /\ c2[n] = a2 /\ c2[n + 1] = b
        /\ \A i \in 1 .. n - 1 : c2[i] = act[t][i]
    <3>1. a2 \in Act /\ b \in Act /\ n - 1 + 1 = n /\ n - 1 + 2 = n + 1
      BY <1>2, <1>5, <1>9
    <3>2. c2 \in Seq(Act) /\ Len(c2) = n + 1 /\ c2[n] = a2 /\ c2[n + 1] = b
      BY <2>1, <3>1, ConcatPair
    <3>3. \A i \in 1 .. n - 1 : c2[i] = Under(t)[i]
      BY <2>1, <3>1, ConcatPair
    <3>4. QED
      BY <2>1, <3>2, <3>3
  <2>3. act'[t] = c2
    BY <1>9 DEF IInv, Types
  <2> HIDE DEF c2
  <2>4. \A i \in 1 .. n : c2[i] = mid[i]
    <3> SUFFICES ASSUME NEW i \in 1 .. n PROVE c2[i] = mid[i]
      OBVIOUS
    <3>1. CASE i = n
      BY <1>6, <2>2, <3>1
    <3>2. CASE i # n
      <4>1. i \in 1 .. n - 1
        BY <1>2, <3>2
      <4>2. QED
        BY <1>6, <2>2, <4>1
    <3>3. QED
      BY <3>1, <3>2
  <2>5. Extends(mid, act'[t], n, b)
    BY <1>2, <1>6, <2>2, <2>3, <2>4 DEF Extends
  <2>6. QuietThread(act'[t], tls'[t], t \in exiting')
    <3>1. mid[n].pc \in {"proxy", "orig"} /\ b.pc \notin {"create", "set"}
      BY <1>5, <1>6, <1>9
    <3> HIDE DEF n
    <3>2. QuietThread(act'[t], tls[t], t \in exiting)
      BY <1>8, <1>9, <2>5, <3>1, QuietExtended
    <3>3. QED
      BY <1>1, <3>2
  <2>7. \A i \in 1 .. n : i \in 1 .. Len(act'[t]) /\ act'[t][i].stk = act[t][i].stk
    <3> SUFFICES ASSUME NEW i \in 1 .. n
                 PROVE  i \in 1 .. Len(act'[t]) /\ act'[t][i].stk = act[t][i].stk
      OBVIOUS
    <3>1. CASE i = n
      BY <1>2, <1>5, <2>2, <2>3, <3>1
    <3>2. CASE i # n
      <4>1. i \in 1 .. n - 1
        BY <1>2, <3>2
      <4>2. QED
        BY <2>2, <2>3, <4>1
    <3>3. QED
      BY <3>1, <3>2
  <2>8. Keeps(t)
    BY <1>1, <2>7, QuietKeeps
  <2>9. QED
    BY <2>6, <2>8, QuietSuffices
<1>10. a.func \in Proxies
  <2>1. Len(act[t]) \in 1 .. Len(act[t]) /\ act[t][Len(act[t])].pc \in Running
        /\ ThreadInv(act[t], tls[t], frames, list, enabled)
    BY <1>1, <1>2 DEF Running, IInv, ThreadsInv
  <2>2. QED
    BY <1>2, <2>1, RunningAreProxies
<1>11. <<>> \in Seq(Proxies) /\ FALSE \in BOOLEAN /\ a.func \in CallSites \cup Proxies
  BY <1>10
<1>12. CASE a.rest = <<>>
  <2> DEFINE b == [callee EXCEPT !.pc = "orig", !.func = NoFunc]
  <2>1. act' = [act EXCEPT ![t] = Under(t) \o <<a2, b>>]
    BY <1>12 DEF GetPrevNext, a2
  <2>2. b \in Act /\ b.pc = "orig" /\ b.via = "chain"
    BY <1>2, <1>11 DEF Act, Pcs
  <2> HIDE DEF b
  <2>3. QED
    BY <1>9, <2>1, <2>2
<1>13. CASE a.rest # <<>> /\ Head(a.rest) \in enabled[CurrentFrame(t).hub]
  <2> DEFINE b == [callee EXCEPT !.pc = "proxy", !.func = Head(a.rest),
                                 !.visited = a.visited \cup {Head(a.rest)}]
  <2>1. act' = [act EXCEPT ![t] = Under(t) \o <<a2, b>>]
    <3>1. callee.visited = a.visited
      BY <1>2 DEF Act
    <3>2. QED
      BY <1>13, <3>1 DEF GetPrevNext, a2
  <2>2. Head(a.rest) \in Proxies /\ a.visited \cup {Head(a.rest)} \in SUBSET Proxies
    BY <1>2, <1>13 DEF Act
  <2>3. b \in Act /\ b.pc = "proxy" /\ b.via = "chain"
    BY <1>2, <1>11, <2>2 DEF Act, Pcs
  <2> HIDE DEF b
  <2>4. QED
    BY <1>9, <2>1, <2>3
<1>14. CASE a.rest # <<>> /\ Head(a.rest) \notin enabled[CurrentFrame(t).hub]
  BY <1>4, <1>14 DEF GetPrevNext
<1>15. QED
  BY <1>12, <1>13, <1>14

LEMMA QuietSetReentrant ==
  ASSUME IInv, QuietInv, NEW t \in Threads, StepInv(t), NEW allow \in BOOLEAN, SetReentrant(t, allow)
  PROVE  QuietInv'
<1>1. act' = act /\ tls' = tls /\ exiting' = exiting /\ used' = used
  BY DEF SetReentrant
<1>2. QuietThread(act'[t], tls'[t], t \in exiting')
  BY <1>1 DEF QuietInv
<1>3. Keeps(t)
  BY <1>1, QuietKeeps
<1>4. QED
  BY <1>2, <1>3, QuietSuffices

LEMMA QuietReturn ==
  ASSUME IInv, QuietInv, NEW t \in Threads, StepInv(t), PopAndReturn(t) \/ ReturnFromOriginal(t)
  PROVE  QuietInv'
<1> DEFINE n == Len(act[t])
<1>1. /\ act[t] # <<>> /\ Top(t).pc \in {"proxy", "orig"} /\ act' = [act EXCEPT ![t] = Under(t)]
      /\ UNCHANGED <<used, tls, exiting>>
  BY DEF PopAndReturn, ReturnFromOriginal, At
<1>2. n \in Nat \ {0} /\ Top(t) = act[t][n] /\ act[t] \in Seq(Act) /\ StackPhase(Top(t), tls[t])
  BY <1>1, TopFacts
<1>3. Drops(act[t], Under(t), n) /\ act'[t] = Under(t)
  <2>1. Drops(act[t], Under(t), n)
    BY <1>2 DEF Under, Drops
  <2>2. act'[t] = Under(t)
    BY <1>1 DEF IInv, Types
  <2>3. QED
    BY <2>1, <2>2
<1>4. QuietThread(act'[t], tls'[t], t \in exiting')
  <2>1. QuietThread(act[t], tls[t], t \in exiting)
    BY DEF QuietInv
  <2> HIDE DEF n
  <2>2. QuietThread(Under(t), tls[t], t \in exiting)
    BY <1>3, <2>1, QuietDropped
  <2>3. QED
    BY <1>1, <1>3, <2>2
<1>5. Keeps(t)
  <2>1. ASSUME NEW i \in 1 .. n
        PROVE  \/ act[t][i].stk \in {NoStack, tls[t]}
               \/ \E j \in 1 .. Len(act'[t]) : act'[t][j].stk = act[t][i].stk
    <3>1. CASE i = n
      BY <1>1, <1>2, <3>1 DEF StackPhase
    <3>2. CASE i # n
      <4>1. i \in 1 .. n - 1
        BY <1>2, <3>2
      <4>2. i \in 1 .. Len(act'[t]) /\ act'[t][i] = act[t][i]
        BY <1>3, <4>1 DEF Drops
      <4>3. QED
        BY <4>2
    <3>3. QED
      BY <3>1, <3>2
  <2>2. QED
    BY <1>1, <2>1, QuietKeeps
<1>6. QED
  BY <1>4, <1>5, QuietSuffices

LEMMA QuietNothing == ASSUME NEW own, NEW ends PROVE QuietThread(<<>>, own, ends)
<1>1. Len(<<>>) = 0 /\ 1 .. 0 = {} /\ 1 .. 0 - 1 = {}
  OBVIOUS
<1>2. QED
  BY <1>1 DEF QuietThread

LEMMA QuietThreadExit ==
  ASSUME IInv, QuietInv, NEW t \in Threads, StepInv(t), ThreadExit(t) PROVE QuietInv'
<1> DEFINE n == Len(act[t])
<1>1. /\ act[t] = <<>> \/ At(t, "proxy") \/ At(t, "orig")
      /\ act' = [act EXCEPT ![t] = <<>>] /\ UNCHANGED <<used, tls>>
  BY DEF ThreadExit
<1>2. act[t] \in Seq(Act) /\ n \in Nat /\ act'[t] = <<>>
      /\ ThreadInv(act[t], tls[t], frames, list, enabled)
  BY <1>1 DEF IInv, Types, ThreadsInv
<1>3. QuietThread(act'[t], tls'[t], t \in exiting')
  BY <1>2, QuietNothing
<1>4. ASSUME NEW i \in 1 .. n PROVE act[t][i].stk \in {NoStack, tls[t]}
  <2>1. act[t][i].pc \in {"proxy", "orig"}
    <3>1. CASE i = n
      BY <1>1, <1>2, <3>1 DEF At, Top
    <3>2. CASE i # n
      <4>1. i \in 1 .. n - 1
        BY <1>2, <3>2
      <4>2. QED
        BY <4>1 DEF QuietInv, QuietThread
    <3>3. QED
      BY <3>1, <3>2
  <2>2. StackPhase(act[t][i], tls[t])
    BY <1>2 DEF ThreadInv
  <2>3. QED
    BY <2>1, <2>2 DEF StackPhase
<1>5. Keeps(t)
  BY <1>1, <1>4, QuietKeeps
<1>6. QED
  BY <1>3, <1>5, QuietSuffices

LEMMA QuietStackDestroy ==
  ASSUME IInv, QuietInv, NEW t \in Threads, StepInv(t), StackDestroy(t) PROVE QuietInv'
<1>1. /\ act[t] = <<>> /\ used' = used \ {tls[t]} /\ act' = act
      /\ tls' = [tls EXCEPT ![t] = NoStack]
  BY DEF StackDestroy
<1>2. QuietThread(act'[t], tls'[t], t \in exiting')
  BY <1>1, QuietNothing
<1>3. StacksOf(t) \subseteq {tls[t]}
  BY <1>1 DEF StacksOf
<1>4. Keeps(t)
  BY <1>1, <1>3 DEF Keeps
<1>5. QED
  BY <1>2, <1>4, QuietSuffices

LEMMA QuietThreadEnd ==
  ASSUME IInv, QuietInv, NEW t \in Threads, StepInv(t), ThreadEnd(t) PROVE QuietInv'
<1>1. act[t] = <<>> /\ act' = act /\ tls' = tls /\ used' = used
  BY DEF ThreadEnd
<1>2. QuietThread(act'[t], tls'[t], t \in exiting')
  BY <1>1, QuietNothing
<1>3. Keeps(t)
  BY <1>1, QuietKeeps
<1>4. QED
  BY <1>2, <1>3, QuietSuffices

(* unhooking changes no more than the history variables.                   *)
LEMMA QuietLists ==
  ASSUME IInv, QuietInv, NEW p \in Proxies, AddProxy(Target[p], p) \/ DelProxy(Target[p], p)
  PROVE  QuietInv'
<1> DEFINE h == Target[p]
           Less(a) == IF a.hub = h THEN [a EXCEPT !.stable = @ \ {p}] ELSE a
<1>1. tls' = tls /\ exiting' = exiting /\ used' = used
  BY DEF AddProxy, DelProxy
<1>2. act' = act \/ act' = [t \in Threads |-> [i \in 1 .. Len(act[t]) |-> Less(act[t][i])]]
  BY DEF AddProxy, DelProxy, NoLongerStable
<1>3. ASSUME NEW a \in Act
      PROVE  /\ Less(a).pc = a.pc /\ Less(a).via = a.via /\ Less(a).hub = a.hub
             /\ Less(a).stk = a.stk /\ Less(a).owns = a.owns
  BY <1>3 DEF Act
<1> HIDE DEF Less
<1>4. ASSUME NEW t \in Threads
      PROVE  /\ Len(act'[t]) = Len(act[t]) /\ Len(act[t]) \in Nat
             /\ \A i \in 1 .. Len(act[t]) :
                  /\ act'[t][i].pc = act[t][i].pc /\ act'[t][i].via = act[t][i].via
                  /\ act'[t][i].hub = act[t][i].hub /\ act'[t][i].stk = act[t][i].stk
                  /\ act'[t][i].owns = act[t][i].owns
  <2>1. act[t] \in Seq(Act) /\ Len(act[t]) \in Nat /\ \A i \in 1 .. Len(act[t]) : act[t][i] \in Act
    BY DEF IInv, Types
  <2>2. CASE act' = act
    BY <2>1, <2>2
  <2>3. CASE act' = [u \in Threads |-> [i \in 1 .. Len(act[u]) |-> Less(act[u][i])]]
    <3>1. act'[t] = [i \in 1 .. Len(act[t]) |-> Less(act[t][i])]
      BY <2>3
    <3>2. Len(act'[t]) = Len(act[t]) /\ \A i \in 1 .. Len(act[t]) : act'[t][i] = Less(act[t][i])
      BY <2>1, <3>1
    <3>3. QED
      BY <1>3, <2>1, <3>2
  <2>4. QED
    BY <1>2, <2>2, <2>3
<1>5. ASSUME NEW t \in Threads PROVE QuietThread(act'[t], tls'[t], t \in exiting')
  <2> DEFINE c  == act[t]
             c2 == act'[t]
  <2>1. QuietThread(c, tls[t], t \in exiting)
    BY DEF QuietInv
  <2>2. /\ Len(c2) = Len(c) /\ Len(c) \in Nat
        /\ \A i \in 1 .. Len(c) :
             /\ c2[i].pc = c[i].pc /\ c2[i].via = c[i].via
             /\ c2[i].hub = c[i].hub /\ c2[i].owns = c[i].owns
    BY <1>4
  <2> HIDE DEF c, c2
  <2>3. \A i \in 1 .. Len(c) - 1 : i \in 1 .. Len(c)
    BY <2>2
  <2>4. \A i \in 1 .. Len(c) : \A j \in 1 .. i - 1 : j \in 1 .. Len(c)
    BY <2>2
  <2>5. QuietThread(c2, tls[t], t \in exiting)
    <3>1. \A i \in 1 .. Len(c2) - 1 : c2[i].pc \in {"proxy", "orig"}
      BY <2>1, <2>2, <2>3 DEF QuietThread
    <3>2. \A i \in 1 .. Len(c2) : c2[i].pc \in {"create", "set"} => tls[t] = NoStack
      BY <2>1, <2>2 DEF QuietThread
    <3>3. ASSUME t \notin exiting, NEW i \in 1 .. Len(c2), c2[i].pc = "orig", c2[i].via = "recursive"
          PROVE  \E j \in 1 .. i - 1 : c2[j].owns /\ c2[j].hub = c2[i].hub
      <4>1. i \in 1 .. Len(c) /\ c[i].pc = "orig" /\ c[i].via = "recursive"
        BY <2>2, <3>3
      <4>2. PICK j \in 1 .. i - 1 : c[j].owns /\ c[j].hub = c[i].hub
        BY <2>1, <3>3, <4>1 DEF QuietThread
      <4>3. QED
        BY <2>2, <2>4, <4>1, <4>2
    <3>4. QED
      BY <3>1, <3>2, <3>3 DEF QuietThread
  <2>6. QED
    BY <1>1, <2>5 DEF c2
<1>6. NoStackLeaks'
  <2>1. ASSUME NEW t \in Threads PROVE StacksOf(t)' = StacksOf(t)
    <3>1. {act'[t][i].stk : i \in 1 .. Len(act'[t])} = {act[t][i].stk : i \in 1 .. Len(act[t])}
      BY <1>4
    <3>2. QED
      BY <1>1, <3>1 DEF StacksOf
  <2>2. NoStackLeaks
    BY DEF QuietInv
  <2>3. QED
    BY <1>1, <2>1, <2>2 DEF NoStackLeaks
<1>7. QED
  BY <1>5, <1>6 DEF QuietInv

LEMMA NextQuiet == ASSUME ~ Interrupts PROVE IInv /\ QuietInv /\ [Next]_vars => QuietInv'
<1> SUFFICES ASSUME IInv, QuietInv, [Next]_vars PROVE QuietInv'
  OBVIOUS
<1>1. ASSUME NEW t \in Threads, Step(t) PROVE QuietInv'
  <2>1. ASSUME NEW h \in Hubs, NEW ra \in CallSites, Call(t, h, ra) PROVE QuietInv'
    BY <2>1, CallStep, QuietCall
  <2>2. CASE ReadTls(t)
    BY <2>2, ReadTlsStep, QuietPush
  <2>3. CASE TrySlot(t)
    BY <2>3, TrySlotStep, QuietPush
  <2>4. CASE MapStack(t)
    BY <2>4, MapStackStep, QuietPush
  <2>5. CASE SetTls(t)
    BY <2>5, SetTlsStep, QuietSetTls
  <2>6. CASE CheckRecursion(t)
    BY <2>6, CheckRecursionStep, QuietCheck
  <2>7. CASE FindFirst(t)
    BY <2>7, FindFirstStep, QuietPush
  <2>8. CASE WriteFrame(t)
    BY <2>8, WriteFrameStep, QuietPush
  <2>9. CASE GetPrevStart(t)
    BY <2>9, GetPrevStartStep, QuietPush
  <2>10. CASE GetPrevNext(t)
    BY <2>10, GetPrevNextStep, QuietGetPrevNext
  <2>11. ASSUME NEW allow \in BOOLEAN, SetReentrant(t, allow) PROVE QuietInv'
    BY <2>11, SetReentrantStep, QuietSetReentrant
  <2>12. CASE PopAndReturn(t)
    BY <2>12, PopAndReturnStep, QuietReturn
  <2>13. CASE ReturnFromOriginal(t)
    BY <2>13, ReturnFromOriginalStep, QuietReturn
  <2>14. CASE ThreadExit(t)
    BY <2>14, ThreadExitStep, QuietThreadExit
  <2>15. CASE StackDestroy(t)
    BY <2>15, StackDestroyStep, QuietStackDestroy
  <2>16. CASE ThreadEnd(t)
    BY <2>16, ThreadEndStep, QuietThreadEnd
  <2>17. QED
    BY <1>1, <2>1, <2>2, <2>3, <2>4, <2>5, <2>6, <2>7, <2>8, <2>9, <2>10, <2>11, <2>12,
       <2>13, <2>14, <2>15, <2>16 DEF Step
<1>2. ASSUME NEW p \in Proxies, AddProxy(Target[p], p) \/ DelProxy(Target[p], p) PROVE QuietInv'
  BY <1>2, QuietLists
<1>3. CASE UNCHANGED vars
  <2>1. UNCHANGED <<used, tls, exiting, act>>
    BY <1>3 DEF vars
  <2>2. \A t \in Threads : StacksOf(t)' = StacksOf(t)
    BY <2>1 DEF StacksOf
  <2>3. QED
    BY <2>1, <2>2 DEF QuietInv, NoStackLeaks
<1>4. QED
  BY <1>1, <1>2, <1>3 DEF Next

(* Without signal handlers: the other part of the inductive invariant.     *)
THEOREM QuietInvariance == ASSUME ~ Interrupts PROVE Spec => [](IInv /\ QuietInv)
<1>1. Init => IInv /\ QuietInv
  <2> SUFFICES ASSUME Init PROVE QuietInv
    BY InitIInv
  <2>1. ASSUME NEW t \in Threads PROVE QuietThread(act[t], tls[t], t \in exiting)
    BY QuietNothing DEF Init
  <2>2. NoStackLeaks
    BY DEF Init, NoStackLeaks
  <2>3. QED
    BY <2>1, <2>2 DEF QuietInv
<1>2. (IInv /\ QuietInv) /\ [Next]_vars => (IInv /\ QuietInv)'
  BY NextIInv, NextQuiet
<1>3. QED
  BY <1>1, <1>2, PTL DEF Spec

(* A stack that is marked as taken is some thread's: without signal        *)
(* handlers that call hooked functions, none leaks.  (A handler that       *)
(* interrupts sh_hub_stack_create() before the TLS is set creates another  *)
(* stack, and the TLS forgets one of the two.)                             *)
THEOREM NoStacksLeak == ASSUME ~ Interrupts PROVE Spec => []NoStackLeaks
<1>1. IInv /\ QuietInv => NoStackLeaks
  BY DEF QuietInv
<1>2. QED
  BY <1>1, QuietInvariance, PTL

(* A call reaches the original through the chain only after every proxy    *)
(* that was enabled all along, and as a recursive one only from inside of  *)
(* a proxy of the same function.                                           *)
THEOREM ProxiesAreVisited == ASSUME ~ Interrupts PROVE Spec => []NoProxyIsSkipped
<1>1. IInv /\ QuietInv => NoProxyIsSkipped
  <2> SUFFICES ASSUME IInv, QuietInv, NEW t \in Threads \ exiting, NEW i \in 1 .. Len(act[t]),
                      act[t][i].pc = "orig"
               PROVE  /\ act[t][i].via = "chain" => act[t][i].stable \subseteq act[t][i].visited
                      /\ act[t][i].via = "recursive" =>
                           \E j \in 1 .. i - 1 : act[t][j].owns /\ act[t][j].hub = act[t][i].hub
    BY DEF NoProxyIsSkipped
  <2>1. SearchPhase(act[t][i], list, enabled)
    BY DEF IInv, ThreadsInv, ThreadInv
  <2>2. QuietThread(act[t], tls[t], t \in exiting)
    BY DEF QuietInv
  <2>3. QED
    BY <2>1, <2>2 DEF SearchPhase, QuietThread
<1>2. QED
  BY <1>1, QuietInvariance, PTL
===============================================================================
