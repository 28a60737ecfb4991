--------------------------- MODULE ShTrampoProofs ---------------------------
(* Proofs about the trampoline allocator, for any number of threads,       *)
(* runners, pages and slots, any delay and any clock resolution.           *)
EXTENDS ShTrampo, TLAPS

SlotsOf(ps) == UNION {Slots(ps[k]) : k \in 1 .. Len(ps)}

(* A slot somebody owns is flagged, and flagged slots lie in mapped pages. *)
OwnedAreFlagged ==
  /\ Live \subseteq used
  /\ \A t \in Threads : call[t].op = "free" => call[t].slot \in used
  /\ used \subseteq SlotsOf(pages)

(* What the stamps mean: an unflagged slot carries the second at which its *)
(* last free began, and the times sampled before the lock are not in the   *)
(* future.                                                                 *)
StampsAreFreeTimes ==
  /\ \A s \in AllSlots \ used : timestamps[s] = freedAt[s].sec
  /\ \A s \in AllSlots \ SlotsOf(pages) : freedAt[s] = [sec |-> 0, usec |-> 0]
  /\ \A t \in Threads : call[t].op = "alloc" => call[t].now <= clock.sec
  /\ \A t \in Threads : call[t].op = "free" => call[t].now = freedAt[call[t].slot].sec

(* A runner is inside a live slot, or inside one given up recently.        *)
RunnersAreRecent ==
  \A x \in Runners : running[x] # NoSlot =>
    /\ running[x] \in SlotsOf(pages)
    /\ running[x] \in Live \/ ~ LongAfter(clock, freedAt[running[x]])

IInv ==
  /\ TypeOK
  /\ ExclusiveSlots
  /\ OwnedAreFlagged
  /\ StampsAreFreeTimes
  /\ RunnersAreRecent

----------------------------------------------------------------------------
(* Mapping a page adds its slots to the slots of the list.                 *)
LEMMA SlotsOfCons ==
  ASSUME NEW p \in PageAddrs, NEW ps \in Seq(PageAddrs)
  PROVE  /\ <<p>> \o ps \in Seq(PageAddrs)
         /\ SlotsOf(<<p>> \o ps) = Slots(p) \cup SlotsOf(ps)
<1> DEFINE qs == <<p>> \o ps
<1>1. qs \in Seq(PageAddrs) /\ Len(qs) = Len(ps) + 1
  OBVIOUS
<1>2. qs[1] = p /\ \A k \in 1 .. Len(ps) : qs[k + 1] = ps[k]
  OBVIOUS
<1>3. \A k \in 1 .. Len(qs) : k = 1 \/ (k - 1 \in 1 .. Len(ps) /\ qs[k] = ps[k - 1])
  BY <1>1, <1>2
<1>4. SlotsOf(qs) \subseteq Slots(p) \cup SlotsOf(ps)
  BY <1>2, <1>3 DEF SlotsOf
<1>5. Slots(p) \cup SlotsOf(ps) \subseteq SlotsOf(qs)
  <2>1. 1 \in 1 .. Len(qs) /\ \A k \in 1 .. Len(ps) : k + 1 \in 1 .. Len(qs)
    BY <1>1
  <2>2. QED
    BY <1>2, <2>1 DEF SlotsOf
<1>6. QED
  BY <1>1, <1>4, <1>5

(* The slots of mapped pages are slots.                                    *)
LEMMA SlotsOfType ==
  ASSUME NEW ps \in Seq(PageAddrs)
  PROVE  SlotsOf(ps) \subseteq AllSlots
<1>1. \A k \in 1 .. Len(ps) : ps[k] \in PageAddrs
  OBVIOUS
<1>2. QED
  BY <1>1 DEF SlotsOf, AllSlots

(* A page that is not mapped shares no slot with the mapped ones.          *)
LEMMA NewPageIsDisjoint ==
  ASSUME NEW ps \in Seq(PageAddrs), NEW p \in PageAddrs,
         \A k \in 1 .. Len(ps) : ps[k] # p
  PROVE  Slots(p) \cap SlotsOf(ps) = {}
<1>1. \A k \in 1 .. Len(ps) : ps[k] \in PageAddrs
  OBVIOUS
<1>2. \A k \in 1 .. Len(ps) : Slots(p) \cap Slots(ps[k]) = {}
  BY <1>1, TrampoAssumption
<1>3. QED
  BY <1>2 DEF SlotsOf
----------------------------------------------------------------------------
(* The invariant holds at the start: no page, no slot, no call.            *)
LEMMA InitIInv == Init => IInv
<1> SUFFICES ASSUME Init PROVE IInv
  OBVIOUS
<1>1. TypeOK
  <2>1. pages \in Seq(PageAddrs)
    BY DEF Init
  <2>6. used \subseteq AllSlots /\ aborted \in BOOLEAN
    BY DEF Init
  <2>2. timestamps \in [AllSlots -> Nat] /\ clock \in Time /\ freedAt \in [AllSlots -> Time]
    BY TrampoAssumption DEF Init, Time
  <2>3. call \in [Threads -> {Idle}] /\ held \in [Threads -> SUBSET Holding]
    BY DEF Init
  <2>4. running \in [Runners -> AllSlots \cup {NoSlot}]
    BY DEF Init
  <2>5. QED
    BY <2>1, <2>2, <2>3, <2>4, <2>6 DEF TypeOK
<1>2. SlotsOf(pages) = {} /\ Live = {}
  BY DEF Init, SlotsOf, Live
<1>3. ExclusiveSlots /\ OwnedAreFlagged /\ StampsAreFreeTimes
  BY <1>2 DEF Init, ExclusiveSlots, OwnedAreFlagged, StampsAreFreeTimes, Idle
<1>4. RunnersAreRecent
  BY DEF Init, RunnersAreRecent
<1>5. QED
  BY <1>1, <1>3, <1>4 DEF IInv

(* The types are preserved by every step.                                  *)
LEMMA NextTypeOK == TypeOK /\ [Next]_vars => TypeOK'
<1> SUFFICES ASSUME TypeOK, [Next]_vars PROVE TypeOK'
  OBVIOUS
<1> USE DEF TypeOK
<1>0. ASSUME NEW p \in PageAddrs, NEW s \in Slots(p) PROVE s \in AllSlots
  BY DEF AllSlots
<1>g. ASSUME NEW t \in Threads, NEW s \in AllSlots, call[t].op = "alloc", Give(t, s)
      PROVE  /\ used' \subseteq AllSlots
             /\ held' \in [Threads -> SUBSET Holding]
             /\ call' \in [Threads -> {Idle}
                 \cup [op : {"alloc"}, now : Nat, req : Requests]
                 \cup [op : {"free"}, now : Nat, slot : AllSlots]]
  <2>1. call[t].req \in Requests
    BY <1>g DEF Idle
  <2>2. [slot |-> s, req |-> call[t].req] \in Holding
    BY <2>1, <1>g DEF Holding
  <2>3. QED
    BY <2>2, <1>g DEF Give
<1>1. ASSUME NEW t \in Threads, NEW r \in Requests, AllocStart(t, r) PROVE TypeOK'
  <2>1. [op |-> "alloc", now |-> clock.sec, req |-> r]
          \in [op : {"alloc"}, now : Nat, req : Requests]
    BY DEF Time
  <2>2. QED
    BY <1>1, <2>1 DEF AllocStart
<1>2. ASSUME NEW t \in Threads, AllocReuse(t) PROVE TypeOK'
  <2>1. PICK k \in 1 .. Len(pages) :
          \E s \in Candidates(pages[k], call[t].req, call[t].now) : Give(t, s)
    BY <1>2 DEF AllocReuse
  <2>2. pages[k] \in PageAddrs
    OBVIOUS
  <2>3. PICK s \in AllSlots : Give(t, s)
    BY <2>1, <2>2, <1>0 DEF Candidates
  <2>4. QED
    BY <2>3, <1>2, <1>g DEF AllocReuse
<1>3. ASSUME NEW t \in Threads, AllocMap(t) PROVE TypeOK'
  <2>1. PICK p \in PageAddrs \ Mapped :
          LET fits == {s \in Slots(p) : SlotInWindow(call[t].req, s)}
          IN /\ pages' = <<p>> \o pages
             /\ timestamps' = [s \in AllSlots |-> IF s \in Slots(p) THEN 0 ELSE timestamps[s]]
             /\ aborted' = (fits = {})
             /\ IF fits = {} THEN UNCHANGED <<used, held, call>>
                            ELSE \E s \in fits : Give(t, s)
    BY <1>3 DEF AllocMap
  <2>2. pages' \in Seq(PageAddrs)
    BY <2>1, SlotsOfCons
  <2>3. timestamps' \in [AllSlots -> Nat] /\ aborted' \in BOOLEAN
    BY <2>1
  <2>4. UNCHANGED <<used, held, call>> \/ \E s \in AllSlots : Give(t, s)
    BY <2>1, <1>0
  <2>5. call[t].op = "alloc" /\ UNCHANGED <<clock, freedAt, running>>
    BY <1>3 DEF AllocMap
  <2>6. QED
    BY <2>2, <2>3, <2>4, <2>5, <1>g
<1>4. ASSUME NEW t \in Threads, AllocFail(t) PROVE TypeOK'
  BY <1>4 DEF AllocFail
<1>5. ASSUME NEW t \in Threads, NEW u \in Threads, NEW h \in held[u], FreeStart(t, u, h)
      PROVE  TypeOK'
  <2>1. h.slot \in AllSlots /\ clock.sec \in Nat
    BY DEF Holding, Time
  <2>2. [op |-> "free", now |-> clock.sec, slot |-> h.slot]
          \in [op : {"free"}, now : Nat, slot : AllSlots]
    BY <2>1
  <2>3. QED
    BY <1>5, <2>1, <2>2 DEF FreeStart
<1>6. ASSUME NEW t \in Threads, FreeEnd(t) PROVE TypeOK'
  <2>1. call[t].now \in Nat /\ call[t].slot \in AllSlots
    BY <1>6 DEF FreeEnd, Idle
  <2>2. QED
    BY <1>6, <2>1 DEF FreeEnd
<1>7. ASSUME NEW x \in Runners, Enter(x) PROVE TypeOK'
  <2>1. PICK h \in Holding : running' = [running EXCEPT ![x] = h.slot]
    BY <1>7 DEF Enter
  <2>2. h.slot \in AllSlots
    BY DEF Holding
  <2>3. QED
    BY <1>7, <2>1, <2>2 DEF Enter
<1>8. ASSUME NEW x \in Runners, Leave(x) PROVE TypeOK'
  BY <1>8 DEF Leave
<1>9. CASE Tick
  <2>1. clock \in Time
    OBVIOUS
  <2>2. \/ clock' = [clock EXCEPT !.usec = @ + 1]
        \/ clock' = [sec |-> clock.sec + 1, usec |-> 0]
    BY <1>9 DEF Tick
  <2>3. clock' \in Time
    BY ONLY <2>1, <2>2 DEF Time
  <2>4. QED
    BY <1>9, <2>3 DEF Tick
<1>10. CASE UNCHANGED vars
  BY <1>10 DEF vars
<1>11. QED
  BY <1>1, <1>2, <1>3, <1>4, <1>5, <1>6, <1>7, <1>8, <1>9, <1>10 DEF Next, AllocatorStep

----------------------------------------------------------------------------
(* A slot taken by AllocReuse is unflagged, mapped and has cooled; a slot  *)
(* taken by AllocMap belongs to a page that was not mapped.                *)
LEMMA GivenByReuse ==
  ASSUME TypeOK, NEW t \in Threads, AllocReuse(t)
  PROVE  \E s \in SlotsOf(pages) \ used : Cooled(s, call[t].now) /\ Give(t, s)
<1>1. PICK k \in 1 .. Len(pages) :
        \E s \in Candidates(pages[k], call[t].req, call[t].now) : Give(t, s)
  BY DEF AllocReuse
<1>2. PICK s \in Slots(pages[k]) : s \notin used /\ Cooled(s, call[t].now) /\ Give(t, s)
  BY <1>1 DEF Candidates
<1>3. QED
  BY <1>2 DEF SlotsOf

(* A mapped page is disjoint from those before it, comes with cleared      *)
(* stamps, and gives away one of its own slots or none.                    *)
LEMMA GivenByMap ==
  ASSUME TypeOK, NEW t \in Threads, AllocMap(t)
  PROVE  \E p \in PageAddrs :
           /\ Slots(p) \cap SlotsOf(pages) = {}
           /\ SlotsOf(pages') = Slots(p) \cup SlotsOf(pages)
           /\ timestamps' = [s \in AllSlots |-> IF s \in Slots(p) THEN 0 ELSE timestamps[s]]
           /\ \/ UNCHANGED <<used, held, call>>
              \/ \E s \in Slots(p) : Give(t, s)
<1>1. PICK p \in PageAddrs \ Mapped :
        LET fits == {s \in Slots(p) : SlotInWindow(call[t].req, s)}
        IN /\ pages' = <<p>> \o pages
           /\ timestamps' = [s \in AllSlots |-> IF s \in Slots(p) THEN 0 ELSE timestamps[s]]
           /\ IF fits = {} THEN UNCHANGED <<used, held, call>>
                          ELSE \E s \in fits : Give(t, s)
  BY DEF AllocMap
<1>2. pages \in Seq(PageAddrs)
  BY DEF TypeOK
<1>3. SlotsOf(pages') = Slots(p) \cup SlotsOf(pages)
  BY <1>1, <1>2, SlotsOfCons
<1>4. \A k \in 1 .. Len(pages) : pages[k] # p
  BY <1>1 DEF Mapped
<1>5. Slots(p) \cap SlotsOf(pages) = {}
  BY <1>2, <1>4, NewPageIsDisjoint
<1>6. QED
  BY <1>1, <1>3, <1>5

(* Giving out an unflagged slot keeps slots exclusive and flagged.         *)
LEMMA GiveIsExclusive ==
  ASSUME TypeOK, ExclusiveSlots, OwnedAreFlagged,
         NEW t \in Threads, call[t].op = "alloc",
         NEW s, s \notin used, Give(t, s)
  PROVE  /\ ExclusiveSlots'
         /\ Live' = Live \cup {s} /\ Live' \subseteq used'
         /\ \A u \in Threads : call'[u].op = "free" =>
              call[u].op = "free" /\ call'[u] = call[u] /\ call[u].slot \in used'
         /\ \A u \in Threads : call'[u].op = "alloc" =>
              call[u].op = "alloc" /\ call'[u] = call[u]
<1> DEFINE g == [slot |-> s, req |-> call[t].req]
<1>1. /\ used' = used \cup {s}
      /\ held' = [held EXCEPT ![t] = @ \cup {g}]
      /\ call' = [call EXCEPT ![t] = Idle]
  BY DEF Give
<1>2. /\ \A u \in Threads : held'[u] = IF u = t THEN held[t] \cup {g} ELSE held[u]
      /\ \A u \in Threads : call'[u] = IF u = t THEN Idle ELSE call[u]
  BY <1>1 DEF TypeOK
<1>3. g.slot = s /\ Idle.op = "idle"
  BY DEF Idle
<1> HIDE DEF g
<1>4. s \notin Live /\ \A u \in Threads : call[u].op = "free" => call[u].slot # s
  BY DEF OwnedAreFlagged
<1>5. Live' = Live \cup {s}
  BY <1>2, <1>3 DEF Live
<1>6. \A u \in Threads : \A h \in held[u] : h.slot # s
  BY <1>4 DEF Live
<1>7. \A u, v \in Threads : \A h \in held'[u], k \in held'[v] :
        h.slot = k.slot => u = v /\ h = k
  BY <1>2, <1>3, <1>6 DEF ExclusiveSlots
<1>8. \A u \in Threads : call'[u].op = "free" =>
        /\ call'[u] = call[u]
        /\ call[u].op = "free"
        /\ call[u].slot \notin Live'
        /\ call[u].slot \in used'
  BY <1>1, <1>2, <1>3, <1>4, <1>5 DEF ExclusiveSlots, OwnedAreFlagged
<1>9. ExclusiveSlots'
  BY <1>7, <1>8 DEF ExclusiveSlots
<1>10. QED
  BY <1>1, <1>2, <1>3, <1>5, <1>8, <1>9 DEF OwnedAreFlagged

(* No runner is inside a slot that has cooled down: it was given up more   *)
(* than Delay seconds ago, although the time was read before the lock.     *)
LEMMA CooledIsEmpty ==
  ASSUME IInv, NEW t \in Threads, call[t].op = "alloc",
         NEW s \in AllSlots \ used, Cooled(s, call[t].now)
  PROVE  \A x \in Runners : running[x] # s
<1> USE DEF IInv
<1>1. call[t].now \in Nat /\ call[t].now <= clock.sec
  BY DEF TypeOK, Idle, StampsAreFreeTimes
<1>2. timestamps[s] = freedAt[s].sec /\ clock.sec \in Nat /\ freedAt[s].sec \in Nat
  BY DEF TypeOK, Time, StampsAreFreeTimes
<1>3. call[t].now - timestamps[s] > Delay /\ Delay \in Nat
  BY TrampoAssumption DEF Cooled
<1>4. LongAfter(clock, freedAt[s])
  BY <1>1, <1>2, <1>3 DEF LongAfter
<1>5. s \notin Live /\ s # NoSlot
  BY TrampoAssumption DEF OwnedAreFlagged
<1>6. QED
  BY <1>4, <1>5 DEF RunnersAreRecent

(* Every action keeps the invariant.                                       *)
LEMMA NextIInv == IInv /\ [Next]_vars => IInv'
<1> SUFFICES ASSUME IInv, [Next]_vars
             PROVE  /\ ExclusiveSlots' /\ OwnedAreFlagged'
                    /\ StampsAreFreeTimes' /\ RunnersAreRecent'
  BY NextTypeOK DEF IInv
<1> USE DEF IInv
<1>t. TypeOK'
  BY NextTypeOK
<1>i. Idle.op = "idle"
  BY DEF Idle
<1>1. ASSUME NEW t \in Threads, NEW r \in Requests, AllocStart(t, r)
      PROVE  ExclusiveSlots' /\ OwnedAreFlagged' /\ StampsAreFreeTimes' /\ RunnersAreRecent'
  <2> DEFINE c == [op |-> "alloc", now |-> clock.sec, req |-> r]
  <2>1. c.op = "alloc" /\ c.now = clock.sec /\ clock.sec \in Nat
    BY DEF TypeOK, Time
  <2> HIDE DEF c
  <2>2. /\ \A u \in Threads : call'[u] = IF u = t THEN c ELSE call[u]
        /\ UNCHANGED <<pages, used, timestamps, clock, held, freedAt, running>>
    BY <1>1 DEF AllocStart, TypeOK, c
  <2>3. Live' = Live
    BY <2>2 DEF Live
  <2>4. ExclusiveSlots' /\ OwnedAreFlagged'
    BY <2>1, <2>2, <2>3 DEF ExclusiveSlots, OwnedAreFlagged
  <2>5. StampsAreFreeTimes'
    BY <2>1, <2>2 DEF StampsAreFreeTimes
  <2>6. RunnersAreRecent'
    BY <2>2, <2>3 DEF RunnersAreRecent, LongAfter
  <2>7. QED
    BY <2>4, <2>5, <2>6
<1>2. ASSUME NEW t \in Threads, AllocReuse(t)
      PROVE  ExclusiveSlots' /\ OwnedAreFlagged' /\ StampsAreFreeTimes' /\ RunnersAreRecent'
  <2>1. PICK s \in SlotsOf(pages) \ used : Cooled(s, call[t].now) /\ Give(t, s)
    BY <1>2, GivenByReuse
  <2>2. call[t].op = "alloc" /\ UNCHANGED <<pages, timestamps, clock, freedAt, running>>
    BY <1>2 DEF AllocReuse
  <2>3. /\ ExclusiveSlots'
        /\ Live' = Live \cup {s} /\ Live' \subseteq used'
        /\ \A u \in Threads : call'[u].op = "free" =>
             call[u].op = "free" /\ call'[u] = call[u] /\ call[u].slot \in used'
        /\ \A u \in Threads : call'[u].op = "alloc" =>
             call[u].op = "alloc" /\ call'[u] = call[u]
    BY <2>1, <2>2, GiveIsExclusive
  <2>4. used' = used \cup {s}
    BY <2>1 DEF Give
  <2>5. OwnedAreFlagged'
    BY <2>1, <2>2, <2>3, <2>4 DEF OwnedAreFlagged
  <2>6. StampsAreFreeTimes'
    BY <2>2, <2>3, <2>4 DEF StampsAreFreeTimes
  <2>7. RunnersAreRecent'
    BY <2>2, <2>3 DEF RunnersAreRecent, LongAfter
  <2>8. QED
    BY <2>3, <2>5, <2>6, <2>7
<1>3. ASSUME NEW t \in Threads, AllocMap(t)
      PROVE  ExclusiveSlots' /\ OwnedAreFlagged' /\ StampsAreFreeTimes' /\ RunnersAreRecent'
  <2>1. PICK p \in PageAddrs :
           /\ Slots(p) \cap SlotsOf(pages) = {}
           /\ SlotsOf(pages') = Slots(p) \cup SlotsOf(pages)
           /\ timestamps' = [s \in AllSlots |-> IF s \in Slots(p) THEN 0 ELSE timestamps[s]]
           /\ \/ UNCHANGED <<used, held, call>>
              \/ \E s \in Slots(p) : Give(t, s)
    BY <1>3, GivenByMap
  <2>2. call[t].op = "alloc" /\ UNCHANGED <<clock, freedAt, running>>
    BY <1>3 DEF AllocMap
  <2>3. Slots(p) \subseteq AllSlots /\ \A s \in Slots(p) : s \notin used
    BY <2>1 DEF AllSlots, OwnedAreFlagged
  <2>4. \A s \in Slots(p) : freedAt[s].sec = 0
    BY <2>1, <2>3 DEF StampsAreFreeTimes
  <2>5. \A s \in AllSlots \ used : timestamps'[s] = freedAt[s].sec
    BY <2>1, <2>4 DEF StampsAreFreeTimes
  <2>6. CASE UNCHANGED <<used, held, call>>
    <3>1. Live' = Live
      BY <2>6 DEF Live
    <3>2. ExclusiveSlots' /\ OwnedAreFlagged'
      BY <2>1, <2>6, <3>1 DEF ExclusiveSlots, OwnedAreFlagged
    <3>3. StampsAreFreeTimes'
      BY <2>1, <2>2, <2>5, <2>6 DEF StampsAreFreeTimes
    <3>4. RunnersAreRecent'
      BY <2>1, <2>2, <3>1 DEF RunnersAreRecent, LongAfter
    <3>5. QED
      BY <3>2, <3>3, <3>4
  <2>7. CASE \E s \in Slots(p) : Give(t, s)
    <3>1. PICK s \in Slots(p) : Give(t, s)
      BY <2>7
    <3>2. /\ ExclusiveSlots'
          /\ Live' = Live \cup {s} /\ Live' \subseteq used'
          /\ \A u \in Threads : call'[u].op = "free" =>
               call[u].op = "free" /\ call'[u] = call[u] /\ call[u].slot \in used'
          /\ \A u \in Threads : call'[u].op = "alloc" =>
               call[u].op = "alloc" /\ call'[u] = call[u]
      BY <2>2, <2>3, <3>1, GiveIsExclusive
    <3>3. used' = used \cup {s}
      BY <3>1 DEF Give
    <3>4. OwnedAreFlagged'
      BY <2>1, <3>1, <3>2, <3>3 DEF OwnedAreFlagged
    <3>5. StampsAreFreeTimes'
      BY <2>1, <2>2, <2>5, <3>2, <3>3 DEF StampsAreFreeTimes
    <3>6. RunnersAreRecent'
      BY <2>1, <2>2, <3>2 DEF RunnersAreRecent, LongAfter
    <3>7. QED
      BY <3>2, <3>4, <3>5, <3>6
  <2>8. QED
    BY <2>1, <2>6, <2>7
<1>4. ASSUME NEW t \in Threads, AllocFail(t)
      PROVE  ExclusiveSlots' /\ OwnedAreFlagged' /\ StampsAreFreeTimes' /\ RunnersAreRecent'
  <2>1. /\ \A u \in Threads : call'[u] = IF u = t THEN Idle ELSE call[u]
        /\ UNCHANGED <<pages, used, timestamps, clock, held, freedAt, running>>
    BY <1>4 DEF AllocFail, TypeOK
  <2>2. Live' = Live
    BY <2>1 DEF Live
  <2>3. ExclusiveSlots' /\ OwnedAreFlagged'
    BY <1>i, <2>1, <2>2 DEF ExclusiveSlots, OwnedAreFlagged
  <2>4. StampsAreFreeTimes' /\ RunnersAreRecent'
    BY <1>i, <2>1, <2>2 DEF StampsAreFreeTimes, RunnersAreRecent, LongAfter
  <2>5. QED
    BY <2>3, <2>4
<1>5. ASSUME NEW t \in Threads, NEW v \in Threads, NEW h \in held[v], FreeStart(t, v, h)
      PROVE  ExclusiveSlots' /\ OwnedAreFlagged' /\ StampsAreFreeTimes' /\ RunnersAreRecent'
  <2> DEFINE c == [op |-> "free", now |-> clock.sec, slot |-> h.slot]
  <2>1. c.op = "free" /\ c.now = clock.sec /\ c.slot = h.slot
    OBVIOUS
  <2>2. h.slot \in AllSlots /\ clock.sec \in Nat /\ clock.usec \in Nat
    BY DEF TypeOK, Holding, Time
  <2> HIDE DEF c
  <2>3. /\ \A u \in Threads : call'[u] = IF u = t THEN c ELSE call[u]
        /\ \A u \in Threads : held'[u] = IF u = v THEN held[v] \ {h} ELSE held[u]
        /\ \A s \in AllSlots : freedAt'[s] = IF s = h.slot THEN clock ELSE freedAt[s]
        /\ UNCHANGED <<pages, used, timestamps, clock, running>>
        /\ call[t] = Idle
    BY <1>5 DEF FreeStart, TypeOK, c
  <2>4. h.slot \in Live /\ h.slot \in used
    BY DEF Live, OwnedAreFlagged
  <2>5. Live' = Live \ {h.slot}
    BY <2>3 DEF Live, ExclusiveSlots
  <2>6. \A u \in Threads : u # t /\ call[u].op = "free" => call[u].slot # h.slot
    BY <2>4 DEF ExclusiveSlots
  <2>7. \A u, w \in Threads : \A k \in held'[u], g \in held'[w] :
          k.slot = g.slot => u = w /\ k = g
    BY <2>3 DEF ExclusiveSlots
  <2>8. \A u \in Threads : call'[u].op = "free" =>
          /\ call'[u].slot \notin Live'
          /\ \A w \in Threads \ {u} : call'[w].op = "free" => call'[w].slot # call'[u].slot
    BY <2>1, <2>3, <2>5, <2>6 DEF ExclusiveSlots
  <2>9. ExclusiveSlots'
    BY <2>7, <2>8 DEF ExclusiveSlots
  <2>10. OwnedAreFlagged'
    BY <2>1, <2>3, <2>4, <2>5 DEF OwnedAreFlagged
  <2>11. StampsAreFreeTimes'
    <3>1. h.slot \in SlotsOf(pages)
      BY <2>4 DEF OwnedAreFlagged
    <3>2. \A s \in AllSlots \ used' : timestamps'[s] = freedAt'[s].sec
      BY <2>3, <2>4 DEF StampsAreFreeTimes
    <3>3. \A s \in AllSlots \ SlotsOf(pages') : freedAt'[s] = [sec |-> 0, usec |-> 0]
      BY <2>3, <3>1 DEF StampsAreFreeTimes
    <3>4. \A u \in Threads : call'[u].op = "alloc" => call'[u].now <= clock'.sec
      BY <2>1, <2>3 DEF StampsAreFreeTimes
    <3>5. \A u \in Threads : call'[u].op = "free" => call'[u].now = freedAt'[call'[u].slot].sec
      <4>1. SUFFICES ASSUME NEW u \in Threads, call'[u].op = "free"
                     PROVE  call'[u].now = freedAt'[call'[u].slot].sec
        OBVIOUS
      <4>2. CASE u = t
        BY <2>1, <2>2, <2>3, <4>2
      <4>3. CASE u # t
        <5>1. call'[u] = call[u] /\ call[u].op = "free" /\ call[u].slot # h.slot
          BY <2>3, <2>6, <4>1, <4>3
        <5>2. call[u].slot \in AllSlots
          BY <5>1 DEF OwnedAreFlagged, TypeOK
        <5>3. QED
          BY <2>3, <5>1, <5>2 DEF StampsAreFreeTimes
      <4>4. QED
        BY <4>2, <4>3
    <3>6. QED
      BY <3>2, <3>3, <3>4, <3>5 DEF StampsAreFreeTimes
  <2>12. RunnersAreRecent'
    <3>1. SUFFICES ASSUME NEW x \in Runners, running[x] # NoSlot
                   PROVE  /\ running[x] \in SlotsOf(pages)
                          /\ running[x] \in Live' \/ ~ LongAfter(clock, freedAt'[running[x]])
      BY <2>3 DEF RunnersAreRecent, LongAfter
    <3>2. running[x] \in AllSlots
      BY <3>1 DEF TypeOK
    <3>3. ~ LongAfter(clock, clock)
      BY <2>2, TrampoAssumption DEF LongAfter
    <3>4. CASE running[x] = h.slot
      <4>1. freedAt'[running[x]] = clock
        BY <2>3, <3>2, <3>4
      <4>2. QED
        BY <3>1, <3>3, <4>1 DEF RunnersAreRecent
    <3>5. CASE running[x] # h.slot
      <4>1. freedAt'[running[x]] = freedAt[running[x]]
        BY <2>3, <3>2, <3>5
      <4>2. QED
        BY <2>5, <3>1, <3>5, <4>1 DEF RunnersAreRecent
    <3>6. QED
      BY <3>4, <3>5
  <2>13. QED
    BY <2>9, <2>10, <2>11, <2>12
<1>6. ASSUME NEW t \in Threads, FreeEnd(t)
      PROVE  ExclusiveSlots' /\ OwnedAreFlagged' /\ StampsAreFreeTimes' /\ RunnersAreRecent'
  <2> DEFINE z == call[t].slot
  <2>1. /\ call[t].op = "free" /\ z \in used /\ z \in AllSlots
        /\ z \notin Live /\ call[t].now = freedAt[z].sec
    BY <1>6 DEF FreeEnd, OwnedAreFlagged, ExclusiveSlots, StampsAreFreeTimes, TypeOK
  <2>2. /\ \A u \in Threads : call'[u] = IF u = t THEN Idle ELSE call[u]
        /\ used' = used \ {z}
        /\ \A s \in AllSlots : timestamps'[s] = IF s = z THEN call[t].now ELSE timestamps[s]
        /\ UNCHANGED <<pages, clock, held, freedAt, running>>
    BY <1>6 DEF FreeEnd, TypeOK
  <2>3. Live' = Live
    BY <2>2 DEF Live
  <2>4. \A u \in Threads : u # t /\ call[u].op = "free" => call[u].slot # z
    BY <2>1 DEF ExclusiveSlots
  <2> HIDE DEF z
  <2>5. ExclusiveSlots'
    BY <1>i, <2>2, <2>3 DEF ExclusiveSlots
  <2>6. OwnedAreFlagged'
    BY <1>i, <2>1, <2>2, <2>3, <2>4 DEF OwnedAreFlagged
  <2>7. StampsAreFreeTimes'
    BY <1>i, <2>1, <2>2 DEF StampsAreFreeTimes
  <2>8. RunnersAreRecent'
    BY <2>2, <2>3 DEF RunnersAreRecent, LongAfter
  <2>9. QED
    BY <2>5, <2>6, <2>7, <2>8
<1>7. ASSUME NEW x \in Runners, Enter(x)
      PROVE  ExclusiveSlots' /\ OwnedAreFlagged' /\ StampsAreFreeTimes' /\ RunnersAreRecent'
  <2>1. PICK s \in Live : running' = [running EXCEPT ![x] = s]
    BY <1>7 DEF Enter, Live
  <2>2. UNCHANGED <<pages, used, timestamps, clock, call, held, freedAt>>
    BY <1>7 DEF Enter
  <2>3. Live' = Live
    BY <2>2 DEF Live
  <2>4. ExclusiveSlots' /\ OwnedAreFlagged' /\ StampsAreFreeTimes'
    BY <2>2, <2>3 DEF ExclusiveSlots, OwnedAreFlagged, StampsAreFreeTimes
  <2>5. s \in SlotsOf(pages)
    BY DEF OwnedAreFlagged
  <2>6. \A y \in Runners : running'[y] = IF y = x THEN s ELSE running[y]
    BY <2>1 DEF TypeOK
  <2>7. RunnersAreRecent'
    BY <2>2, <2>3, <2>5, <2>6 DEF RunnersAreRecent, LongAfter
  <2>8. QED
    BY <2>4, <2>7
<1>8. ASSUME NEW x \in Runners, Leave(x)
      PROVE  ExclusiveSlots' /\ OwnedAreFlagged' /\ StampsAreFreeTimes' /\ RunnersAreRecent'
  <2>1. /\ \A y \in Runners : running'[y] = IF y = x THEN NoSlot ELSE running[y]
        /\ UNCHANGED <<pages, used, timestamps, clock, call, held, freedAt>>
    BY <1>8 DEF Leave, TypeOK
  <2>2. Live' = Live
    BY <2>1 DEF Live
  <2>3. QED
    BY <2>1, <2>2 DEF ExclusiveSlots, OwnedAreFlagged, StampsAreFreeTimes,
                      RunnersAreRecent, LongAfter
<1>9. ASSUME Tick
      PROVE  ExclusiveSlots' /\ OwnedAreFlagged' /\ StampsAreFreeTimes' /\ RunnersAreRecent'
  <2>1. /\ UNCHANGED <<pages, used, timestamps, call, held, freedAt, running>>
        /\ \A x \in Runners : running[x] # NoSlot /\ running[x] \notin Live
                           => ~ LongAfter(clock', freedAt[running[x]])
    BY <1>9 DEF Tick
  <2>2. Live' = Live
    BY <2>1 DEF Live
  <2>3. \/ clock' = [clock EXCEPT !.usec = @ + 1]
        \/ clock' = [sec |-> clock.sec + 1, usec |-> 0]
    BY <1>9 DEF Tick
  <2>4. clock.sec \in Nat /\ clock'.sec \in Nat /\ clock'.sec >= clock.sec
    <3>1. clock \in Time
      BY DEF TypeOK
    <3>2. QED
      BY ONLY <2>3, <3>1 DEF Time
  <2>5. ExclusiveSlots' /\ OwnedAreFlagged'
    BY <2>1, <2>2 DEF ExclusiveSlots, OwnedAreFlagged
  <2>6. \A t \in Threads : call[t].op = "alloc" => call[t].now \in Nat
    BY <1>i DEF TypeOK
  <2>7. StampsAreFreeTimes'
    BY <2>1, <2>4, <2>6 DEF StampsAreFreeTimes
  <2>8. RunnersAreRecent'
    BY <2>1, <2>2 DEF RunnersAreRecent, LongAfter
  <2>9. QED
    BY <2>5, <2>7, <2>8
<1>10. ASSUME UNCHANGED vars
       PROVE  ExclusiveSlots' /\ OwnedAreFlagged' /\ StampsAreFreeTimes' /\ RunnersAreRecent'
  BY <1>10 DEF vars, ExclusiveSlots, OwnedAreFlagged, StampsAreFreeTimes, RunnersAreRecent,
               Live, LongAfter
<1>11. QED
  BY <1>1, <1>2, <1>3, <1>4, <1>5, <1>6, <1>7, <1>8, <1>9, <1>10 DEF Next, AllocatorStep
----------------------------------------------------------------------------
(* The invariant holds in every reachable state.                           *)
LEMMA Invariance == Spec => []IInv
  BY InitIInv, NextIInv, PTL DEF Spec

(* The state of the allocator keeps its types.                             *)
THEOREM TypeCorrect == Spec => []TypeOK
<1>1. IInv => TypeOK
  BY DEF IInv
<1>2. QED
  BY <1>1, Invariance, PTL

(* No slot is ever owned twice, or owned while it is being freed.          *)
THEOREM SlotsAreExclusive == Spec => []ExclusiveSlots
<1>1. IInv => ExclusiveSlots
  BY DEF IInv
<1>2. QED
  BY <1>1, Invariance, PTL

(* No slot is reissued while a thread still executes in it, provided the   *)
(* thread leaves within delay_sec seconds of the call that freed the slot. *)
THEOREM QuarantineHolds == Spec => NoReissueUnderRunner
<1> DEFINE A == \A x \in Runners : running[x] # NoSlot /\ running[x] \notin used
                           => running[x] \notin used'
<1>1. IInv /\ [Next]_vars => [A]_vars
  <2> SUFFICES ASSUME IInv, Next PROVE A
    OBVIOUS
  <2> USE DEF IInv
  <2>1. ASSUME NEW t \in Threads, AllocReuse(t) PROVE A
    <3>1. PICK s \in SlotsOf(pages) \ used : Cooled(s, call[t].now) /\ Give(t, s)
      BY <2>1, GivenByReuse
    <3>2. s \in AllSlots /\ call[t].op = "alloc"
      BY <2>1, SlotsOfType DEF AllocReuse, TypeOK
    <3>3. \A x \in Runners : running[x] # s
      BY <3>1, <3>2, CooledIsEmpty
    <3>4. QED
      BY <3>1, <3>3 DEF Give
  <2>2. ASSUME NEW t \in Threads, AllocMap(t) PROVE A
    <3>1. PICK p \in PageAddrs :
            /\ Slots(p) \cap SlotsOf(pages) = {}
            /\ UNCHANGED used \/ \E s \in Slots(p) : used' = used \cup {s}
      BY <2>2, GivenByMap DEF Give
    <3>2. QED
      BY <3>1 DEF RunnersAreRecent
  <2>3. ASSUME NEW t \in Threads, FreeEnd(t) PROVE A
    BY <2>3 DEF FreeEnd
  <2>4. QED
    BY <2>1, <2>2, <2>3 DEF Next, AllocatorStep, AllocStart, AllocFail, FreeStart,
                            Enter, Leave, Tick
<1>2. QED
  BY <1>1, Invariance, PTL DEF Spec, NoReissueUnderRunner
----------------------------------------------------------------------------
(* Integer division leaves a remainder smaller than the divisor.           *)
LEMMA DivRemainder ==
  ASSUME NEW d \in Nat, NEW n \in Nat \ {0}
  PROVE  /\ d \div n \in Nat
         /\ n * (d \div n) <= d /\ d < n * (d \div n) + n
  OBVIOUS

(* A positive factor cancels in an inequality.                             *)
LEMMA CancelFactor ==
  ASSUME NEW a \in Nat, NEW b \in Nat, NEW n \in Nat \ {0}, n * a < n * b
  PROVE  a < b
  OBVIOUS

(* A page holds at least one slot.                                         *)
LEMMA CountType == Count \in Nat \ {0}
<1>1. /\ Count \in Nat /\ PageSize < TrampoSize * Count + TrampoSize
  BY DivRemainder, TrampoAssumption DEF Count
<1>2. Count # 0
  <2>1. SUFFICES ASSUME Count = 0 PROVE FALSE
    OBVIOUS
  <2>2. TrampoSize * Count = 0
    BY <2>1, TrampoAssumption
  <2>3. QED
    BY <1>1, <2>2, TrampoAssumption
<1>3. QED
  BY <1>1, <1>2

(* The ends of a window are integers.                                      *)
LEMMA WindowType ==
  ASSUME NEW r \in Requests
  PROVE  Lowest(r) \in Int /\ Highest(r) \in Int
  BY TrampoAssumption DEF Lowest, Highest

(* A page that passes the window test has a slot in the window: the first  *)
(* slot, or the first one at or above the lower end.                       *)
LEMMA WindowHasSlot ==
  ASSUME NEW r \in Requests, NEW p \in PageAddrs, NewPageInWindow(r, p)
  PROVE  \E s \in Slots(p) : SlotInWindow(r, s)
<1> DEFINE size == TrampoSize
           low  == Lowest(r)
           high == Highest(r)
<1>1. size \in Nat \ {0} /\ p \in Nat /\ Count \in Nat \ {0} /\ PageSize \in Nat
  BY TrampoAssumption, CountType
<1>2. low \in Int /\ high \in Int
  BY WindowType
<1>3. \A i \in 0 .. Count - 1 : p + size * i \in Slots(p)
  BY DEF Slots
<1>4. p \in Slots(p)
  BY <1>1, <1>3
<1>5. CASE ~ (r.hint > 0)
  BY <1>4, <1>5 DEF SlotInWindow
<1>6. CASE r.hint > 0 /\ low <= p
  BY <1>4, <1>6 DEF SlotInWindow, NewPageInWindow
<1>7. CASE r.hint > 0 /\ p < low
  <2> DEFINE d == low - p - 1
             q == d \div size
             i == q + 1
  <2>1. /\ low < p + PageSize - size /\ low + size <= high + 1
        /\ size * Count = PageSize
    BY <1>1, <1>7, WindowAssumption, TrampoAssumption DEF NewPageInWindow
  <2>2. d \in Nat
    BY <1>1, <1>2, <1>7
  <2> HIDE DEF d
  <2>3. q \in Nat /\ size * q <= d /\ d < size * q + size
    BY <1>1, <2>2, DivRemainder
  <2> HIDE DEF q
  <2>4. size * i = size * q + size /\ i \in Nat /\ size * q \in Nat
    BY <1>1, <2>3
  <2> HIDE DEF i
  <2>5. size * i < size * Count
    BY <1>1, <1>2, <2>1, <2>3, <2>4 DEF d
  <2>6. i \in 0 .. Count - 1
    BY <1>1, <2>4, <2>5, CancelFactor
  <2>7. low <= p + size * i /\ p + size * i <= high
    BY <1>1, <1>2, <2>1, <2>3, <2>4 DEF d
  <2>8. QED
    BY <1>3, <2>6, <2>7 DEF SlotInWindow
<1>8. QED
  BY <1>1, <1>2, <1>5, <1>6, <1>7

(* A caller that named a window gets a slot inside it.                     *)
THEOREM WindowsAreKept == Spec => []WithinWindow
<1>1. Init => WithinWindow
  BY DEF Init, WithinWindow
<1>2. IInv /\ WithinWindow /\ [Next]_vars => WithinWindow'
  <2> SUFFICES ASSUME IInv, WithinWindow, [Next]_vars PROVE WithinWindow'
    OBVIOUS
  <2> USE DEF IInv
  <2>1. ASSUME NEW t \in Threads, NEW s \in AllSlots, Give(t, s), SlotInWindow(call[t].req, s)
        PROVE  WithinWindow'
    BY <2>1 DEF Give, WithinWindow, TypeOK
  <2>2. ASSUME NEW t \in Threads, AllocReuse(t) PROVE WithinWindow'
    <3>1. PICK k \in 1 .. Len(pages) :
            \E s \in Candidates(pages[k], call[t].req, call[t].now) : Give(t, s)
      BY <2>2 DEF AllocReuse
    <3>2. PICK s \in Slots(pages[k]) : SlotInWindow(call[t].req, s) /\ Give(t, s)
      BY <3>1 DEF Candidates
    <3>3. s \in AllSlots
      BY <3>2 DEF TypeOK, AllSlots
    <3>4. QED
      BY <2>1, <3>2, <3>3
  <2>3. ASSUME NEW t \in Threads, AllocMap(t) PROVE WithinWindow'
    <3>1. PICK p \in PageAddrs :
            \/ UNCHANGED held
            \/ \E s \in Slots(p) : SlotInWindow(call[t].req, s) /\ Give(t, s)
      BY <2>3 DEF AllocMap
    <3>2. CASE UNCHANGED held
      BY <3>2 DEF WithinWindow
    <3>3. CASE \E s \in Slots(p) : SlotInWindow(call[t].req, s) /\ Give(t, s)
      BY <2>1, <3>3 DEF AllSlots
    <3>4. QED
      BY <3>1, <3>2, <3>3
  <2>4. ASSUME NEW t \in Threads, NEW u \in Threads, NEW h \in held[u], FreeStart(t, u, h)
        PROVE  WithinWindow'
    BY <2>4 DEF FreeStart, WithinWindow, TypeOK
  <2>5. CASE UNCHANGED held
    BY <2>5 DEF WithinWindow
  <2>6. QED
    BY <2>2, <2>3, <2>4, <2>5 DEF Next, AllocatorStep, AllocStart, AllocFail, FreeEnd,
                                  Enter, Leave, Tick, vars
<1>3. QED
  BY <1>1, <1>2, Invariance, PTL DEF Spec

(* The abort() at the end of sh_trampo_alloc is out of reach.              *)
THEOREM AbortIsUnreachable == Spec => []NeverAborts
<1>1. Init => NeverAborts
  BY DEF Init, NeverAborts
<1>2. IInv /\ NeverAborts /\ [Next]_vars => NeverAborts'
  <2> SUFFICES ASSUME IInv, NeverAborts, [Next]_vars PROVE NeverAborts'
    OBVIOUS
  <2>1. ASSUME NEW t \in Threads, AllocMap(t) PROVE NeverAborts'
    <3>1. call[t].req \in Requests
      BY <2>1 DEF AllocMap, IInv, TypeOK, Idle
    <3>2. PICK p \in PageAddrs :
            /\ NewPageInWindow(call[t].req, p)
            /\ aborted' = ({s \in Slots(p) : SlotInWindow(call[t].req, s)} = {})
      BY <2>1 DEF AllocMap
    <3>3. \E s \in Slots(p) : SlotInWindow(call[t].req, s)
      BY <3>1, <3>2, WindowHasSlot
    <3>4. QED
      BY <3>2, <3>3 DEF NeverAborts
  <2>2. CASE UNCHANGED aborted
    BY <2>2 DEF NeverAborts
  <2>3. QED
    BY <2>1, <2>2 DEF Next, AllocatorStep, AllocStart, AllocReuse, AllocFail, FreeStart,
                      FreeEnd, Enter, Leave, Tick, vars, NeverAborts
<1>3. QED
  BY <1>1, <1>2, Invariance, PTL DEF Spec
=============================================================================
