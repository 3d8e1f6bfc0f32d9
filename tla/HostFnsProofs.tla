---------------------------- MODULE HostFnsProofs ---------------------------
(***************************************************************************)
(* HostFns for every set of realms and any number of attaches a generation *)
(* counter can tell apart: a function runs its own proc or none, and a     *)
(* function of a realm that still stands runs its own.                     *)
(***************************************************************************)
EXTENDS HostFns, SequenceTheorems, FiniteSetTheorems, TLAPS

(* What a function carries is not ahead of its slot, its realm or the      *)
(* isolate.                                                                *)
KeysKnown ==
  \A f \in fns :
    /\ f.proc <= attached
    /\ f.realm \in created
    /\ f.epoch <= epoch[f.realm]
    /\ live => /\ f.index \in DOMAIN slots
               /\ f.generation <= slots[f.index].generation

(* A slot has changed hands less often than there were attaches, so its    *)
(* generation has not come round.                                          *)
GenerationsFit == \A i \in DOMAIN slots : slots[i].generation < attached

(* The proc of a slot is the one its latest function was attached with.    *)
Occupants ==
  \A f \in fns :
    f.index \in DOMAIN slots /\ f.generation = slots[f.index].generation =>
      /\ slots[f.index].realm = f.realm
      /\ roots[f.index] \in {f.proc, NoProc}

Stands(f) == f.realm \in known /\ f.epoch = epoch[f.realm]

(* A function of a realm that stands is its slot's current occupant.       *)
StandingCurrent == live => \A f \in fns : Stands(f) => CurrentKey(f.index, f.generation)

IndInv ==
  /\ TypeOK /\ KeysKnown /\ GenerationsFit /\ Occupants /\ StandingCurrent /\ SlotsAccounted

-----------------------------------------------------------------------------
(* A function on 1 .. n is a sequence of length n.                         *)
LEMMA FunctionIsSeq ==
  ASSUME NEW S, NEW n \in Nat, NEW s \in [1 .. n -> S]
  PROVE  s \in Seq(S) /\ Len(s) = n /\ DOMAIN s = 1 .. n
OBVIOUS

(* The sequence that lists a finite set in order, as release builds it,    *)
(* has exactly the members of the set, each once.                          *)
LEMMA InOrderLists ==
  ASSUME NEW S \in SUBSET Nat, IsFiniteSet(S), NEW s \in InOrder(S)
  PROVE  /\ s \in Seq(S)
         /\ Len(s) \in Nat
         /\ \A i \in S : \E k \in 1 .. Len(s) : s[k] = i
         /\ \A j, k \in 1 .. Len(s) : s[j] = s[k] => j = k
<1> DEFINE n == Cardinality(S)
<1>1. n \in Nat
  BY FS_CardinalityType
<1>2. /\ s \in [1 .. n -> S]
      /\ \A j, k \in DOMAIN s : j < k => s[j] < s[k]
      /\ \A i \in S : \E k \in DOMAIN s : s[k] = i
  BY DEF InOrder
<1>3. s \in Seq(S) /\ Len(s) = n /\ DOMAIN s = 1 .. n
  BY <1>1, <1>2, FunctionIsSeq
<1>4. \A k \in 1 .. n : s[k] \in Nat
  BY <1>2
<1>5. ASSUME NEW j \in 1 .. n, NEW k \in 1 .. n, s[j] = s[k] PROVE j = k
  <2>1. ~(j < k) /\ ~(k < j)
    BY <1>2, <1>3, <1>4, <1>5
  <2> QED BY <2>1, <1>1
<1> QED BY <1>1, <1>2, <1>3, <1>5

(* What alloc does to the table, the roots and the free list.             *)
SlotTaken(r, index, generation) ==
  /\ index \in Nat \ {0}
  /\ generation \in 0 .. Generations - 1
  /\ generation <= attached
  /\ slots' \in Seq(SlotType) /\ DOMAIN slots' = DOMAIN slots \cup {index}
  /\ roots' \in Seq(Nat) /\ DOMAIN roots' = DOMAIN slots'
  /\ Len(roots') = Len(slots')
  /\ slots'[index] = Slot(r, generation)
  /\ roots'[index] = attached + 1
  /\ \A i \in DOMAIN slots \ {index} : slots'[i] = slots[i] /\ roots'[i] = roots[i]
  /\ index \in DOMAIN slots =>
        ~slots[index].live /\ generation = slots[index].generation + 1
  /\ free' \in Seq(DOMAIN slots')
  /\ \A k \in DOMAIN free' : /\ k \in DOMAIN free /\ free'[k] = free[k]
                             /\ free'[k] # index
  /\ \A k \in DOMAIN free : free[k] # index => k \in DOMAIN free'

(* ProcTable::alloc: the slot it takes is a new one or a released one, of  *)
(* the next generation, and no longer on the free list.                    *)
LEMMA AllocTakes ==
  ASSUME IndInv, NEW r \in Realms, NEW index \in Nat, NEW generation \in Nat,
         attached < MaxAttach, Alloc(r, index, generation)
  PROVE  SlotTaken(r, index, generation)
<1>1. /\ slots \in Seq(SlotType) /\ roots \in Seq(0 .. MaxAttach) /\ Len(roots) = Len(slots)
      /\ free \in Seq(DOMAIN slots)
      /\ attached \in Nat /\ MaxAttach \in Nat /\ Generations \in Nat /\ MaxAttach <= Generations
  BY MaxAttachAssumption, GenerationsAssumption DEF IndInv, TypeOK
<1>2. /\ Len(slots) \in Nat /\ DOMAIN slots = 1 .. Len(slots) /\ DOMAIN roots = 1 .. Len(slots)
      /\ Len(free) \in Nat /\ DOMAIN free = 1 .. Len(free)
      /\ \A k \in 1 .. Len(free) : free[k] \in 1 .. Len(slots)
      /\ \A i \in 1 .. Len(slots) : slots[i] \in SlotType /\ slots[i].generation \in Nat
      /\ roots \in Seq(Nat)
  <2>1. \A i \in 1 .. Len(slots) : slots[i] \in SlotType
    BY <1>1, ElementOfSeq
  <2>2. \A i \in 1 .. Len(slots) : slots[i].generation \in Nat
    BY <2>1, <1>1 DEF SlotType
  <2>3. 0 .. MaxAttach \subseteq Nat
    BY <1>1
  <2>4. roots \in Seq(Nat)
    BY <2>3, <1>1
  <2> QED BY <1>1, <2>1, <2>2, <2>4, LenProperties, ElementOfSeq
<1>0. /\ \A k \in DOMAIN free : ~slots[free[k]].live
      /\ \A j, k \in DOMAIN free : free[j] = free[k] => j = k
  BY <1>2 DEF IndInv, SlotsAccounted
<1>3. CASE free # <<>>
  <2> DEFINE n == Len(free)
  <2>1. n > 0 /\ n \in DOMAIN free
    BY <1>1, <1>2, <1>3, EmptySeq
  <2>2. index = free[n] /\ index \in 1 .. Len(slots)
    BY <1>2, <1>3, <2>1 DEF Alloc
  <2>3. ~slots[index].live
    BY <2>1, <2>2, <1>0
  <2>4. slots[index].generation + 1 <= attached
    BY SMTT(30), <2>2, <1>1, <1>2 DEF IndInv, GenerationsFit
  <2>5. generation = slots[index].generation + 1
    <3>1. generation = (slots[index].generation + 1) % Generations
      BY <1>3 DEF Alloc
    <3>2. slots[index].generation \in Nat
      BY <2>2, <1>2
    <3>3. slots[index].generation + 1 <= Generations - 1
      <4> DEFINE g == slots[index].generation
      <4> HIDE DEF g
      <4> QED BY SMTT(30), <3>2, <2>4, <1>1 DEF g
    <3>4. \A x \in 0 .. Generations - 1 : x % Generations = x
      BY SMTT(30), <1>1
    <3>5. (slots[index].generation + 1) % Generations = slots[index].generation + 1
      <4> DEFINE g == slots[index].generation + 1
      <4>1. g \in 0 .. Generations - 1
        <5>1. slots[index].generation + 1 \in Nat
          BY <3>2
        <5> QED BY <5>1, <3>3, <1>1
      <4> HIDE DEF g
      <4>2. g % Generations = g
        BY <4>1, <3>4
      <4> QED BY <4>2 DEF g
    <3> QED BY <3>1, <3>5
  <2>6. generation \in 0 .. Generations - 1 /\ generation <= attached
    BY SMTT(30), <2>2, <2>4, <2>5, <1>1, <1>2
  <2>7. Slot(r, generation) \in SlotType
    BY <2>6 DEF Slot, SlotType
  <2>8. /\ slots' = [slots EXCEPT ![index] = Slot(r, generation)]
        /\ roots' = [roots EXCEPT ![index] = attached + 1]
        /\ free' = SubSeq(free, 1, n - 1)
    BY <1>3 DEF Alloc
  <2>9. /\ slots' \in Seq(SlotType) /\ Len(slots') = Len(slots)
        /\ \A i \in 1 .. Len(slots) :
              slots'[i] = IF i = index THEN Slot(r, generation) ELSE slots[i]
    BY SMTT(30), <2>2, <2>7, <2>8, <1>1, <1>2, ExceptSeq
  <2>10. /\ roots' \in Seq(Nat) /\ Len(roots') = Len(roots)
         /\ \A i \in 1 .. Len(slots) :
               roots'[i] = IF i = index THEN attached + 1 ELSE roots[i]
    BY <2>2, <2>8, <1>1, <1>2, ExceptSeq
  <2>11. /\ free' \in Seq(DOMAIN slots) /\ Len(free') = n - 1
         /\ \A k \in 1 .. n - 1 : free'[k] = free[k]
    <3>1. \A i \in 1 .. n - 1 : free[i] \in DOMAIN slots
      BY <1>2
    <3>2. SubSeq(free, 1, n - 1) \in Seq(DOMAIN slots)
      BY <1>1, <2>1, <1>2, <3>1, SubSeqProperties
    <3>3. Len(SubSeq(free, 1, n - 1)) = n - 1
      BY <1>1, <2>1, <1>2, <3>1, SubSeqProperties
    <3>4. \A k \in 1 .. n - 1 : SubSeq(free, 1, n - 1)[k] = free[k]
      BY <1>1, <2>1, <1>2, <3>1, SubSeqProperties
    <3> QED BY <3>2, <3>3, <3>4, <2>8
  <2>12. DOMAIN slots' = 1 .. Len(slots) /\ DOMAIN roots' = 1 .. Len(slots)
         /\ DOMAIN free' = 1 .. n - 1
    BY <2>9, <2>10, <2>11, <1>1, LenProperties
  <2>13. \A k \in 1 .. n - 1 : free[k] # free[n]
    <3> TAKE k \in 1 .. n - 1
    <3>1. n \in Nat /\ n > 0 /\ DOMAIN free = 1 .. n
      BY <2>1, <1>2
    <3> HIDE DEF n
    <3>2. k \in DOMAIN free /\ n \in DOMAIN free /\ k # n
      BY <3>1
    <3> QED BY <3>2, <1>0
  <2>14. DOMAIN slots' = DOMAIN slots \cup {index} /\ DOMAIN roots' = DOMAIN slots'
         /\ Len(roots') = Len(slots')
    BY <2>2, <2>9, <2>10, <2>12, <1>1, <1>2
  <2>15. /\ slots'[index] = Slot(r, generation) /\ roots'[index] = attached + 1
         /\ \A i \in DOMAIN slots \ {index} : slots'[i] = slots[i] /\ roots'[i] = roots[i]
    BY <2>2, <2>9, <2>10, <1>2
  <2>16. free' \in Seq(DOMAIN slots')
    BY <2>11, <2>12, <1>2
  <2>17. \A k \in DOMAIN free' : /\ k \in DOMAIN free /\ free'[k] = free[k]
                                 /\ free'[k] # index
    <3> TAKE k \in DOMAIN free'
    <3>1. n \in Nat /\ n > 0 /\ DOMAIN free = 1 .. n
      BY <2>1, <1>2
    <3>2. k \in 1 .. n - 1 /\ free'[k] = free[k] /\ free[k] # free[n]
      BY <2>11, <2>12, <2>13
    <3>3. k \in DOMAIN free
      <4> HIDE DEF n
      <4> QED BY <3>1, <3>2
    <3> QED BY <3>2, <3>3, <2>2
  <2>18. \A k \in DOMAIN free : free[k] # index => k \in DOMAIN free'
    BY <2>1, <2>2, <2>12, <1>2
  <2>19. index \in Nat \ {0}
    BY <2>2, <1>2
  <2> QED
    BY <2>3, <2>5, <2>6, <2>9, <2>10, <2>14, <2>15, <2>16, <2>17, <2>18, <2>19 DEF SlotTaken
<1>4. CASE free = <<>>
  <2>1. /\ index = Len(slots) + 1 /\ generation = 0 /\ free' = <<>>
        /\ slots' = Append(slots, Slot(r, 0)) /\ roots' = Append(roots, attached + 1)
    BY <1>4 DEF Alloc
  <2>2. Slot(r, 0) \in SlotType
    BY GenerationsAssumption DEF Slot, SlotType
  <2>3. /\ slots' \in Seq(SlotType) /\ Len(slots') = Len(slots) + 1
        /\ slots'[index] = Slot(r, 0)
        /\ \A i \in 1 .. Len(slots) : slots'[i] = slots[i]
    BY <2>1, <2>2, <1>1, AppendProperties
  <2>4. /\ roots' \in Seq(Nat) /\ Len(roots') = Len(slots) + 1
        /\ roots'[index] = attached + 1
        /\ \A i \in 1 .. Len(slots) : roots'[i] = roots[i]
    BY <2>1, <1>1, <1>2, AppendProperties
  <2>5. DOMAIN slots' = 1 .. Len(slots) + 1 /\ DOMAIN roots' = 1 .. Len(slots) + 1
    BY <2>3, <2>4, LenProperties
  <2>6. free' \in Seq(DOMAIN slots') /\ DOMAIN free' = {} /\ DOMAIN free = {}
    BY <2>1, <1>4, EmptySeq
  <2> QED
    BY <2>1, <2>3, <2>4, <2>5, <2>6, <1>1, <1>2, GenerationsAssumption DEF SlotTaken
<1> QED BY <1>3, <1>4

(* What release_context_procs does to them.                                *)
SlotsReleased(r) ==
  /\ slots' \in Seq(SlotType) /\ Len(slots') = Len(slots) /\ DOMAIN slots' = DOMAIN slots
  /\ roots' \in Seq(0 .. MaxAttach) /\ Len(roots') = Len(slots')
  /\ \A i \in DOMAIN slots :
        /\ slots'[i].realm = slots[i].realm
        /\ slots'[i].generation = slots[i].generation
        /\ slots'[i].live <=> slots[i].live /\ slots[i].realm # r
        /\ roots'[i] = IF slots[i].realm = r /\ slots[i].live THEN NoProc ELSE roots[i]
  /\ free' \in Seq(DOMAIN slots')
  /\ \A k \in DOMAIN free : k \in DOMAIN free' /\ free'[k] = free[k]
  /\ \A k \in DOMAIN free' \ DOMAIN free : free'[k] \in Released(r)
  /\ \A i \in Released(r) : \E k \in DOMAIN free' : free'[k] = i
  /\ \A j, k \in DOMAIN free' \ DOMAIN free : free'[j] = free'[k] => j = k

(* release_context_procs: the live slots of the realm, and no other, die,  *)
(* lose their proc and go on the free list once.                           *)
LEMMA ReleaseTakes ==
  ASSUME IndInv, NEW r \in Realms, Release(r)
  PROVE  SlotsReleased(r)
<1>1. /\ slots \in Seq(SlotType) /\ roots \in Seq(0 .. MaxAttach) /\ Len(roots) = Len(slots)
      /\ free \in Seq(DOMAIN slots) /\ MaxAttach \in Nat
  BY MaxAttachAssumption DEF IndInv, TypeOK
<1>2. /\ Len(slots) \in Nat /\ DOMAIN slots = 1 .. Len(slots) /\ DOMAIN roots = 1 .. Len(slots)
      /\ Len(free) \in Nat /\ DOMAIN free = 1 .. Len(free)
      /\ \A i \in 1 .. Len(slots) : slots[i] \in SlotType /\ roots[i] \in 0 .. MaxAttach
  BY <1>1, LenProperties, ElementOfSeq
<1>3. PICK s \in InOrder(Released(r)) :
        /\ slots' = [i \in DOMAIN slots |->
              IF i \in Released(r) THEN [slots[i] EXCEPT !.live = FALSE] ELSE slots[i]]
        /\ roots' = [i \in DOMAIN roots |-> IF i \in Released(r) THEN NoProc ELSE roots[i]]
        /\ free' = free \o s
  BY DEF Release
<1>4. Released(r) \in SUBSET Nat /\ Released(r) \subseteq 1 .. Len(slots) /\ IsFiniteSet(Released(r))
  <2>1. Released(r) \subseteq 1 .. Len(slots)
    BY <1>2 DEF Released
  <2>2. IsFiniteSet(1 .. Len(slots))
    BY <1>2, FS_Interval
  <2>3. IsFiniteSet(Released(r))
    BY <2>1, <2>2, FS_Subset
  <2> QED BY <2>1, <2>3, <1>2
<1>5. /\ s \in Seq(Released(r)) /\ Len(s) \in Nat
      /\ \A i \in Released(r) : \E k \in 1 .. Len(s) : s[k] = i
      /\ \A j, k \in 1 .. Len(s) : s[j] = s[k] => j = k
  BY SMTT(30), <1>3, <1>4, InOrderLists
<1>6. \A k \in 1 .. Len(s) : s[k] \in Released(r)
  BY <1>5, ElementOfSeq
<1>7. s \in Seq(DOMAIN slots)
  BY <1>4, <1>5, <1>2
<1>8. /\ free' \in Seq(DOMAIN slots)
      /\ Len(free') = Len(free) + Len(s)
      /\ \A k \in 1 .. Len(free) + Len(s) :
            free'[k] = IF k <= Len(free) THEN free[k] ELSE s[k - Len(free)]
  BY <1>1, <1>3, <1>7, ConcatProperties
<1>9. DOMAIN free' = 1 .. Len(free) + Len(s)
  BY <1>8, LenProperties
<1>10. \A i \in 1 .. Len(slots) :
          /\ slots'[i] = IF i \in Released(r) THEN [slots[i] EXCEPT !.live = FALSE] ELSE slots[i]
          /\ slots'[i] \in SlotType
          /\ roots'[i] = IF i \in Released(r) THEN NoProc ELSE roots[i]
          /\ roots'[i] \in 0 .. MaxAttach
  <2> TAKE i \in 1 .. Len(slots)
  <2>1. slots[i] \in SlotType /\ roots[i] \in 0 .. MaxAttach /\ 0 \in 0 .. MaxAttach
    BY <1>1, <1>2
  <2>2. [slots[i] EXCEPT !.live = FALSE] \in SlotType
    BY <2>1 DEF SlotType
  <2>3. /\ slots'[i] = IF i \in Released(r) THEN [slots[i] EXCEPT !.live = FALSE] ELSE slots[i]
        /\ roots'[i] = IF i \in Released(r) THEN NoProc ELSE roots[i]
    BY <1>2, <1>3
  <2> QED BY <2>1, <2>2, <2>3 DEF NoProc
<1>11. /\ slots' \in Seq(SlotType) /\ Len(slots') = Len(slots)
       /\ roots' \in Seq(0 .. MaxAttach) /\ Len(roots') = Len(slots)
  <2>1. slots' \in [1 .. Len(slots) -> SlotType] /\ roots' \in [1 .. Len(slots) -> 0 .. MaxAttach]
    BY <1>2, <1>3, <1>10
  <2> QED BY <2>1, <1>2, FunctionIsSeq
<1>12. DOMAIN slots' = DOMAIN slots
  BY <1>3
<1>13. \A i \in DOMAIN slots :
               /\ slots'[i].realm = slots[i].realm
               /\ slots'[i].generation = slots[i].generation
               /\ slots'[i].live <=> slots[i].live /\ slots[i].realm # r
               /\ roots'[i] = IF slots[i].realm = r /\ slots[i].live THEN NoProc ELSE roots[i]
  <2> TAKE i \in DOMAIN slots
  <2>1. i \in Released(r) <=> slots[i].realm = r /\ slots[i].live
    BY DEF Released
  <2>2. slots[i] \in SlotType
    BY <1>2
  <2> QED BY <2>1, <2>2, <1>2, <1>10 DEF SlotType
<1>14. \A k \in DOMAIN free : k \in DOMAIN free' /\ free'[k] = free[k]
  BY <1>2, <1>5, <1>8, <1>9
<1>15. \A k \in DOMAIN free' \ DOMAIN free :
          k - Len(free) \in 1 .. Len(s) /\ free'[k] = s[k - Len(free)]
  BY SMTT(30), <1>2, <1>5, <1>8, <1>9
<1>16. \A i \in Released(r) : \E k \in DOMAIN free' : free'[k] = i
  <2> TAKE i \in Released(r)
  <2>1. PICK k \in 1 .. Len(s) : s[k] = i
    BY <1>5
  <2>2. Len(free) + k \in DOMAIN free' /\ free'[Len(free) + k] = i
    <3>1. Len(free) + k \in 1 .. Len(free) + Len(s) /\ ~(Len(free) + k <= Len(free))
      BY SMTT(30), <1>2, <1>5
    <3>2. Len(free) + k - Len(free) = k
      BY <1>2, <1>5
    <3> QED BY <2>1, <3>1, <3>2, <1>8, <1>9
  <2> QED BY <2>2
<1>17. \A j, k \in DOMAIN free' \ DOMAIN free : free'[j] = free'[k] => j = k
  <2> SUFFICES ASSUME NEW j \in DOMAIN free' \ DOMAIN free, NEW k \in DOMAIN free' \ DOMAIN free,
                      free'[j] = free'[k]
               PROVE  j = k
    OBVIOUS
  <2>1. j - Len(free) = k - Len(free)
    <3>1. PICK a, b : a = j - Len(free) /\ b = k - Len(free)
      OBVIOUS
    <3>2. a \in 1 .. Len(s) /\ b \in 1 .. Len(s) /\ s[a] = s[b]
      BY <1>15, <3>1
    <3> QED BY <1>5, <3>1, <3>2
  <2> QED BY <2>1, <1>2, <1>5, <1>9
<1> QED
  BY <1>6, <1>8, <1>11, <1>12, <1>13, <1>14, <1>15, <1>16, <1>17 DEF SlotsReleased

-----------------------------------------------------------------------------
(* The invariant holds of a new isolate.                                   *)
LEMMA IndInvInit == Init => IndInv
<1> SUFFICES ASSUME Init PROVE IndInv
  OBVIOUS
<1>1. slots = <<>> /\ free = <<>> /\ roots = <<>> /\ DOMAIN slots = {} /\ DOMAIN free = {}
  BY DEF Init
<1>2. TypeOK
  <2>1. /\ slots \in Seq(SlotType) /\ roots \in Seq(0 .. MaxAttach)
        /\ free \in Seq(DOMAIN slots) /\ Len(roots) = Len(slots)
    BY <1>1, EmptySeq
  <2>2. epoch \in [Realms -> Nat] /\ created \subseteq Realms /\ known \subseteq created
        /\ fns \subseteq FnType /\ live \in BOOLEAN
    BY DEF Init
  <2>3. attached \in 0 .. MaxAttach
    BY MaxAttachAssumption DEF Init
  <2> QED BY <2>1, <2>2, <2>3 DEF TypeOK
<1>3. KeysKnown /\ GenerationsFit /\ Occupants /\ StandingCurrent
  BY <1>1 DEF Init, KeysKnown, GenerationsFit, Occupants, StandingCurrent
<1>4. SlotsAccounted
  BY <1>1 DEF SlotsAccounted
<1> QED BY <1>2, <1>3, <1>4 DEF IndInv

(* attach keeps it: a new function is the only one with its slot's         *)
(* generation, and no function has the slot that was released.             *)
LEMMA AttachKeeps ==
  ASSUME IndInv, NEW r \in Realms, NEW reachable \in BOOLEAN, Attach(r, reachable)
  PROVE  IndInv'
<1>1. PICK index \in 1 .. Len(slots) + 1, generation \in 0 .. Generations - 1 :
        /\ Alloc(r, index, generation)
        /\ fns' = IF r \in known /\ reachable
                  THEN fns \cup {[index |-> index, generation |-> generation,
                                  proc |-> attached + 1, realm |-> r, epoch |-> epoch[r]]}
                  ELSE fns
  BY DEF Attach
<1> DEFINE g == [index |-> index, generation |-> generation,
                 proc |-> attached + 1, realm |-> r, epoch |-> epoch[r]]
<1>2. /\ live /\ r \in created /\ attached < MaxAttach /\ attached' = attached + 1
      /\ epoch' = epoch /\ created' = created /\ known' = known /\ live' = live
  BY DEF Attach
<1>3. /\ slots \in Seq(SlotType) /\ roots \in Seq(0 .. MaxAttach) /\ Len(roots) = Len(slots)
      /\ free \in Seq(DOMAIN slots)
      /\ fns \subseteq FnType /\ epoch \in [Realms -> Nat]
      /\ created \subseteq Realms /\ known \subseteq created
      /\ attached \in Nat /\ attached <= MaxAttach /\ MaxAttach \in Nat /\ Generations \in Nat
      /\ DOMAIN slots = 1 .. Len(slots) /\ Len(slots) \in Nat
      /\ DOMAIN roots = 1 .. Len(slots)
  BY MaxAttachAssumption, GenerationsAssumption, LenProperties DEF IndInv, TypeOK
<1>4. index \in Nat /\ generation \in Nat
  BY <1>1, <1>3
<1>0. SlotTaken(r, index, generation)
  BY <1>1, <1>2, <1>4, AllocTakes
<1>5. /\ index \in Nat \ {0}
      /\ generation \in 0 .. Generations - 1
      /\ generation <= attached
      /\ slots' \in Seq(SlotType) /\ DOMAIN slots' = DOMAIN slots \cup {index}
      /\ roots' \in Seq(Nat) /\ DOMAIN roots' = DOMAIN slots'
      /\ Len(roots') = Len(slots')
      /\ slots'[index] = Slot(r, generation)
      /\ roots'[index] = attached + 1
      /\ \A i \in DOMAIN slots \ {index} : slots'[i] = slots[i] /\ roots'[i] = roots[i]
      /\ index \in DOMAIN slots =>
            ~slots[index].live /\ generation = slots[index].generation + 1
  BY <1>0, <1>1 DEF SlotTaken
<1>6. /\ free' \in Seq(DOMAIN slots')
      /\ \A k \in DOMAIN free' : /\ k \in DOMAIN free /\ free'[k] = free[k]
                                 /\ free'[k] # index
      /\ \A k \in DOMAIN free : free[k] # index => k \in DOMAIN free'
  BY <1>0 DEF SlotTaken
<1>7. /\ slots'[index].realm = r /\ slots'[index].live /\ slots'[index].generation = generation
  BY <1>5 DEF Slot
<1>8. fns' \subseteq fns \cup {g} /\ fns \subseteq fns' /\ (g \in fns \/ g \notin fns' \/ r \in known)
  <2> HIDE DEF g
  <2> QED BY <1>1 DEF g
<1>9. \A i \in DOMAIN slots : slots[i].generation \in Nat /\ slots[i].generation < attached
  <2>1. \A i \in DOMAIN slots : slots[i] \in SlotType
    BY <1>3, ElementOfSeq
  <2> QED BY <2>1, <1>3 DEF SlotType, IndInv, GenerationsFit
<1>10. \A f \in fns : /\ f.index \in Nat /\ f.generation \in Nat /\ f.proc \in Nat /\ f.epoch \in Nat
                      /\ f.proc <= attached /\ f.realm \in created /\ f.epoch <= epoch[f.realm]
                      /\ f.index \in DOMAIN slots
                      /\ f.generation <= slots[f.index].generation
  BY <1>2, <1>3 DEF IndInv, KeysKnown, FnType
<1>11. /\ g.index = index /\ g.generation = generation /\ g.proc = attached + 1
       /\ g.realm = r /\ g.epoch = epoch[r]
  OBVIOUS
<1>12. \A f \in fns : f.index = index => f.generation < generation
  BY <1>4, <1>5, <1>9, <1>10
<1>13. TypeOK'
  <2>1. \A i \in 1 .. Len(slots') : roots'[i] \in 0 .. MaxAttach
    <3> TAKE i \in 1 .. Len(slots')
    <3>1. i \in DOMAIN slots'
      BY <1>5, LenProperties
    <3>2. CASE i = index
      BY <3>2, <1>2, <1>3, <1>5
    <3>3. CASE i # index
      <4>1. i \in DOMAIN slots /\ roots'[i] = roots[i]
        BY <3>1, <3>3, <1>5
      <4> QED BY <4>1, <1>3, ElementOfSeq
    <3> QED BY <3>2, <3>3
  <2>2. roots' \in Seq(0 .. MaxAttach)
    <3>1. DOMAIN roots' = 1 .. Len(roots') /\ Len(roots') \in Nat /\ roots' \in [1 .. Len(roots') -> Nat]
      BY <1>5, LenProperties
    <3>2. roots' \in [1 .. Len(roots') -> 0 .. MaxAttach]
      BY <3>1, <2>1, <1>5
    <3> QED BY <3>1, <3>2, FunctionIsSeq
  <2>3. g \in FnType
    BY <1>2, <1>3, <1>5 DEF FnType
  <2>4. fns' \subseteq FnType
    BY <2>3, <1>3, <1>8
  <2>5. attached' \in 0 .. MaxAttach
    BY <1>2, <1>3
  <2>6. epoch' \in [Realms -> Nat] /\ created' \subseteq Realms /\ known' \subseteq created'
        /\ live' \in BOOLEAN
    BY <1>2, <1>3 DEF IndInv, TypeOK
  <2> QED BY <2>2, <2>4, <2>5, <2>6, <1>5, <1>6 DEF TypeOK
<1>14. KeysKnown'
  <2> SUFFICES ASSUME NEW f \in fns'
               PROVE  /\ f.proc <= attached' /\ f.realm \in created' /\ f.epoch <= epoch'[f.realm]
                      /\ f.index \in DOMAIN slots' /\ f.generation <= slots'[f.index].generation
    BY DEF KeysKnown
  <2>1. CASE f \in fns
    <3>1. f.proc <= attached' /\ f.realm \in created' /\ f.epoch <= epoch'[f.realm]
      BY <2>1, <1>2, <1>3, <1>10
    <3>2. f.index \in DOMAIN slots' /\ f.generation <= slots'[f.index].generation
      BY <2>1, <1>4, <1>5, <1>7, <1>10, <1>12
    <3> QED BY <3>1, <3>2
  <2>2. CASE f = g
    BY <2>2, <1>2, <1>3, <1>4, <1>5, <1>7, <1>11
  <2> QED BY <2>1, <2>2, <1>8
<1>15. GenerationsFit'
  BY SMTT(30), <1>2, <1>3, <1>4, <1>5, <1>7, <1>9 DEF GenerationsFit
<1>16. Occupants'
  <2> SUFFICES ASSUME NEW f \in fns', f.index \in DOMAIN slots',
                      f.generation = slots'[f.index].generation
               PROVE  slots'[f.index].realm = f.realm /\ roots'[f.index] \in {f.proc, NoProc}
    BY DEF Occupants
  <2>1. CASE f \in fns
    <3>1. f.index # index
      BY <2>1, <1>4, <1>7, <1>10, <1>12
    <3>2. /\ f.index \in DOMAIN slots /\ slots'[f.index] = slots[f.index]
          /\ roots'[f.index] = roots[f.index]
      BY <3>1, <1>5
    <3> QED BY <2>1, <3>2 DEF IndInv, Occupants
  <2>2. CASE f = g
    BY <2>2, <1>5, <1>7, <1>11
  <2> QED BY <2>1, <2>2, <1>8
<1>17. StandingCurrent'
  <2> SUFFICES ASSUME NEW f \in fns', Stands(f)'
               PROVE  CurrentKey(f.index, f.generation)'
    BY DEF StandingCurrent
  <2>1. CASE f \in fns
    <3>1. CurrentKey(f.index, f.generation)
      BY <2>1, <1>2 DEF IndInv, StandingCurrent, Stands
    <3>2. f.index # index
      BY <3>1, <1>5 DEF CurrentKey
    <3> QED BY <3>1, <3>2, <1>5 DEF CurrentKey
  <2>2. CASE f = g
    BY <2>2, <1>5, <1>7, <1>11 DEF CurrentKey
  <2> QED BY <2>1, <2>2, <1>8
<1>18. SlotsAccounted'
  <2>1. \A i \in DOMAIN slots' : slots'[i].live <=> roots'[i] # NoProc
    BY SMTT(30), <1>3, <1>5, <1>7 DEF IndInv, SlotsAccounted, NoProc
  <2>2. ASSUME NEW i \in DOMAIN slots'
        PROVE  ~slots'[i].live <=> \E k \in DOMAIN free' : free'[k] = i
    <3>1. CASE i = index
      BY <3>1, <1>6, <1>7
    <3>2. CASE i # index
      <4>1. i \in DOMAIN slots /\ slots'[i] = slots[i]
        BY <3>2, <1>5
      <4>2. ~slots[i].live <=> \E k \in DOMAIN free : free[k] = i
        BY <4>1 DEF IndInv, SlotsAccounted
      <4>3. (\E k \in DOMAIN free : free[k] = i) <=> (\E k \in DOMAIN free' : free'[k] = i)
        BY <3>2, <1>6
      <4> QED BY <4>1, <4>2, <4>3
    <3> QED BY <3>1, <3>2
  <2>3. \A j, k \in DOMAIN free' : free'[j] = free'[k] => j = k
    <3>1. \A j, k \in DOMAIN free : free[j] = free[k] => j = k
      BY DEF IndInv, SlotsAccounted
    <3> QED BY <3>1, <1>6
  <2> QED BY <2>1, <2>2, <2>3 DEF SlotsAccounted
<1> QED BY <1>13, <1>14, <1>15, <1>16, <1>17, <1>18 DEF IndInv

(* Reset and dispose of a realm keep it, whether or not the thread is      *)
(* interrupted before the release: no function of the realm stands then.   *)
LEMMA ReleasingKeeps ==
  ASSUME IndInv, NEW r \in Realms, NEW interrupted \in BOOLEAN,
         ReleaseUnless(interrupted, r),
         UNCHANGED <<fns, created, attached, live>>,
         epoch' \in [Realms -> Nat], \A q \in Realms : epoch[q] <= epoch'[q],
         known' \subseteq known,
         \A f \in fns : Stands(f)' => Stands(f) /\ f.realm # r
  PROVE  IndInv'
<1>1. /\ slots \in Seq(SlotType) /\ roots \in Seq(0 .. MaxAttach) /\ Len(roots) = Len(slots)
      /\ free \in Seq(DOMAIN slots) /\ Len(free) \in Nat /\ DOMAIN free = 1 .. Len(free)
      /\ fns \subseteq FnType /\ epoch \in [Realms -> Nat]
      /\ created \subseteq Realms /\ known \subseteq created
      /\ attached \in 0 .. MaxAttach
  BY LenProperties DEF IndInv, TypeOK
<1>2. KeysKnown /\ GenerationsFit /\ Occupants /\ StandingCurrent /\ SlotsAccounted
  BY DEF IndInv
<1>3. \A f \in fns : f.epoch <= epoch'[f.realm]
  BY <1>1, <1>2 DEF KeysKnown, FnType
<1>4. CASE interrupted
  <2>1. UNCHANGED <<slots, roots, free>>
    BY <1>4 DEF ReleaseUnless
  <2>2. TypeOK'
    BY <2>1, <1>1 DEF IndInv, TypeOK
  <2>3. KeysKnown' /\ GenerationsFit' /\ Occupants' /\ SlotsAccounted'
    BY <2>1, <1>2, <1>3 DEF KeysKnown, GenerationsFit, Occupants, SlotsAccounted
  <2>4. StandingCurrent'
    BY <2>1, <1>2 DEF StandingCurrent, CurrentKey
  <2> QED BY <2>2, <2>3, <2>4 DEF IndInv
<1>5. CASE ~interrupted
  <2>1. SlotsReleased(r)
    BY <1>5, ReleaseTakes DEF ReleaseUnless
  <2>2. /\ slots' \in Seq(SlotType) /\ DOMAIN slots' = DOMAIN slots
        /\ \A i \in DOMAIN slots :
              /\ slots'[i].realm = slots[i].realm
              /\ slots'[i].generation = slots[i].generation
              /\ slots'[i].live <=> slots[i].live /\ slots[i].realm # r
              /\ roots'[i] = IF slots[i].realm = r /\ slots[i].live THEN NoProc ELSE roots[i]
    BY <2>1 DEF SlotsReleased
  <2>3. TypeOK'
    BY <2>1, <1>1 DEF SlotsReleased, IndInv, TypeOK
  <2>4. KeysKnown' /\ GenerationsFit'
    BY <2>2, <1>2, <1>3 DEF KeysKnown, GenerationsFit
  <2>5. Occupants'
    BY <2>2, <1>2 DEF Occupants
  <2>6. StandingCurrent'
    <3> SUFFICES ASSUME live, NEW f \in fns, Stands(f)'
                 PROVE  CurrentKey(f.index, f.generation)'
      BY DEF StandingCurrent
    <3>1. CurrentKey(f.index, f.generation) /\ f.realm # r
      BY <1>2 DEF StandingCurrent
    <3>2. slots[f.index].realm = f.realm
      BY <3>1, <1>2 DEF Occupants, CurrentKey
    <3> QED BY <3>1, <3>2, <2>2 DEF CurrentKey
  <2>7. SlotsAccounted'
    <3>1. \A i \in DOMAIN slots' : slots'[i].live <=> roots'[i] # NoProc
      BY <2>2, <1>2 DEF SlotsAccounted
    <3>2. /\ \A k \in DOMAIN free : k \in DOMAIN free' /\ free'[k] = free[k]
          /\ \A k \in DOMAIN free' \ DOMAIN free : free'[k] \in Released(r)
          /\ \A i \in Released(r) : \E k \in DOMAIN free' : free'[k] = i
          /\ \A j, k \in DOMAIN free' \ DOMAIN free : free'[j] = free'[k] => j = k
      BY <2>1 DEF SlotsReleased
    <3>3. /\ \A i \in DOMAIN slots : ~slots[i].live <=> \E k \in DOMAIN free : free[k] = i
          /\ \A j, k \in DOMAIN free : free[j] = free[k] => j = k
          /\ \A k \in DOMAIN free : free[k] \in DOMAIN slots
      BY <1>1, <1>2, ElementOfSeq DEF SlotsAccounted
    <3>4. \A i \in DOMAIN slots : i \in Released(r) <=> slots[i].realm = r /\ slots[i].live
      BY DEF Released
    <3>5. ASSUME NEW i \in DOMAIN slots
          PROVE  ~slots'[i].live <=> \E k \in DOMAIN free' : free'[k] = i
      <4>1. ~slots'[i].live <=> ~slots[i].live \/ i \in Released(r)
        BY <3>4, <2>2
      <4>2. ASSUME ~slots[i].live PROVE \E k \in DOMAIN free' : free'[k] = i
        BY <4>2, <3>2, <3>3
      <4>3. ASSUME NEW k \in DOMAIN free', free'[k] = i
            PROVE  ~slots[i].live \/ i \in Released(r)
        BY <4>3, <3>2, <3>3
      <4> QED BY <4>1, <4>2, <4>3, <3>2
    <3>6. ASSUME NEW j \in DOMAIN free', NEW k \in DOMAIN free', free'[j] = free'[k]
          PROVE  j = k
      <4>1. CASE j \in DOMAIN free /\ k \in DOMAIN free
        BY <4>1, <3>2, <3>3, <3>6
      <4>2. CASE j \notin DOMAIN free /\ k \notin DOMAIN free
        BY <4>2, <3>2, <3>6
      <4>3. ASSUME NEW x \in DOMAIN free, NEW y \in DOMAIN free' \ DOMAIN free
            PROVE  free'[x] # free'[y]
        <5>1. free'[x] \in DOMAIN slots /\ ~slots[free'[x]].live
          BY <3>2, <3>3
        <5>2. slots[free'[y]].live
          BY <3>2 DEF Released
        <5> QED BY <5>1, <5>2
      <4> QED BY <4>1, <4>2, <4>3, <3>6
    <3> QED BY <3>1, <3>5, <3>6, <2>2 DEF SlotsAccounted
  <2> QED BY <2>3, <2>4, <2>5, <2>6, <2>7 DEF IndInv
<1> QED BY <1>4, <1>5

(* Every step keeps the invariant.                                         *)
LEMMA IndInvStep == IndInv /\ [Next]_vars => IndInv'
<1> SUFFICES ASSUME IndInv, [Next]_vars PROVE IndInv'
  OBVIOUS
<1>1. /\ fns \subseteq FnType /\ epoch \in [Realms -> Nat]
      /\ created \subseteq Realms /\ known \subseteq created
  BY DEF IndInv, TypeOK
<1>2. \A f \in fns : f.realm \in Realms /\ f.realm \in created /\ f.epoch <= epoch[f.realm]
                     /\ f.epoch \in Nat
  BY <1>1 DEF IndInv, KeysKnown, FnType
<1>3. ASSUME NEW r \in Realms, CreateContext(r) PROVE IndInv'
  <2>1. /\ UNCHANGED <<slots, free, roots, fns, epoch, attached, live>>
        /\ r \notin created /\ created' = created \cup {r} /\ known' = known \cup {r}
    BY <1>3 DEF CreateContext
  <2>2. TypeOK' /\ GenerationsFit' /\ Occupants' /\ SlotsAccounted'
    BY <2>1, <1>1 DEF IndInv, TypeOK, GenerationsFit, Occupants, SlotsAccounted
  <2>3. KeysKnown'
    BY <2>1 DEF IndInv, KeysKnown
  <2>4. StandingCurrent'
    BY <2>1, <1>2 DEF IndInv, StandingCurrent, Stands, CurrentKey
  <2> QED BY <2>2, <2>3, <2>4 DEF IndInv
<1>4. ASSUME NEW r \in Realms, NEW reachable \in BOOLEAN, Attach(r, reachable) PROVE IndInv'
  BY <1>4, AttachKeeps
<1>5. ASSUME NEW r \in Realms, NEW i \in Interrupts, Reset(r, i) PROVE IndInv'
  <2>1. /\ i \in BOOLEAN /\ ReleaseUnless(i, r)
        /\ epoch' = [epoch EXCEPT ![r] = @ + 1] /\ known' = known
        /\ UNCHANGED <<fns, created, attached, live>>
    BY <1>5, InterruptsAssumption DEF Reset
  <2>2. epoch' \in [Realms -> Nat] /\ \A q \in Realms : epoch[q] <= epoch'[q]
    BY <2>1, <1>1
  <2>3. \A f \in fns : Stands(f)' => Stands(f) /\ f.realm # r
    BY <2>1, <1>1, <1>2 DEF Stands
  <2> QED BY <2>1, <2>2, <2>3, ReleasingKeeps
<1>6. ASSUME NEW r \in Realms, NEW i \in Interrupts, DisposeContext(r, i) PROVE IndInv'
  <2>1. /\ i \in BOOLEAN /\ ReleaseUnless(i, r)
        /\ epoch' = epoch /\ known' = known \ {r}
        /\ UNCHANGED <<fns, created, attached, live>>
    BY <1>6, InterruptsAssumption DEF DisposeContext
  <2>2. epoch' \in [Realms -> Nat] /\ \A q \in Realms : epoch[q] <= epoch'[q]
    BY <2>1, <1>1
  <2>3. \A f \in fns : Stands(f)' => Stands(f) /\ f.realm # r
    BY <2>1, <1>1, <1>2 DEF Stands
  <2> QED BY <2>1, <2>2, <2>3, ReleasingKeeps
<1>7. CASE DisposeIsolate
  <2>1. /\ slots' = <<>> /\ free' = <<>> /\ roots' = <<>> /\ live' = FALSE
        /\ UNCHANGED <<fns, epoch, created, known, attached>>
    BY <1>7 DEF DisposeIsolate
  <2>2. /\ slots' \in Seq(SlotType) /\ roots' \in Seq(0 .. MaxAttach)
        /\ free' \in Seq(DOMAIN slots') /\ DOMAIN slots' = {} /\ DOMAIN free' = {}
        /\ Len(roots') = Len(slots')
    BY <2>1, EmptySeq
  <2> QED
    BY <2>1, <2>2
    DEF IndInv, TypeOK, KeysKnown, GenerationsFit, Occupants, StandingCurrent, SlotsAccounted
<1>8. CASE UNCHANGED vars
  BY <1>8
  DEF vars, IndInv, TypeOK, KeysKnown, GenerationsFit, Occupants, StandingCurrent, SlotsAccounted,
      Stands, CurrentKey
<1> QED BY <1>3, <1>4, <1>5, <1>6, <1>7, <1>8 DEF Next

(* Types, what a key is to its slot, and the accounts of the table hold in *)
(* every state.                                                            *)
THEOREM HostFnsInvariant == Spec => []IndInv
BY IndInvInit, IndInvStep, PTL DEF Spec

(* However often realms are reset and slots handed on, a function never    *)
(* runs a proc attached as another one.                                    *)
THEOREM NeverRunsAnother == Spec => []NeverAnotherProc
<1>1. IndInv => NeverAnotherProc
  BY DEF IndInv, Occupants, NeverAnotherProc, Answer, CurrentKey, Unknown
<1> QED BY <1>1, HostFnsInvariant, PTL

(* A function of a realm that stands runs its proc, whatever is released   *)
(* elsewhere.                                                              *)
THEOREM StandingFunctionsAnswer == Spec => []OwnFnsAnswer
<1>1. ASSUME IndInv, live, NEW f \in fns, f.realm \in known, f.epoch = epoch[f.realm]
      PROVE  Answer(f) = f.proc
  <2>1. CurrentKey(f.index, f.generation)
    BY <1>1 DEF IndInv, StandingCurrent, Stands
  <2>2. roots[f.index] \in {f.proc, NoProc} /\ roots[f.index] # NoProc
    BY <1>1, <2>1 DEF IndInv, Occupants, SlotsAccounted, CurrentKey
  <2> QED BY <2>1, <2>2 DEF Answer
<1>2. IndInv => OwnFnsAnswer
  BY <1>1 DEF OwnFnsAnswer
<1> QED BY <1>2, HostFnsInvariant, PTL

(* The free list and the roots array account for every slot.               *)
THEOREM SlotsAreAccounted == Spec => []SlotsAccounted
<1>1. IndInv => SlotsAccounted
  BY DEF IndInv
<1> QED BY <1>1, HostFnsInvariant, PTL

-----------------------------------------------------------------------------
(* The release runs with every reset and dispose, when no interrupt can    *)
(* take the thread away as the request returns.                            *)
ReleasesRun == Interrupts \subseteq {FALSE}

(* A function whose key is its slot's is one of a realm that stands.       *)
CurrentStand == \A f \in fns : CurrentKey(f.index, f.generation) => Stands(f)

(* attach: the new function stands; an old one has another slot, or an     *)
(* older generation of this one.                                           *)
LEMMA AttachStands ==
  ASSUME IndInv, CurrentStand, NEW r \in Realms, NEW reachable \in BOOLEAN,
         Attach(r, reachable)
  PROVE  CurrentStand'
<1>1. PICK index \in 1 .. Len(slots) + 1, generation \in 0 .. Generations - 1 :
        /\ Alloc(r, index, generation)
        /\ fns' = IF r \in known /\ reachable
                  THEN fns \cup {[index |-> index, generation |-> generation,
                                  proc |-> attached + 1, realm |-> r, epoch |-> epoch[r]]}
                  ELSE fns
  BY DEF Attach
<1>2. /\ live /\ attached < MaxAttach /\ epoch' = epoch /\ known' = known
  BY DEF Attach
<1>3. /\ slots \in Seq(SlotType) /\ Len(slots) \in Nat /\ Generations \in Nat
      /\ DOMAIN slots = 1 .. Len(slots)
  BY GenerationsAssumption, LenProperties DEF IndInv, TypeOK
<1>4. index \in Nat /\ generation \in Nat
  BY <1>1, <1>3
<1>5. SlotTaken(r, index, generation)
  BY <1>1, <1>2, <1>4, AllocTakes
<1>6. /\ slots'[index].generation = generation
      /\ \A i \in DOMAIN slots \ {index} : slots'[i] = slots[i]
      /\ index \in DOMAIN slots => generation = slots[index].generation + 1
      /\ DOMAIN slots' = DOMAIN slots \cup {index}
  BY <1>5 DEF SlotTaken, Slot
<1> SUFFICES ASSUME NEW f \in fns', CurrentKey(f.index, f.generation)'
             PROVE  Stands(f)'
  BY DEF CurrentStand
<1>7. CASE f \in fns
  <2>1. /\ f.index \in DOMAIN slots /\ f.generation <= slots[f.index].generation
        /\ f.generation \in Nat /\ slots[f.index].generation \in Nat
    <3>1. fns \subseteq FnType
      BY DEF IndInv, TypeOK
    <3>2. f.index \in DOMAIN slots /\ f.generation <= slots[f.index].generation
      BY <1>2, <1>7 DEF IndInv, KeysKnown
    <3>3. slots[f.index] \in SlotType
      BY <3>2, <1>3, ElementOfSeq
    <3> QED BY <3>1, <3>2, <3>3, <1>3, <1>7 DEF FnType, SlotType
  <2>2. f.index # index
    <3> SUFFICES ASSUME f.index = index PROVE FALSE
      OBVIOUS
    <3>1. f.generation = slots[index].generation + 1
      BY <2>1, <1>6 DEF CurrentKey
    <3> QED BY <2>1, <3>1
  <2>3. CurrentKey(f.index, f.generation)
    BY <2>1, <2>2, <1>6 DEF CurrentKey
  <2> QED BY <2>3, <1>2, <1>7 DEF CurrentStand, Stands
<1>8. CASE f \notin fns
  <2>1. r \in known /\ f.realm = r /\ f.epoch = epoch[r]
    BY <1>1, <1>8
  <2> QED BY <2>1, <1>2 DEF Stands
<1> QED BY <1>7, <1>8

(* Reset and dispose of a realm: its live slots die, and a function whose  *)
(* key is still current is of another realm, which stands as it stood.     *)
LEMMA ReleaseStands ==
  ASSUME IndInv, CurrentStand, NEW r \in Realms, Release(r), fns' = fns,
         \A f \in fns : Stands(f) /\ f.realm # r => Stands(f)'
  PROVE  CurrentStand'
<1>1. SlotsReleased(r)
  BY ReleaseTakes
<1>2. /\ DOMAIN slots' = DOMAIN slots
      /\ \A i \in DOMAIN slots :
            /\ slots'[i].generation = slots[i].generation
            /\ slots'[i].live <=> slots[i].live /\ slots[i].realm # r
  BY <1>1 DEF SlotsReleased
<1> SUFFICES ASSUME NEW f \in fns, CurrentKey(f.index, f.generation)'
             PROVE  Stands(f)'
  BY DEF CurrentStand
<1>3. CurrentKey(f.index, f.generation) /\ slots[f.index].realm # r
  BY <1>2 DEF CurrentKey
<1>4. slots[f.index].realm = f.realm
  BY <1>3 DEF IndInv, Occupants, CurrentKey
<1> QED BY <1>3, <1>4 DEF CurrentStand

(* Every step keeps it, where the releases run.                            *)
LEMMA CurrentStandStep ==
  ASSUME ReleasesRun, IndInv, CurrentStand, [Next]_vars
  PROVE  CurrentStand'
<1>1. /\ fns \subseteq FnType /\ epoch \in [Realms -> Nat]
  BY DEF IndInv, TypeOK
<1>2. ASSUME NEW r \in Realms, CreateContext(r) PROVE CurrentStand'
  BY <1>2 DEF CreateContext, CurrentStand, CurrentKey, Stands
<1>3. ASSUME NEW r \in Realms, NEW reachable \in BOOLEAN, Attach(r, reachable)
      PROVE  CurrentStand'
  BY <1>3, AttachStands
<1>4. ASSUME NEW r \in Realms, NEW i \in Interrupts, Reset(r, i) PROVE CurrentStand'
  <2>1. Release(r) /\ epoch' = [epoch EXCEPT ![r] = @ + 1] /\ known' = known /\ fns' = fns
    BY <1>4 DEF Reset, ReleaseUnless, ReleasesRun
  <2>2. \A f \in fns : Stands(f) /\ f.realm # r => Stands(f)'
    BY <1>1, <2>1 DEF Stands, FnType
  <2> QED BY <2>1, <2>2, ReleaseStands
<1>5. ASSUME NEW r \in Realms, NEW i \in Interrupts, DisposeContext(r, i) PROVE CurrentStand'
  <2>1. Release(r) /\ epoch' = epoch /\ known' = known \ {r} /\ fns' = fns
    BY <1>5 DEF DisposeContext, ReleaseUnless, ReleasesRun
  <2>2. \A f \in fns : Stands(f) /\ f.realm # r => Stands(f)'
    BY <2>1 DEF Stands
  <2> QED BY <2>1, <2>2, ReleaseStands
<1>6. CASE DisposeIsolate
  <2>1. DOMAIN slots' = {}
    BY <1>6, EmptySeq DEF DisposeIsolate
  <2> QED BY <2>1 DEF CurrentStand, CurrentKey
<1>7. CASE UNCHANGED vars
  BY <1>7 DEF vars, CurrentStand, CurrentKey, Stands
<1> QED BY <1>2, <1>3, <1>4, <1>5, <1>6, <1>7 DEF Next

(* A function of a realm that was reset or disposed is unknown for ever,   *)
(* whatever its slot is handed to later; an interrupt as the request       *)
(* returns is the one thing that leaves it its proc.                       *)
THEOREM ReleasedFunctionsRefuse ==
  ASSUME ReleasesRun
  PROVE  Spec => []ReleasedRefuse
<1>1. Init => CurrentStand
  BY DEF Init, CurrentStand
<1>2. IndInv /\ CurrentStand /\ [Next]_vars => CurrentStand'
  BY CurrentStandStep
<1>3. CurrentStand => ReleasedRefuse
  BY DEF CurrentStand, ReleasedRefuse, Answer, Stands
<1> QED BY <1>1, <1>2, <1>3, HostFnsInvariant, PTL DEF Spec
=============================================================================
