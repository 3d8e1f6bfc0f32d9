------------------------------- MODULE HostFns ------------------------------
(***************************************************************************)
(* The host functions of one isolate: ProcTable, the roots array and the   *)
(* keys JavaScript functions carry (ext/rusty_racer/src/lib.rs).           *)
(*                                                                         *)
(* attach takes a slot of the table for a Ruby proc, and the JavaScript    *)
(* function keeps <<index, generation>>.  Reset and dispose of its realm   *)
(* release the slot, which a later attach takes over, while JavaScript may *)
(* hold the old function for ever.  Everything here happens on the owner   *)
(* thread with the GVL held; a thread interrupt (Thread#raise, a Timeout)  *)
(* can take it away as the request returns.                                *)
(***************************************************************************)
EXTENDS Integers, Sequences, FiniteSets

CONSTANTS
  Realms,       \* the realm ids
  Generations,  \* how many generations a slot has: 2^32
  MaxAttach,    \* bound: attaches
  MaxResets,    \* bound: resets
  Interrupts    \* whether the thread may be interrupted: a set of BOOLEAN

ASSUME GenerationsAssumption == Generations \in Nat \ {0}
ASSUME MaxAttachAssumption == MaxAttach \in Nat /\ MaxAttach <= Generations
ASSUME MaxResetsAssumption == MaxResets \in Nat
ASSUME InterruptsAssumption == Interrupts \subseteq BOOLEAN

VARIABLES
  slots,     \* ProcTable.slots
  free,      \* ProcTable.free
  roots,     \* the roots array, without the resolver: the proc of each slot
  fns,       \* the JavaScript functions, and the proc each was attached with
  epoch,     \* how often each realm was reset
  created,   \* the realms there have been: an id is never used again
  known,     \* the realms that exist
  attached,  \* how many attaches there were; they number the procs
  live       \* the isolate is not disposed

vars == <<slots, free, roots, fns, epoch, created, known, attached, live>>

NoProc == 0
Unknown == NoProc  \* "unknown host function"

\* ProcTable::current
CurrentKey(index, generation) ==
  /\ index \in DOMAIN slots
  /\ slots[index].live
  /\ slots[index].generation = generation

\* What call_proc runs for a function: the proc in the roots array, or nothing.
Answer(f) == IF CurrentKey(f.index, f.generation) THEN roots[f.index] ELSE Unknown

-----------------------------------------------------------------------------
\* ProcTable::alloc, and the store of the proc at the slot it returns.
Slot(r, g) == [realm |-> r, live |-> TRUE, generation |-> g]

\* Mutant: a reused slot keeps its generation.
AllocKeepingGeneration(r, index, generation) ==
  IF free # <<>>
  THEN /\ index = free[Len(free)] /\ generation = slots[index].generation
       /\ free' = SubSeq(free, 1, Len(free) - 1)
       /\ slots' = [slots EXCEPT ![index] = Slot(r, generation)]
       /\ roots' = [roots EXCEPT ![index] = attached + 1]
  ELSE /\ index = Len(slots) + 1 /\ generation = 0
       /\ slots' = Append(slots, Slot(r, 0))
       /\ roots' = Append(roots, attached + 1)
       /\ UNCHANGED free

Alloc(r, index, generation) ==
  IF free # <<>>
  THEN /\ index = free[Len(free)] /\ generation = (slots[index].generation + 1) % Generations
       /\ free' = SubSeq(free, 1, Len(free) - 1)
       /\ slots' = [slots EXCEPT ![index] = Slot(r, generation)]
       /\ roots' = [roots EXCEPT ![index] = attached + 1]
  ELSE /\ index = Len(slots) + 1 /\ generation = 0
       /\ slots' = Append(slots, Slot(r, 0))
       /\ roots' = Append(roots, attached + 1)
       /\ UNCHANGED free

(* attach, and each entry of attach_many: the slot and the root are taken  *)
(* before the request, which builds the function only in a realm that      *)
(* exists, and may then fail to set it.                                    *)
Attach(r, reachable) ==
  /\ live
  /\ r \in created
  /\ attached < MaxAttach
  /\ attached' = attached + 1
  /\ \E index \in 1 .. Len(slots) + 1, generation \in 0 .. Generations - 1 :
        /\ Alloc(r, index, generation)
        /\ fns' = IF r \in known /\ reachable
                  THEN fns \cup {[index |-> index, generation |-> generation,
                                  proc |-> attached + 1, realm |-> r, epoch |-> epoch[r]]}
                  ELSE fns
  /\ UNCHANGED <<epoch, created, known, live>>

\* Mutants: the slots of every realm; those released before once more.
ReleasedEverywhere(r) == {i \in DOMAIN slots : slots[i].live}

ReleasedAgain(r) == {i \in DOMAIN slots : slots[i].realm = r}

(* release_context_procs: the live slots of the realm, first dead, then    *)
(* without a root, then on the free list in the order of the table.        *)
Released(r) == {i \in DOMAIN slots : slots[i].realm = r /\ slots[i].live}

InOrder(S) ==
  {s \in [1 .. Cardinality(S) -> S] : /\ \A j, k \in DOMAIN s : j < k => s[j] < s[k]
                                      /\ \A i \in S : \E k \in DOMAIN s : s[k] = i}

Release(r) ==
  \E released \in InOrder(Released(r)) :
    /\ slots' = [i \in DOMAIN slots |->
                   IF i \in Released(r) THEN [slots[i] EXCEPT !.live = FALSE] ELSE slots[i]]
    /\ roots' = [i \in DOMAIN roots |-> IF i \in Released(r) THEN NoProc ELSE roots[i]]
    /\ free' = free \o released

\* An interrupt raised as the request returns skips the release.
ReleaseUnless(interrupted, r) ==
  IF interrupted THEN UNCHANGED <<slots, roots, free>> ELSE Release(r)

\* Mutant: the realm changes and its host fns stay.
ResetKeepingFns(r, interrupted) ==
  /\ live
  /\ r \in known
  /\ epoch[r] < MaxResets
  /\ epoch' = [epoch EXCEPT ![r] = @ + 1]
  /\ UNCHANGED <<slots, free, roots, fns, created, known, attached, live>>

(* Context#reset, when it is not refused.                                  *)
Reset(r, interrupted) ==
  /\ live
  /\ r \in known
  /\ epoch[r] < MaxResets
  /\ epoch' = [epoch EXCEPT ![r] = @ + 1]
  /\ ReleaseUnless(interrupted, r)
  /\ UNCHANGED <<fns, created, known, attached, live>>

(* Context#dispose, when it is not refused; a second wrapper of the same   *)
(* realm may do it again.                                                  *)
DisposeContext(r, interrupted) ==
  /\ live
  /\ r \in created
  /\ known' = known \ {r}
  /\ ReleaseUnless(interrupted, r)
  /\ UNCHANGED <<fns, epoch, created, attached, live>>

CreateContext(r) ==
  /\ live
  /\ r \notin created
  /\ created' = created \cup {r}
  /\ known' = known \cup {r}
  /\ UNCHANGED <<slots, free, roots, fns, epoch, attached, live>>

(* Isolate#dispose: the table and the roots array are cleared.             *)
DisposeIsolate ==
  /\ live
  /\ live' = FALSE
  /\ slots' = <<>> /\ free' = <<>> /\ roots' = <<>>
  /\ UNCHANGED <<fns, epoch, created, known, attached>>

Init ==
  /\ slots = <<>> /\ free = <<>> /\ roots = <<>>
  /\ fns = {}
  /\ epoch = [r \in Realms |-> 0]
  /\ created = {} /\ known = {}
  /\ attached = 0
  /\ live = TRUE

Next ==
  \/ \E r \in Realms :
        \/ CreateContext(r)
        \/ \E reachable \in BOOLEAN : Attach(r, reachable)
        \/ \E i \in Interrupts : Reset(r, i) \/ DisposeContext(r, i)
  \/ DisposeIsolate

Spec == Init /\ [][Next]_vars
-----------------------------------------------------------------------------
SlotType == [realm : Realms, live : BOOLEAN, generation : 0 .. Generations - 1]

FnType == [index : Nat \ {0}, generation : 0 .. Generations - 1, proc : 1 .. MaxAttach,
           realm : Realms, epoch : Nat]

\* Types, and the sizes that go together: a root for every slot.
TypeOK ==
  /\ slots \in Seq(SlotType)
  /\ roots \in Seq(0 .. MaxAttach) /\ Len(roots) = Len(slots)
  /\ free \in Seq(DOMAIN slots)
  /\ fns \subseteq FnType
  /\ epoch \in [Realms -> Nat]
  /\ created \subseteq Realms /\ known \subseteq created
  /\ attached \in 0 .. MaxAttach
  /\ live \in BOOLEAN

\* A function runs the proc it was attached with or none: never what its slot was
\* handed to after its realm was released, however long JavaScript held it.
NeverAnotherProc == \A f \in fns : Answer(f) \in {f.proc, Unknown}

\* A function of a realm that is as it was when it was attached runs its proc:
\* releasing one realm takes nothing from another.
OwnFnsAnswer ==
  live => \A f \in fns :
     f.realm \in known /\ f.epoch = epoch[f.realm] => Answer(f) = f.proc

\* README on reset, "Host fns are dropped": one the embedder kept hold of "throws
\* `unknown host function` when called", and the isolate stops holding its proc.
ReleasedRefuse ==
  \A f \in fns :
     ~(f.realm \in known /\ f.epoch = epoch[f.realm]) => Answer(f) = Unknown

\* The roots array holds a proc for exactly the slots in use, and the others are
\* on the free list, once each: no proc leaks, and no slot is lost or handed out
\* twice.
SlotsAccounted ==
  /\ \A i \in DOMAIN slots : slots[i].live <=> roots[i] # NoProc
  /\ \A i \in DOMAIN slots : ~slots[i].live <=> \E k \in DOMAIN free : free[k] = i
  /\ \A j, k \in DOMAIN free : free[j] = free[k] => j = k
=============================================================================
