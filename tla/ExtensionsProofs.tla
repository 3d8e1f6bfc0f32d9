-------------------------- MODULE ExtensionsProofs --------------------------
(***************************************************************************)
(* The two specifications that are OpStack with more to each step, for     *)
(* every value of their constants.  What is proved of OpStack holds of     *)
(* them.                                                                   *)
(*                                                                         *)
(* StackScope: while JavaScript runs, the stack limit and the start of the *)
(* GC scan V8 has are of the stack it runs on.  On each isolate the        *)
(* operations nest, whatever Fibers they are on: what was V8's when the    *)
(* operation of each depth began is what it has again when the one around  *)
(* it ends.                                                                *)
(*                                                                         *)
(* Thrown: a host function throws on the value its exception stands for or *)
(* a new Error, and an idle isolate keeps no value.  On one Fiber nothing  *)
(* is yielded, operations nest and with_gvl never stops the process.       *)
(***************************************************************************)
EXTENDS StackScope, Thrown, OpStackProofs

(***************************************************************************)
(* StackScope.                                                             *)
(***************************************************************************)

(* Each step of StackScope is one of OpStack.                              *)
LEMMA ScopeSteps ==
  [ScopeNext]_<<vars, scopeVars>> => [Next]_vars
<1> SUFFICES ASSUME [ScopeNext]_<<vars, scopeVars>>
             PROVE  [Next]_vars
  OBVIOUS
<1>1. ASSUME NEW i \in Isolates, ScopedStart(i) PROVE Next
  BY <1>1 DEF ScopedStart, Next, IsolateStep
<1>2. ASSUME NEW outcome \in Outcomes, ScopedFinish(outcome) PROVE Next
  <2>1. Finish(outcome)
    BY <1>2 DEF ScopedFinish
  <2> QED BY <2>1 DEF Next
<1>3. ASSUME NEW g \in Fibers, ScopedResume(g) \/ ScopedAbandon(g) PROVE Next
  <2>1. FiberStep(g)
    BY <1>3 DEF ScopedResume, ScopedAbandon, FiberStep
  <2> QED BY <2>1 DEF Next
<1>4. CASE ScopedYield
  BY <1>4 DEF ScopedYield, Next
<1>5. CASE Unscoped
  <2>1. CASE CallRuby \/ ReturnRuby
    BY <2>1 DEF Next
  <2>2. ASSUME NEW i \in Isolates, \/ New(i) \/ Dispose(i) \/ Release(i)
                                   \/ DropDisposed(i) \/ DropForeign(i) \/ DropOnOwner(i)
        PROVE  Next
    <3>1. IsolateStep(i)
      BY <2>2 DEF IsolateStep
    <3> QED BY <3>1 DEF Next
  <2> QED BY <1>5, <2>1, <2>2 DEF Unscoped
<1>6. CASE UNCHANGED <<vars, scopeVars>>
  BY <1>6
<1> QED BY <1>1, <1>2, <1>3, <1>4, <1>5, <1>6 DEF ScopeNext

(* Operations with their StackScopes are operations: what is proved of     *)
(* OpStack holds of them.                                                  *)
THEOREM ScopedOpsNest == ScopeSpec => Spec
<1>1. ScopeInit => Init
  BY DEF ScopeInit
<1> QED BY <1>1, ScopeSteps, PTL DEF ScopeSpec, Spec

(* What OpStack gives: the operations of an isolate nest, and a Fiber that *)
(* was abandoned is off the chain of resumes.                              *)
LEMMA ScopedOpStack == ScopeSpec => [](IndInv /\ AbandonedAreOff)
<1>1. Init => LifeInv /\ LeaksCounted
  <2> SUFFICES ASSUME Init
               PROVE  LifeInv /\ LeaksCounted
    OBVIOUS
  <2>1. LifeTypeOK /\ AbandonedAreOff /\ held \cap dropped = {} /\ created \ disposed \subseteq registry
    BY DEF Init, LifeTypeOK, AbandonedAreOff
  <2>2. UsersKeepIsolates
    BY DEF Init, UsersKeepIsolates
  <2>3. created = {} /\ leaked = 0 /\ (dropped \cap registry) \ disposed = {}
    BY DEF Init
  <2>4. IsFiniteSet(created) /\ LeaksCounted
    BY <2>3, FS_EmptySet DEF LeaksCounted
  <2> QED BY <2>1, <2>2, <2>4 DEF LifeInv
<1>2. IndInv /\ LifeInv => IndInv /\ AbandonedAreOff
  BY DEF LifeInv
<1>3. Spec => [](IndInv /\ LifeInv /\ LeaksCounted)
  BY <1>1, IndInvInit, IndInvInductive, LifeInductive, PTL DEF Spec
<1> QED BY <1>2, <1>3, ScopedOpsNest, PTL

-----------------------------------------------------------------------------
(* A stack's addresses.                                                    *)
LEMMA StackArith ==
  ASSUME NEW n \in Nat
  PROVE  Bottom(n) \in Nat /\ Ceiling(n) \in Nat /\ Ceiling(n) = Bottom(n) + Span - 1
BY AddressAssumption DEF Bottom, Ceiling

(* An address is on one stack.                                             *)
LEMMA StackAtIs ==
  ASSUME NEW n \in Nat, NEW a \in Nat, Bottom(n) <= a, a <= Ceiling(n)
  PROVE  StackAt(a) = n
<1>1. Span \in Nat /\ Span > 0
  BY AddressAssumption
<1>2. n * Span <= a /\ a <= n * Span + Span - 1
  BY DEF Bottom, Ceiling
<1> QED BY <1>1, <1>2 DEF StackAt

-----------------------------------------------------------------------------
(* The operations among the first k frames of s.                           *)
Count(s, k) == Cardinality({j \in 1 .. k : s[j].kind = "op"})

(* None of no frames are operations.                                       *)
LEMMA CountNat ==
  ASSUME NEW s, NEW k \in Nat
  PROVE  /\ IsFiniteSet({j \in 1 .. k : s[j].kind = "op"}) /\ Count(s, k) \in Nat
         /\ Count(s, 0) = 0
<1>1. IsFiniteSet(1 .. k)
  BY FS_Interval
<1>2. IsFiniteSet({j \in 1 .. k : s[j].kind = "op"})
  BY <1>1, FS_Subset
<1>3. {j \in 1 .. 0 : s[j].kind = "op"} = {}
  OBVIOUS
<1> QED BY <1>2, <1>3, FS_CardinalityType, FS_EmptySet DEF Count

(* A frame more is an operation more, or none.                             *)
LEMMA CountNext ==
  ASSUME NEW s, NEW k \in Nat
  PROVE  Count(s, k + 1) = IF s[k + 1].kind = "op" THEN Count(s, k) + 1 ELSE Count(s, k)
<1>1. PICK S : S = {j \in 1 .. k : s[j].kind = "op"} /\ IsFiniteSet(S) /\ Count(s, k) = Cardinality(S)
  BY CountNat DEF Count
<1>2. \A j : j \in 1 .. k + 1 <=> j \in 1 .. k \/ j = k + 1
  OBVIOUS
<1>3. k + 1 \notin S
  BY <1>1
<1>4. CASE s[k + 1].kind = "op"
  <2>1. {j \in 1 .. k + 1 : s[j].kind = "op"} = S \cup {k + 1}
    BY <1>1, <1>2, <1>4
  <2> QED BY <1>1, <1>3, <1>4, <2>1, FS_AddElement DEF Count
<1>5. CASE s[k + 1].kind # "op"
  <2>1. {j \in 1 .. k + 1 : s[j].kind = "op"} = S
    BY <1>1, <1>2, <1>5
  <2> QED BY <1>1, <1>5, <2>1 DEF Count
<1> QED BY <1>4, <1>5

(* More frames have no fewer operations.                                   *)
LEMMA CountBelow ==
  ASSUME NEW s, NEW k \in Nat, NEW l \in Nat, k <= l
  PROVE  Count(s, k) <= Count(s, l)
<1>1. {j \in 1 .. k : s[j].kind = "op"} \subseteq {j \in 1 .. l : s[j].kind = "op"}
  OBVIOUS
<1> QED BY <1>1, CountNat, FS_Subset DEF Count

(* The count depends on the frames counted.                                *)
LEMMA CountSame ==
  ASSUME NEW s, NEW t, NEW k \in Nat, \A j \in 1 .. k : s[j] = t[j]
  PROVE  Count(s, k) = Count(t, k)
<1>1. {j \in 1 .. k : s[j].kind = "op"} = {j \in 1 .. k : t[j].kind = "op"}
  OBVIOUS
<1> QED BY <1>1 DEF Count

(* An operation has its own StackScope.                                    *)
LEMMA CountOp ==
  ASSUME NEW s, NEW n \in Nat, NEW k \in 1 .. n, s[k].kind = "op"
  PROVE  /\ Count(s, k) \in 1 .. Count(s, n)
         /\ \A j \in 1 .. k - 1 : Count(s, j) < Count(s, k)
<1>1. PICK m \in Nat : k = m + 1 /\ k - 1 = m /\ k \in Nat /\ k <= n
  <2>1. k - 1 \in Nat /\ k = (k - 1) + 1 /\ k \in Nat /\ k <= n
    OBVIOUS
  <2> QED BY <2>1
<1>2. Count(s, k) = Count(s, m) + 1 /\ Count(s, m) \in Nat
  BY <1>1, CountNext, CountNat
<1>3. Count(s, k) <= Count(s, n) /\ Count(s, n) \in Nat
  BY <1>1, CountBelow, CountNat
<1>4. ASSUME NEW j \in 1 .. m PROVE Count(s, j) <= Count(s, m) /\ Count(s, j) \in Nat
  <2>1. j \in Nat /\ j <= m
    OBVIOUS
  <2> QED BY <2>1, CountBelow, CountNat
<1> QED BY <1>1, <1>2, <1>3, <1>4

-----------------------------------------------------------------------------
(* Ghosts: L[i][d] is the limit and C[i][d] the scan start that isolate i  *)
(* has while its operation of depth d runs.                                *)
Ghosts == [Isolates -> [Nat -> Nat \ {0}]]

\* What LimitFits and ScanOnStack say of an operation on stack n that starts
\* at sp.
LimitIn(l, n, sp) ==
  /\ Bottom(n) < l /\ l <= Ceiling(n)
  /\ l < sp \/ (n = NativeStack /\ sp <= Bottom(n) + NativeGuard)
ScanIn(c, n, sp) == Bottom(n) <= c /\ c <= Ceiling(n) /\ c > sp

\* r puts back what V8 had at the depth around d.
PutsBack(r, was, d) == r = IF d > 0 /\ was[d] # was[d - 1] THEN was[d - 1] ELSE 0

\* The StackScope s of the operation fr on stack n.
ScopeFits(n, fr, s, L, C) ==
  /\ s \in Scope /\ Bottom(n) + 1 < SpBelow(s.top) /\ s.top <= Ceiling(n)
  /\ LimitIn(L[fr.iso][fr.depth], n, SpBelow(s.top))
  /\ ScanIn(C[fr.iso][fr.depth], n, SpBelow(s.top))
  /\ PutsBack(s.restoreLimit, L[fr.iso], fr.depth)
  /\ PutsBack(s.restoreScan, C[fr.iso], fr.depth)

\* The StackScopes sc of a Fiber on stack n lie on it, one below the other.
FiberTops(sc, n) ==
  \A m \in DOMAIN sc :
    /\ Bottom(n) + 1 < SpBelow(sc[m].top) /\ sc[m].top <= Ceiling(n)
    /\ \A l \in 1 .. m - 1 : sc[m].top < SpBelow(sc[l].top)

\* They fit the operations among its frames st.
FiberFits(st, sc, n, L, C) ==
  \A k \in DOMAIN st : st[k].kind = "op" => ScopeFits(n, st[k], sc[Count(st, k)], L, C)

\* An operation's scan reaches that of the operation of its isolate around it.
FiberCovers(st, sc, C) ==
  \A k, l \in DOMAIN st :
    /\ st[k].kind = "op" /\ st[l].kind = "op" /\ st[k].iso = st[l].iso
    /\ st[k].depth = st[l].depth - 1
    => C[st[l].iso][st[l].depth] > SpBelow(sc[Count(st, k)].top)

\* The cached region r has seen every operation and scan start on the stack.
FiberSeen(st, sc, r, C) ==
  /\ \A m \in DOMAIN sc : sc[m].top <= r.seen
  /\ \A k \in DOMAIN st : st[k].kind = "op" => C[st[k].iso][st[k].depth] <= r.seen

\* A Fiber has only what it had.
Within(t, tc, st, sc) ==
  /\ \A k \in DOMAIN t : t[k].kind = "op" =>
       k \in DOMAIN st /\ t[k] = st[k] /\ tc[Count(t, k)] = sc[Count(st, k)]
  /\ \A m \in DOMAIN tc : m \in DOMAIN sc /\ tc[m] = sc[m] /\ \A l \in 1 .. m - 1 : tc[l] = sc[l]

(* What it has less still fits, ...                                        *)
LEMMA WithinFits ==
  ASSUME NEW st, NEW sc, NEW t, NEW tc, NEW n, NEW L, NEW C, Within(t, tc, st, sc)
  PROVE  /\ FiberTops(sc, n) => FiberTops(tc, n)
         /\ FiberFits(st, sc, n, L, C) => FiberFits(t, tc, n, L, C)
         /\ FiberCovers(st, sc, C) => FiberCovers(t, tc, C)
         /\ \A r : FiberSeen(st, sc, r, C) => FiberSeen(t, tc, r, C)
<1>1. FiberFits(st, sc, n, L, C) => FiberFits(t, tc, n, L, C)
  BY DEF Within, FiberFits
<1>2. FiberCovers(st, sc, C) => FiberCovers(t, tc, C)
  BY DEF Within, FiberCovers
<1>3. \A r : FiberSeen(st, sc, r, C) => FiberSeen(t, tc, r, C)
  BY DEF Within, FiberSeen
<1>4. FiberTops(sc, n) => FiberTops(tc, n)
  BY DEF Within, FiberTops
<1> QED BY <1>1, <1>2, <1>3, <1>4

\* M and D are L and C up to isolate i at depth d.
Deeper(L, C, M, D, i, d) ==
  /\ \A j \in Isolates : j # i => M[j] = L[j] /\ D[j] = C[j]
  /\ \A e \in Nat : e # d => M[i][e] = L[i][e] /\ D[i][e] = C[i][e]

(* ... and so it does with what another isolate or a deeper operation has. *)
LEMMA GhostStays ==
  ASSUME NEW n, NEW fr, fr.iso \in Isolates, fr.depth \in Nat, NEW s, NEW L, NEW C, NEW M, NEW D, NEW i, NEW d \in Nat,
         fr.iso = i => fr.depth < d, Deeper(L, C, M, D, i, d), ScopeFits(n, fr, s, L, C)
  PROVE  ScopeFits(n, fr, s, M, D)
<1>1. /\ M[fr.iso][fr.depth] = L[fr.iso][fr.depth]
      /\ D[fr.iso][fr.depth] = C[fr.iso][fr.depth]
  BY DEF Deeper
<1>2. fr.depth > 0 => /\ M[fr.iso][fr.depth - 1] = L[fr.iso][fr.depth - 1]
                      /\ D[fr.iso][fr.depth - 1] = C[fr.iso][fr.depth - 1]
  <2>1. fr.depth > 0 => fr.depth - 1 \in Nat /\ fr.depth - 1 < fr.depth
    OBVIOUS
  <2>2. fr.iso = i => fr.depth - 1 # d
    <3>1. PICK e \in Nat : e = fr.depth
      OBVIOUS
    <3>2. e < d => e - 1 # d
      OBVIOUS
    <3> QED BY <3>1, <3>2
  <2> QED BY <2>1, <2>2 DEF Deeper
<1> QED BY <1>1, <1>2 DEF ScopeFits, PutsBack

-----------------------------------------------------------------------------
(* A callback is pushed, ...                                               *)
LEMMA CallbackWithin ==
  ASSUME NEW st \in Seq(Frame), NEW sc, NEW fr \in Frame, fr.kind # "op"
  PROVE  /\ Within(Append(st, fr), sc, st, sc)
         /\ Count(Append(st, fr), Len(Append(st, fr))) = Count(st, Len(st))
<1>1. PICK n \in Nat : n = Len(st)
  OBVIOUS
<1>2. PICK t : t = Append(st, fr)
  OBVIOUS
<1>3. /\ t \in Seq(Frame) /\ Len(t) = n + 1 /\ DOMAIN t = 1 .. n + 1 /\ DOMAIN st = 1 .. n
      /\ t[n + 1] = fr /\ \A k \in 1 .. n : t[k] = st[k]
  BY <1>1, <1>2
<1>4. \A k \in 1 .. n + 1 : k = n + 1 \/ k \in 1 .. n
  OBVIOUS
<1>5. ASSUME NEW k \in 1 .. n PROVE Count(t, k) = Count(st, k)
  <2>1. k \in Nat /\ \A j \in 1 .. k : j \in 1 .. n
    OBVIOUS
  <2> QED BY <1>3, <2>1, CountSame
<1>6. Within(t, sc, st, sc)
  BY <1>3, <1>4, <1>5 DEF Within
<1>7. Count(t, n + 1) = Count(t, n) /\ Count(t, n) = Count(st, n)
  BY <1>3, CountNext, CountSame
<1> QED BY <1>1, <1>2, <1>3, <1>6, <1>7

(* ... one is popped, ...                                                  *)
LEMMA CutWithin ==
  ASSUME NEW st \in Seq(Frame), NEW n \in Nat, Len(st) = n + 1, NEW sc, st[n + 1].kind # "op"
  PROVE  /\ Within(SubSeq(st, 1, Len(st) - 1), sc, st, sc)
         /\ Count(SubSeq(st, 1, Len(st) - 1), Len(SubSeq(st, 1, Len(st) - 1))) = Count(st, Len(st))
<1>1. PICK t : t = SubSeq(st, 1, Len(st) - 1)
  OBVIOUS
<1>2. /\ t \in Seq(Frame) /\ Len(t) = n /\ DOMAIN t = 1 .. n /\ DOMAIN st = 1 .. n + 1
      /\ \A k \in 1 .. n : t[k] = st[k]
  <2>1. Len(st) - 1 = n
    OBVIOUS
  <2>2. SubSeq(st, 1, n) = [k \in 1 .. n |-> st[k]]
    BY <2>1
  <2> QED BY <1>1, <2>1, <2>2
<1>3. ASSUME NEW k \in 1 .. n PROVE k \in 1 .. n + 1 /\ Count(t, k) = Count(st, k)
  <2>1. k \in Nat /\ k \in 1 .. n + 1 /\ \A j \in 1 .. k : j \in 1 .. n
    OBVIOUS
  <2> QED BY <1>2, <2>1, CountSame
<1>4. Within(t, sc, st, sc)
  BY <1>2, <1>3 DEF Within
<1>5. Count(st, n + 1) = Count(st, n) /\ Count(t, n) = Count(st, n)
  BY <1>2, CountNext, CountSame
<1> QED BY <1>1, <1>2, <1>4, <1>5

\* t and tc are the frames st and the m + 1 StackScopes sc without the last of each.
OneOpLess(t, tc, st, sc, m) ==
  /\ Len(sc) = m + 1 /\ tc \in Seq(Scope) /\ Len(tc) = m
  /\ Within(t, tc, st, sc) /\ Count(t, Len(t)) = m

(* ... or an operation is, with its StackScope.                            *)
LEMMA OpCutWithin ==
  ASSUME NEW st \in Seq(Frame), NEW n \in Nat, Len(st) = n + 1, st[n + 1].kind = "op",
         NEW sc \in Seq(Scope), Len(sc) = Count(st, n + 1),
         NEW t, NEW tc, t = SubSeq(st, 1, Len(st) - 1), tc = SubSeq(sc, 1, Len(sc) - 1)
  PROVE  \E m \in Nat : OneOpLess(t, tc, st, sc, m)
<1>1. /\ t \in Seq(Frame) /\ Len(t) = n /\ DOMAIN t = 1 .. n /\ DOMAIN st = 1 .. n + 1
      /\ \A k \in 1 .. n : t[k] = st[k]
  <2>1. Len(st) - 1 = n
    OBVIOUS
  <2>2. SubSeq(st, 1, n) = [k \in 1 .. n |-> st[k]]
    BY <2>1
  <2> QED BY <2>1, <2>2
<1>2. ASSUME NEW k \in 1 .. n PROVE k \in 1 .. n + 1 /\ Count(t, k) = Count(st, k)
  <2>1. k \in Nat /\ k \in 1 .. n + 1 /\ \A j \in 1 .. k : j \in 1 .. n
    OBVIOUS
  <2> QED BY <1>1, <2>1, CountSame
<1>3. PICK m \in Nat : m = Count(st, n) /\ Count(t, n) = m /\ Len(sc) = m + 1
  <2>1. Count(st, n) \in Nat /\ Count(t, n) = Count(st, n)
    BY ZenonT(60), <1>1, CountNat, CountSame
  <2>2. Count(st, n + 1) = Count(st, n) + 1
    BY CountNext
  <2> QED BY <2>1, <2>2
<1>4. /\ tc \in Seq(Scope) /\ Len(tc) = m /\ DOMAIN tc = 1 .. m /\ DOMAIN sc = 1 .. m + 1
      /\ \A k \in 1 .. m : tc[k] = sc[k]
  <2>1. Len(sc) - 1 = m
    BY <1>3
  <2>2. SubSeq(sc, 1, m) = [k \in 1 .. m |-> sc[k]]
    BY <1>3, <2>1
  <2> QED BY <1>3, <2>1, <2>2
<1>5. ASSUME NEW k \in 1 .. n, t[k].kind = "op" PROVE tc[Count(t, k)] = sc[Count(st, k)]
  BY <1>2, <1>3, <1>4, <1>5, CountOp
<1>6. \A k \in 1 .. m : k \in 1 .. m + 1 /\ \A l \in 1 .. k - 1 : l \in 1 .. m
  OBVIOUS
<1>7. Within(t, tc, st, sc)
  BY <1>1, <1>2, <1>4, <1>5, <1>6 DEF Within
<1> QED BY <1>1, <1>3, <1>4, <1>7 DEF OneOpLess

-----------------------------------------------------------------------------
\* The operations of i among the frames st started at less than d.
Above(st, i, d) ==
  \A k \in DOMAIN st : /\ st[k].iso \in Isolates /\ st[k].depth \in Nat
                       /\ st[k].kind = "op" /\ st[k].iso = i => st[k].depth < d

(* A Fiber fits as before when an operation starts deeper than its own.    *)
LEMMA DeeperFits ==
  ASSUME NEW st, NEW sc, NEW n, NEW L, NEW C, NEW M, NEW D, NEW i, NEW d \in Nat,
         Deeper(L, C, M, D, i, d), Above(st, i, d)
  PROVE  /\ FiberFits(st, sc, n, L, C) => FiberFits(st, sc, n, M, D)
         /\ FiberCovers(st, sc, C) => FiberCovers(st, sc, D)
         /\ \A r : FiberSeen(st, sc, r, C) => FiberSeen(st, sc, r, D)
<1>1. ASSUME FiberFits(st, sc, n, L, C) PROVE FiberFits(st, sc, n, M, D)
  <2> SUFFICES ASSUME NEW k \in DOMAIN st, st[k].kind = "op"
               PROVE  ScopeFits(n, st[k], sc[Count(st, k)], M, D)
    BY <1>1 DEF FiberFits
  <2>1. PICK fr, s : fr = st[k] /\ s = sc[Count(st, k)]
    OBVIOUS
  <2>2. /\ fr.iso \in Isolates /\ fr.depth \in Nat /\ (fr.iso = i => fr.depth < d)
        /\ ScopeFits(n, fr, s, L, C)
    BY <1>1, <2>1 DEF Above, FiberFits
  <2>3. ScopeFits(n, fr, s, M, D)
    BY <2>2, GhostStays
  <2> QED BY <2>1, <2>3
<1>2. \A k \in DOMAIN st : st[k].kind = "op" =>
        D[st[k].iso][st[k].depth] = C[st[k].iso][st[k].depth]
  <2> SUFFICES ASSUME NEW k \in DOMAIN st, st[k].kind = "op"
               PROVE  D[st[k].iso][st[k].depth] = C[st[k].iso][st[k].depth]
    OBVIOUS
  <2>1. PICK e \in Nat : e = st[k].depth
    BY DEF Above
  <2>2. st[k].iso \in Isolates /\ (st[k].iso = i => e # d)
    BY <2>1 DEF Above
  <2> QED BY <2>1, <2>2 DEF Deeper
<1>3. FiberCovers(st, sc, C) => FiberCovers(st, sc, D)
  BY <1>2 DEF FiberCovers
<1>4. \A r : FiberSeen(st, sc, r, C) => FiberSeen(st, sc, r, D)
  BY <1>2 DEF FiberSeen
<1> QED BY <1>1, <1>3, <1>4

\* t and tc are the n frames st and the m StackScopes sc with one more of each.
OneMoreOp(t, tc, st, sc, fr, s, n, m) ==
  /\ n = Len(st) /\ m = Len(sc) /\ t \in Seq(Frame) /\ tc \in Seq(Scope)
  /\ Len(t) = n + 1 /\ Len(tc) = m + 1
  /\ DOMAIN st = 1 .. n /\ DOMAIN sc = 1 .. m
  /\ DOMAIN t = 1 .. n + 1 /\ DOMAIN tc = 1 .. m + 1
  /\ t[n + 1] = fr /\ tc[m + 1] = s /\ Count(t, n + 1) = m + 1
  /\ \A k \in 1 .. m : tc[k] = sc[k]
  /\ \A k \in 1 .. n : /\ t[k] = st[k]
                       /\ st[k].kind = "op" => tc[Count(t, k)] = sc[Count(st, k)]

(* An operation is pushed, with its StackScope.                            *)
LEMMA OpPushed ==
  ASSUME NEW st \in Seq(Frame), NEW sc \in Seq(Scope), Len(sc) = Count(st, Len(st)),
         NEW fr \in Frame, fr.kind = "op", NEW s \in Scope,
         NEW t, NEW tc, t = Append(st, fr), tc = Append(sc, s)
  PROVE  \E n \in Nat, m \in Nat : OneMoreOp(t, tc, st, sc, fr, s, n, m)
<1>1. PICK n \in Nat, m \in Nat : n = Len(st) /\ m = Len(sc)
  OBVIOUS
<1>3. /\ t \in Seq(Frame) /\ Len(t) = n + 1 /\ DOMAIN t = 1 .. n + 1 /\ DOMAIN st = 1 .. n
      /\ t[n + 1] = fr /\ \A k \in 1 .. n : t[k] = st[k]
  BY <1>1
<1>4. /\ tc \in Seq(Scope) /\ Len(tc) = m + 1 /\ DOMAIN tc = 1 .. m + 1 /\ DOMAIN sc = 1 .. m
      /\ tc[m + 1] = s /\ \A k \in 1 .. m : tc[k] = sc[k]
  BY <1>1
<1>5. ASSUME NEW k \in 1 .. n PROVE Count(t, k) = Count(st, k)
  <2>1. k \in Nat /\ \A j \in 1 .. k : j \in 1 .. n
    OBVIOUS
  <2> QED BY <1>3, <2>1, CountSame
<1>6. Count(t, n + 1) = m + 1
  <2>1. Count(t, n + 1) = Count(t, n) + 1
    BY <1>3, CountNext
  <2>2. Count(t, n) = Count(st, n)
    BY <1>3, CountSame
  <2> QED BY <1>1, <2>1, <2>2
<1>7. ASSUME NEW k \in 1 .. n, st[k].kind = "op" PROVE tc[Count(t, k)] = sc[Count(st, k)]
  <2>1. Count(st, k) \in 1 .. m
    BY <1>1, <1>7, CountOp
  <2> QED BY <1>4, <1>5, <2>1
<1> QED BY <1>1, <1>3, <1>4, <1>6, <1>7 DEF OneMoreOp

(* What that makes of the Fiber: the StackScopes fit, ...                  *)
LEMMA StartFits ==
  ASSUME NEW st \in Seq(Frame), NEW sc \in Seq(Scope), Len(sc) = Count(st, Len(st)),
         NEW fr \in Frame, fr.kind = "op", NEW s \in Scope, NEW n0, NEW M, NEW D,
         FiberFits(st, sc, n0, M, D), ScopeFits(n0, fr, s, M, D),
         NEW t, NEW tc, t = Append(st, fr), tc = Append(sc, s)
  PROVE  FiberFits(t, tc, n0, M, D)
<1>1. PICK n \in Nat, m \in Nat : OneMoreOp(t, tc, st, sc, fr, s, n, m)
  BY OpPushed
<1>2. \A k \in 1 .. n + 1 : k = n + 1 \/ k \in 1 .. n
  OBVIOUS
<1>3. ASSUME NEW k \in 1 .. n + 1, t[k].kind = "op"
      PROVE  ScopeFits(n0, t[k], tc[Count(t, k)], M, D)
  <2>1. CASE k = n + 1
    BY <1>1, <2>1 DEF OneMoreOp
  <2>2. CASE k \in 1 .. n
    BY <1>1, <1>3, <2>2 DEF FiberFits, OneMoreOp
  <2> QED BY <1>2, <2>1, <2>2
<1> QED BY <1>1, <1>3 DEF FiberFits, OneMoreOp

(* ... each scan reaches the operation around, when the new one does, ...  *)
LEMMA StartCovers ==
  ASSUME NEW st \in Seq(Frame), NEW sc \in Seq(Scope), Len(sc) = Count(st, Len(st)),
         NEW fr \in Frame, fr.kind = "op", NEW s \in Scope, NEW D,
         Above(st, fr.iso, fr.depth), FiberCovers(st, sc, D),
         \A k \in DOMAIN st :
           st[k].kind = "op" /\ st[k].iso = fr.iso /\ st[k].depth = fr.depth - 1
           => D[fr.iso][fr.depth] > SpBelow(sc[Count(st, k)].top),
         NEW t, NEW tc, t = Append(st, fr), tc = Append(sc, s)
  PROVE  FiberCovers(t, tc, D)
<1>0. PICK n \in Nat, m \in Nat : OneMoreOp(t, tc, st, sc, fr, s, n, m)
  BY OpPushed
<1>1. /\ DOMAIN st = 1 .. n /\ DOMAIN t = 1 .. n + 1
      /\ t[n + 1] = fr
      /\ \A k \in 1 .. n : /\ t[k] = st[k]
                           /\ st[k].kind = "op" => tc[Count(t, k)] = sc[Count(st, k)]
  BY <1>0 DEF OneMoreOp
<1>2. \A k \in 1 .. n + 1 : k = n + 1 \/ k \in 1 .. n
  OBVIOUS
<1> SUFFICES ASSUME NEW k \in 1 .. n + 1, NEW l \in 1 .. n + 1,
                    t[k].kind = "op", t[l].kind = "op", t[k].iso = t[l].iso,
                    t[k].depth = t[l].depth - 1
             PROVE  D[t[l].iso][t[l].depth] > SpBelow(tc[Count(t, k)].top)
  BY <1>1 DEF FiberCovers
<1>3. PICK e \in Nat : e = fr.depth /\ e # e - 1 /\ \A h \in Nat : h < e => e # h - 1
  BY DEF Frame
<1>4. k # n + 1
  <2>1. CASE l = n + 1
    BY <1>1, <1>3, <2>1
  <2>2. CASE l \in 1 .. n
    <3>1. st[l].iso = fr.iso => st[l].depth \in Nat /\ st[l].depth < fr.depth
      BY <1>1, <2>2 DEF Above
    <3> QED BY <1>1, <1>3, <2>2, <3>1
  <2> QED BY <1>2, <2>1, <2>2
<1>5. k \in 1 .. n
  BY <1>2, <1>4
<1>6. CASE l = n + 1
  BY <1>1, <1>5, <1>6
<1>7. CASE l \in 1 .. n
  <2>1. t[l] = st[l] /\ t[k] = st[k] /\ tc[Count(t, k)] = sc[Count(st, k)]
    BY <1>1, <1>5, <1>7
  <2>2. /\ st[k].kind = "op" /\ st[l].kind = "op" /\ st[k].iso = st[l].iso
        /\ st[k].depth = st[l].depth - 1 /\ k \in DOMAIN st /\ l \in DOMAIN st
    BY <1>1, <1>5, <1>7, <2>1
  <2>3. D[st[l].iso][st[l].depth] > SpBelow(sc[Count(st, k)].top)
    BY <2>2 DEF FiberCovers
  <2> QED BY <2>1, <2>3
<1> QED BY <1>2, <1>6, <1>7

\* The address top is on stack n, below the StackScopes sc.
LiesBelow(top, n, sc) ==
  /\ Bottom(n) + 1 < SpBelow(top) /\ top <= Ceiling(n)
  /\ \A l \in DOMAIN sc : top < SpBelow(sc[l].top)

\* The StackScopes sc are those of the frames st, which are on stack n.
TopsFit(st, sc, n) == Len(sc) = Count(st, Len(st)) /\ sc \in Seq(Scope) /\ FiberTops(sc, n)

(* ... the new StackScope lies below the others ...                        *)
LEMMA StartTops ==
  ASSUME NEW st \in Seq(Frame), NEW sc, NEW n0, TopsFit(st, sc, n0),
         NEW fr \in Frame, fr.kind = "op", NEW s \in Scope, LiesBelow(s.top, n0, sc),
         NEW t, NEW tc, t = Append(st, fr), tc = Append(sc, s)
  PROVE  TopsFit(t, tc, n0)
<1>0. Len(sc) = Count(st, Len(st)) /\ sc \in Seq(Scope) /\ FiberTops(sc, n0)
  BY DEF TopsFit
<1>1. PICK n \in Nat, m \in Nat : OneMoreOp(t, tc, st, sc, fr, s, n, m)
  BY <1>0, OpPushed
<1>2. /\ n = Len(st) /\ m = Len(sc) /\ tc \in Seq(Scope) /\ Len(t) = n + 1 /\ Len(tc) = m + 1
      /\ DOMAIN sc = 1 .. m /\ DOMAIN tc = 1 .. m + 1 /\ tc[m + 1] = s /\ Count(t, n + 1) = m + 1
      /\ \A k \in 1 .. m : tc[k] = sc[k]
  BY <1>1 DEF OneMoreOp
<1>3. /\ \A k \in 1 .. m + 1 : k = m + 1 \/ k \in 1 .. m
      /\ \A k \in 1 .. m : \A l \in 1 .. k - 1 : l \in 1 .. m
      /\ (m + 1) - 1 = m
  OBVIOUS
<1>4. ASSUME NEW k \in 1 .. m + 1
      PROVE  /\ Bottom(n0) + 1 < SpBelow(tc[k].top) /\ tc[k].top <= Ceiling(n0)
             /\ \A l \in 1 .. k - 1 : tc[k].top < SpBelow(tc[l].top)
  <2>1. CASE k = m + 1
    BY <1>2, <1>3, <2>1 DEF LiesBelow
  <2>2. CASE k \in 1 .. m
    BY <1>0, <1>2, <1>3, <2>2 DEF FiberTops
  <2> QED BY <1>3, <2>1, <2>2
<1>5. FiberTops(tc, n0)
  BY <1>2, <1>4 DEF FiberTops
<1> QED BY <1>2, <1>5 DEF TopsFit

(* ... and a region that has seen both has seen the Fiber then.            *)
LEMMA StartSeen ==
  ASSUME NEW st \in Seq(Frame), NEW sc \in Seq(Scope), Len(sc) = Count(st, Len(st)),
         NEW fr \in Frame, fr.kind = "op", NEW s \in Scope, NEW r, NEW D,
         FiberSeen(st, sc, r, D), s.top <= r.seen, D[fr.iso][fr.depth] <= r.seen,
         NEW t, NEW tc, t = Append(st, fr), tc = Append(sc, s)
  PROVE  FiberSeen(t, tc, r, D)
<1>1. PICK n \in Nat, m \in Nat : OneMoreOp(t, tc, st, sc, fr, s, n, m)
  BY OpPushed
<1>2. /\ \A k \in 1 .. n + 1 : k = n + 1 \/ k \in 1 .. n
      /\ \A k \in 1 .. m + 1 : k = m + 1 \/ k \in 1 .. m
  OBVIOUS
<1>3. \A k \in 1 .. m + 1 : tc[k].top <= r.seen
  BY <1>1, <1>2 DEF FiberSeen, OneMoreOp
<1>4. \A k \in 1 .. n + 1 : t[k].kind = "op" => D[t[k].iso][t[k].depth] <= r.seen
  BY <1>1, <1>2 DEF FiberSeen, OneMoreOp
<1> QED BY <1>1, <1>3, <1>4 DEF FiberSeen, OneMoreOp

-----------------------------------------------------------------------------
\* The regions R that are cached: each is of one stack, which has no other.
RegionsOK(R) ==
  /\ R \subseteq [lo : Nat, seen : Nat] /\ IsFiniteSet(R) /\ Cardinality(R) <= RegionSlots
  /\ \A r \in R : \E n \in 1 .. FiberStacks :
       r.lo = Bottom(n) /\ r.lo <= r.seen /\ r.seen <= Ceiling(n)
  /\ \A r, q \in R : r.lo = q.lo => r = q

(* The region of an address on stack n is the stack's, ...                 *)
LEMMA RegionIs ==
  ASSUME RegionsOK(regions), NEW n \in 1 .. FiberStacks, NEW addr \in Nat,
         Bottom(n) <= addr, addr <= Ceiling(n), NEW r \in Hits(addr)
  PROVE  r \in regions /\ r.lo = Bottom(n) /\ r.seen \in Nat /\ addr <= r.seen /\ r.seen <= Ceiling(n)
<1>1. r \in regions /\ r.lo <= addr /\ addr <= r.seen /\ r.seen \in Nat
  BY DEF Hits, RegionsOK
<1>2. PICK m \in 1 .. FiberStacks : r.lo = Bottom(m) /\ r.seen <= Ceiling(m)
  BY <1>1 DEF RegionsOK
<1>3. n \in Nat /\ m \in Nat
  BY AddressAssumption
<1>4. addr <= Ceiling(m)
  BY <1>1, <1>2, <1>3, StackArith
<1>5. StackAt(addr) = n /\ StackAt(addr) = m
  BY <1>1, <1>2, <1>3, <1>4, StackAtIs
<1> QED BY <1>1, <1>2, <1>5

(* ... and so is what it is answered with, which the table has then.       *)
LEMMA Answers ==
  ASSUME RegionsOK(regions), NEW n \in 1 .. FiberStacks, NEW addr \in Nat,
         Bottom(n) <= addr, addr <= Ceiling(n), NEW a \in RegionAnswers(addr)
  PROVE  /\ a[1].lo = Bottom(n) /\ a[1].seen \in Nat /\ addr <= a[1].seen /\ a[1].seen <= Ceiling(n)
         /\ a[1] \in a[2] /\ RegionsOK(a[2]) /\ \A r \in a[2] : r \in regions \/ r = a[1]
         /\ a[2] = regions \/ \A r \in regions : r.lo = Bottom(n) => ~(addr <= r.seen)
<1>1. CASE Hits(addr) # {}
  <2>1. PICK r \in Hits(addr) : a = <<r, regions>>
    BY <1>1 DEF RegionAnswers
  <2>2. a[1] = r /\ a[2] = regions
    BY <2>1
  <2> QED BY <2>1, <2>2, RegionIs
<1>2. CASE Hits(addr) = {}
  <2>1. StackAt(addr) = n
    <3>1. n \in Nat
      BY AddressAssumption
    <3> QED BY <3>1, StackAtIs
  <2>2. PICK new : new = [lo |-> Bottom(n), seen |-> addr]
    OBVIOUS
  <2>3. PICK v \in Victims(Bottom(n)) : a = <<new, (regions \ v) \cup {new}>>
    BY <1>2, <2>1, <2>2 DEF RegionAnswers
  <2>4. PICK R : R = (regions \ v) \cup {new} /\ a[1] = new /\ a[2] = R
    BY <2>3
  <2>5. /\ IsFiniteSet(regions) /\ Cardinality(regions) \in Nat /\ Cardinality(regions) <= RegionSlots
        /\ RegionSlots \in Nat /\ RegionSlots > 0
    BY FS_CardinalityType, AddressAssumption DEF RegionsOK
  <2>6. /\ v \subseteq regions /\ (v # {} \/ Cardinality(regions) < RegionSlots)
        /\ \A r \in regions \ v : r.lo # Bottom(n)
    <3>1. PICK same : same = {r \in regions : r.lo = Bottom(n)}
      OBVIOUS
    <3>2. CASE same # {}
      <4>1. v = same
        BY <3>1, <3>2 DEF Victims
      <4> QED BY <3>1, <3>2, <4>1
    <3>3. CASE same = {} /\ Cardinality(regions) < RegionSlots
      <4>1. v = {}
        BY <3>1, <3>3 DEF Victims
      <4> QED BY <3>1, <3>3, <4>1
    <3>4. CASE same = {} /\ ~(Cardinality(regions) < RegionSlots)
      <4>1. PICK q \in regions : v = {q}
        BY <3>1, <3>4 DEF Victims
      <4> QED BY <3>1, <3>4, <4>1
    <3> QED BY <3>2, <3>3, <3>4
  <2>7. new \in [lo : Nat, seen : Nat] /\ new.lo = Bottom(n) /\ new.seen = addr
    <3>1. Bottom(n) \in Nat
      BY StackArith, AddressAssumption
    <3> QED BY <2>2, <3>1
  <2>8. IsFiniteSet(R) /\ Cardinality(R) <= RegionSlots
    <3>1. IsFiniteSet(regions \ v) /\ Cardinality(regions \ v) \in Nat /\ Cardinality(regions \ v) < RegionSlots
      <4>1. CASE v = {}
        <5>1. regions \ v = regions
          BY <4>1
        <5> QED BY <2>5, <2>6, <4>1, <5>1
      <4>2. CASE v # {}
        <5>1. PICK q \in v : q \in regions
          BY <2>6, <4>2
        <5>2. IsFiniteSet(regions \ {q}) /\ Cardinality(regions \ {q}) = Cardinality(regions) - 1
          BY <2>5, <5>1, FS_RemoveElement
        <5>3. regions \ v \subseteq regions \ {q}
          OBVIOUS
        <5>4. IsFiniteSet(regions \ v) /\ Cardinality(regions \ v) <= Cardinality(regions \ {q})
          BY <5>2, <5>3, FS_Subset
        <5>5. Cardinality(regions \ v) \in Nat
          BY <5>4, FS_CardinalityType
        <5> QED BY <2>5, <5>2, <5>4, <5>5
      <4> QED BY <4>1, <4>2
    <3>2. /\ IsFiniteSet((regions \ v) \cup {new})
          /\ \/ Cardinality((regions \ v) \cup {new}) = Cardinality(regions \ v)
             \/ Cardinality((regions \ v) \cup {new}) = Cardinality(regions \ v) + 1
      BY <3>1, FS_AddElement
    <3> QED BY <2>4, <2>5, <3>1, <3>2
  <2>9. RegionsOK(R)
    <3>1. R \subseteq [lo : Nat, seen : Nat]
      BY <2>4, <2>7 DEF RegionsOK
    <3>2. \A r \in R : \E m \in 1 .. FiberStacks :
            r.lo = Bottom(m) /\ r.lo <= r.seen /\ r.seen <= Ceiling(m)
      BY <2>4, <2>7 DEF RegionsOK
    <3>3. \A r, q \in R : r.lo = q.lo => r = q
      BY <2>4, <2>6, <2>7 DEF RegionsOK
    <3> QED BY <2>8, <3>1, <3>2, <3>3 DEF RegionsOK
  <2>10. \A r \in regions : r.lo = Bottom(n) => ~(addr <= r.seen)
    BY <1>2 DEF Hits
  <2>11. addr <= addr
    OBVIOUS
  <2> QED BY <2>4, <2>7, <2>9, <2>10, <2>11
<1> QED BY <1>1, <1>2

-----------------------------------------------------------------------------
\* A stack of the pool is one Fiber's, and a Fiber somebody can go back to has one.
PlaceInv ==
  /\ place \in [Fibers -> 0 .. NativeStack]
  /\ place[MainFiber] = NativeStack /\ \A f \in Fibers \ {MainFiber} : place[f] # NativeStack
  /\ \A f, g \in Fibers : place[f] = place[g] /\ place[f] # NoStack => f = g
  /\ \A f \in Fibers \ abandoned :
       f = MainFiber \/ resumer[f] # NoFiber \/ stack[f] # <<>> => place[f] # NoStack

\* Every operation has its StackScope, on the stack its Fiber is on.
TopsInv ==
  /\ scopes \in [Fibers -> Seq(Scope)]
  /\ \A f \in Fibers : Len(scopes[f]) = Count(stack[f], Len(stack[f]))
  /\ \A f \in Fibers \ abandoned : FiberTops(scopes[f], place[f])

\* What V8 has are addresses.
AddressInv ==
  /\ limit \in [Isolates -> Nat] /\ scan \in [Isolates -> Nat]
  /\ RegionsOK(regions) /\ evicted \subseteq 1 .. FiberStacks

BaseInv == PlaceInv /\ TopsInv /\ AddressInv

(* The running Fiber is on a stack.                                        *)
LEMMA RunningPlaced ==
  ASSUME IndInv, AbandonedAreOff, PlaceInv
  PROVE  /\ running \in Fibers \ abandoned /\ place[running] \in 1 .. NativeStack
         /\ NativeStack \in Nat /\ NativeStack = FiberStacks + 1
         /\ place[running] # NativeStack => place[running] \in 1 .. FiberStacks
<1>1. running \in Fibers /\ (running = MainFiber \/ resumer[running] # NoFiber) /\ running \notin abandoned
  BY DEF IndInv, NestTypeOK, NestInv, ResumeChain, AbandonedAreOff
<1>2. place[running] # 0 /\ place[running] \in 0 .. NativeStack
  BY <1>1 DEF PlaceInv, NoStack
<1>3. NativeStack \in Nat /\ NativeStack = FiberStacks + 1 /\ FiberStacks \in Nat
  BY AddressAssumption DEF NativeStack
<1>4. PICK n : n = place[running]
  OBVIOUS
<1> QED BY <1>1, <1>2, <1>3, <1>4

(* Where an operation starts: on the stack, below those already on it.     *)
LEMMA StartsOn ==
  ASSUME IndInv, AbandonedAreOff, BaseInv, NEW gap \in Gaps,
         NEW top, top = LowestFrame - gap, SpBelow(top) > Bottom(place[running]) + 1
  PROVE  /\ top \in Nat /\ Bottom(place[running]) + 1 < SpBelow(top) /\ top <= Ceiling(place[running])
         /\ Bottom(place[running]) <= top /\ SpBelow(top) \in Nat /\ SpBelow(top) < top
         /\ SpBelow(top) = top - 2
         /\ \A l \in DOMAIN scopes[running] : top < SpBelow(scopes[running][l].top)
<1>1. /\ running \in Fibers \ abandoned /\ place[running] \in 1 .. NativeStack
      /\ scopes[running] \in Seq(Scope) /\ FiberTops(scopes[running], place[running])
  BY RunningPlaced DEF BaseInv, TopsInv
<1>2. PICK n \in Nat, b \in Nat, c \in Nat :
        n = place[running] /\ b = Bottom(n) /\ c = Ceiling(n)
  <2>1. place[running] \in Nat
    BY <1>1
  <2> QED BY <2>1, StackArith
<1>3. PICK sc \in Seq(Scope), m \in Nat : sc = scopes[running] /\ m = Len(sc) /\ DOMAIN sc = 1 .. m
  BY <1>1
<1>4. PICK g \in Nat : g = gap /\ g > 0
  BY AddressAssumption
<1>5. CASE m = 0
  <2>1. sc = <<>> /\ DOMAIN sc = {}
    <3>1. Len(sc) = 0 /\ 1 .. 0 = {}
      BY <1>3, <1>5
    <3> QED BY <1>3, <1>5, <3>1, EmptySeq
  <2>2. LowestFrame = c
    BY <1>2, <1>3, <2>1 DEF LowestFrame
  <2>3. top = c - g /\ top - 2 > b + 1
    BY <1>2, <1>4, <2>2 DEF SpBelow
  <2>4. top \in Nat /\ b + 1 < top - 2 /\ top <= c /\ b <= top /\ top - 2 \in Nat /\ top - 2 < top
    BY <1>4, <2>3
  <2> QED BY <1>2, <1>3, <2>1, <2>4 DEF SpBelow
<1>6. CASE m # 0
  <2>1. PICK y \in Nat : y = sc[m].top /\ m \in DOMAIN sc
    <3>1. m \in DOMAIN sc /\ sc[m] \in Scope
      BY <1>3, <1>6
    <3> QED BY <3>1 DEF Scope
  <2>2. LowestFrame = y - 2
    <3>1. sc # <<>>
      BY <1>3, <1>6
    <3> QED BY <1>3, <2>1, <3>1 DEF LowestFrame, SpBelow
  <2>3. y <= c /\ \A l \in 1 .. m - 1 : y < sc[l].top - 2
    BY <1>1, <1>2, <1>3, <2>1 DEF FiberTops, SpBelow
  <2>4. top = y - 2 - g /\ top - 2 > b + 1
    BY <1>2, <1>4, <2>2 DEF SpBelow
  <2>5. /\ top \in Nat /\ b + 1 < top - 2 /\ top <= c /\ b <= top /\ top - 2 \in Nat /\ top - 2 < top
        /\ top < y - 2 /\ top < y
    <3>1. top \in Int /\ top >= 0
      BY <1>4, <2>4
    <3> QED BY <1>4, <2>3, <2>4, <3>1
  <2>6. ASSUME NEW l \in 1 .. m PROVE top < sc[l].top - 2
    <3>1. l = m \/ l \in 1 .. m - 1
      BY <1>3
    <3>2. CASE l = m
      BY <2>1, <2>5, <3>2
    <3>3. CASE l \in 1 .. m - 1
      <4>1. PICK z \in Nat : z = sc[l].top
        <5>1. sc[l] \in Scope
          BY <1>3
        <5> QED BY <5>1 DEF Scope
      <4>2. y < z - 2
        BY <2>3, <3>3, <4>1
      <4>3. top < z - 2
        BY <2>5, <4>2
      <4> QED BY <4>1, <4>3
    <3> QED BY <3>1, <3>2, <3>3
  <2> QED BY <1>2, <1>3, <2>5, <2>6 DEF SpBelow
<1> QED BY <1>5, <1>6

\* What EnterScope gives isolate i on stack n for an operation at top, with the
\* answer r of the regions: its limit l, its scan start c and the StackScope s.
Entered(i, n, top, r, l, c, s) ==
  /\ limit' = [limit EXCEPT ![i] = l]
  /\ FieldFound => scan' = [scan EXCEPT ![i] = c]
  /\ scan' \in [Isolates -> Nat]
  /\ scopes' = [scopes EXCEPT ![running] = Append(@, s)]
  /\ evicted' = evicted \cup (InUse \ {StackAt(q.lo) : q \in regions'})
  /\ UNCHANGED place
  /\ l \in Nat \ {0} /\ c \in Nat \ {0} /\ s \in Scope /\ s.top = top
  /\ LimitIn(l, n, SpBelow(top)) /\ ScanIn(c, n, SpBelow(top))
  /\ FieldFound =>
       /\ s.restoreLimit = IF depth[i] > 0 /\ scan[i] # 0 /\ l # limit[i] THEN limit[i] ELSE 0
       /\ s.restoreScan = IF depth[i] > 0 /\ scan[i] # 0 /\ c # scan[i] THEN scan[i] ELSE 0
  /\ n = NativeStack => c = NativeTop /\ UNCHANGED regions
  /\ n # NativeStack =>
       /\ r \in regions' /\ r.lo = Bottom(n) /\ r.seen \in Nat /\ top <= r.seen /\ c <= r.seen
       /\ FieldFound /\ depth[i] > 0 /\ SpBelow(top) < scan[i] /\ scan[i] <= r.seen => c = scan[i]
       /\ \A q \in regions' : q \in regions \/ q = r
       /\ regions' = regions \/ \A q \in regions : q.lo = Bottom(n) => ~(top <= q.seen)

(* StackScope::enter: the limit and the scan start fit the stack.          *)
LEMMA EnterFits ==
  ASSUME IndInv, AbandonedAreOff, BaseInv, NEW i \in Isolates, ScopedStart(i)
  PROVE  \E top \in Nat : \E r, l, c, s :
           /\ Bottom(place[running]) + 1 < SpBelow(top) /\ top <= Ceiling(place[running])
           /\ \A m \in DOMAIN scopes[running] : top < SpBelow(scopes[running][m].top)
           /\ Entered(i, place[running], top, r, l, c, s)
           /\ RegionsOK(regions')
<1>1. PICK gap \in Gaps : /\ SpBelow(LowestFrame - gap) > Bottom(place[running]) + 1
                          /\ EnterScope(i, LowestFrame - gap)
  BY DEF ScopedStart
<1>2. PICK top : top = LowestFrame - gap
  OBVIOUS
<1>3. /\ top \in Nat /\ Bottom(place[running]) + 1 < SpBelow(top) /\ top <= Ceiling(place[running])
      /\ Bottom(place[running]) <= top /\ SpBelow(top) \in Nat /\ SpBelow(top) < top
      /\ SpBelow(top) = top - 2
      /\ \A l \in DOMAIN scopes[running] : top < SpBelow(scopes[running][l].top)
  BY <1>1, <1>2, StartsOn
<1>4. PICK n \in Nat, b \in Nat, h \in Nat, sp \in Nat :
        /\ n = place[running] /\ b = Bottom(n) /\ h = Ceiling(n) /\ sp = SpBelow(top)
        /\ h = b + Span - 1 /\ n \in 1 .. NativeStack
        /\ n # NativeStack => n \in 1 .. FiberStacks
  <2>1. place[running] \in Nat /\ place[running] \in 1 .. NativeStack
    BY RunningPlaced DEF BaseInv
  <2> QED BY <1>3, <2>1, RunningPlaced, StackArith DEF BaseInv
<1>5. b + 1 < sp /\ sp < top /\ top <= h /\ b <= top /\ sp = top - 2
  BY <1>3, <1>4
<1>6. /\ limit \in [Isolates -> Nat] /\ scan \in [Isolates -> Nat] /\ RegionsOK(regions)
      /\ depth \in [Isolates -> Nat]
  BY DEF BaseInv, AddressInv, IndInv, NestTypeOK
<1>7. PICK answer \in IF n = NativeStack THEN {<<[lo |-> 0, seen |-> 0], regions>>}
                                         ELSE RegionAnswers(top) :
        LET entering == depth[i] = 0 \/ current # i
            prev     == Enclosing(i, entering)
            nested   == prev # 0
            newLimit == LimitFor(n = NativeStack, answer[1].lo, sp)
            newScan  == ScanFor(n = NativeStack, nested, prev, answer[1].seen, sp, top)
        IN /\ limit' = [limit EXCEPT ![i] = newLimit]
           /\ scan' = [scan EXCEPT ![i] =
                IF FieldFound THEN newScan ELSE IF entering THEN NativeTop ELSE @]
           /\ scopes' = [scopes EXCEPT ![running] = Append(@,
                [top |-> top,
                 restoreLimit |-> IF nested /\ newLimit # limit[i] THEN limit[i] ELSE 0,
                 restoreScan  |-> IF nested /\ prev # newScan THEN prev ELSE 0])]
           /\ regions' = answer[2]
           /\ evicted' = evicted \cup (InUse \ {StackAt(r.lo) : r \in answer[2]})
           /\ UNCHANGED place
  BY ZenonT(60), <1>1, <1>2, <1>4 DEF EnterScope
<1>0. PICK entering : entering = (depth[i] = 0 \/ current # i)
  OBVIOUS
<1>8. PICK prev \in Nat : /\ prev = Enclosing(i, entering)
                          /\ FieldFound => prev = IF depth[i] > 0 THEN scan[i] ELSE 0
  BY <1>6 DEF Enclosing
<1>a. PICK r : r = answer[1]
  OBVIOUS
<1>b. PICK l, c : /\ l = LimitFor(n = NativeStack, r.lo, sp)
                  /\ c = ScanFor(n = NativeStack, prev # 0, prev, r.seen, sp, top)
  OBVIOUS
<1>c. PICK s : s = [top |-> top, restoreLimit |-> IF prev # 0 /\ l # limit[i] THEN limit[i] ELSE 0,
                    restoreScan |-> IF prev # 0 /\ prev # c THEN prev ELSE 0]
  OBVIOUS
<1>9. /\ r = answer[1] /\ l = LimitFor(n = NativeStack, r.lo, sp)
      /\ c = ScanFor(n = NativeStack, prev # 0, prev, r.seen, sp, top)
      /\ s = [top |-> top, restoreLimit |-> IF prev # 0 /\ l # limit[i] THEN limit[i] ELSE 0,
              restoreScan |-> IF prev # 0 /\ prev # c THEN prev ELSE 0]
  BY <1>a, <1>b, <1>c
<1>10. /\ limit' = [limit EXCEPT ![i] = l]
       /\ scan' = [scan EXCEPT ![i] = IF FieldFound THEN c ELSE IF entering THEN NativeTop ELSE @]
       /\ scopes' = [scopes EXCEPT ![running] = Append(@, s)]
       /\ regions' = answer[2]
       /\ evicted' = evicted \cup (InUse \ {StackAt(q.lo) : q \in regions'})
       /\ UNCHANGED place
  BY <1>0, <1>7, <1>8, <1>9
<1>11. n # NativeStack =>
         /\ r.lo = b /\ r.seen \in Nat /\ top <= r.seen /\ r.seen <= h
         /\ r \in regions' /\ RegionsOK(regions') /\ \A q \in regions' : q \in regions \/ q = r
         /\ regions' = regions \/ \A q \in regions : q.lo = b => ~(top <= q.seen)
  <2> SUFFICES ASSUME n # NativeStack
               PROVE  /\ r.lo = b /\ r.seen \in Nat /\ top <= r.seen /\ r.seen <= h
                      /\ r \in regions' /\ RegionsOK(regions') /\ \A q \in regions' : q \in regions \/ q = r
                      /\ regions' = regions \/ \A q \in regions : q.lo = b => ~(top <= q.seen)
    OBVIOUS
  <2>1. answer \in RegionAnswers(top) /\ n \in 1 .. FiberStacks /\ Bottom(n) <= top /\ top <= Ceiling(n)
    BY <1>3, <1>4, <1>7
  <2>2. /\ answer[1].lo = Bottom(n) /\ answer[1].seen \in Nat
        /\ top <= answer[1].seen /\ answer[1].seen <= Ceiling(n)
        /\ answer[1] \in answer[2] /\ RegionsOK(answer[2])
        /\ \A q \in answer[2] : q \in regions \/ q = answer[1]
        /\ answer[2] = regions \/ \A q \in regions : q.lo = Bottom(n) => ~(top <= q.seen)
    BY <1>3, <1>6, <2>1, Answers
  <2> QED BY <1>4, <1>9, <1>10, <2>2
<1>12. n = NativeStack => UNCHANGED regions /\ h = NativeTop
  <2>1. n = NativeStack => answer = <<[lo |-> 0, seen |-> 0], regions>>
    BY <1>7
  <2>2. n = NativeStack => answer[2] = regions
    BY <2>1
  <2> QED BY <1>4, <1>10, <2>2 DEF NativeTop
<1>13. /\ l \in Nat \ {0} /\ b < l /\ l <= h
       /\ l < sp \/ (n = NativeStack /\ sp <= b + NativeGuard)
  <2>1. PICK guard \in Nat \ {0}, reserve \in Nat \ {0} :
          guard = NativeGuard /\ reserve = FiberReserve /\ guard < Span /\ Span \in Nat
    BY AddressAssumption
  <2>2. CASE n = NativeStack
    <3>1. l = b + guard
      BY <1>4, <1>9, <2>1, <2>2 DEF LimitFor
    <3>2. /\ b + guard \in Nat \ {0} /\ b < b + guard /\ b + guard <= h
          /\ b + guard < sp \/ sp <= b + guard
      BY <1>4, <2>1
    <3> QED BY <2>1, <2>2, <3>1, <3>2
  <2>3. CASE n # NativeStack
    <3>1. l = IF b + reserve < sp - 1 THEN b + reserve ELSE sp - 1
      BY <1>9, <1>11, <2>1, <2>3 DEF LimitFor
    <3>2. b + reserve \in Nat /\ b < b + reserve /\ sp - 1 \in Nat /\ b < sp - 1 /\ sp - 1 <= h /\ sp - 1 < sp
      BY <1>3, <1>4, <1>5, <2>1
    <3> QED BY <1>4, <3>1, <3>2
  <2> QED BY <2>2, <2>3
<1>14. c \in Nat \ {0} /\ b <= c /\ c <= h /\ c > sp
  <2>1. CASE n = NativeStack
    <3>1. c = h
      BY <1>9, <1>12, <2>1 DEF ScanFor
    <3> QED BY <1>3, <1>4, <1>5, <3>1
  <2>2. CASE n # NativeStack
    <3>1. c = IF prev # 0 /\ prev > sp /\ prev <= r.seen THEN prev ELSE top
      BY <1>9, <2>2 DEF ScanFor
    <3>2. PICK seen \in Nat : seen = r.seen /\ top <= seen /\ seen <= h
      BY <1>11, <2>2
    <3> QED BY <1>3, <1>5, <3>1, <3>2
  <2> QED BY <2>1, <2>2
<1>15. s \in Scope /\ s.top = top
  BY <1>3, <1>6, <1>9 DEF Scope
<1>16. scan' \in [Isolates -> Nat]
  <2>1. NativeTop \in Nat
    BY AddressAssumption, StackArith DEF NativeTop, NativeStack
  <2> QED BY <1>6, <1>10, <1>14, <2>1
<1>17. FieldFound =>
         /\ scan' = [scan EXCEPT ![i] = c]
         /\ s.restoreLimit = IF depth[i] > 0 /\ scan[i] # 0 /\ l # limit[i] THEN limit[i] ELSE 0
         /\ s.restoreScan = IF depth[i] > 0 /\ scan[i] # 0 /\ c # scan[i] THEN scan[i] ELSE 0
  BY <1>8, <1>9, <1>10
<1>18. n = NativeStack => c = NativeTop
  BY <1>9 DEF ScanFor
<1>19. n # NativeStack =>
         /\ c <= r.seen
         /\ FieldFound /\ depth[i] > 0 /\ sp < scan[i] /\ scan[i] <= r.seen => c = scan[i]
  <2> SUFFICES ASSUME n # NativeStack
               PROVE  /\ c <= r.seen
                      /\ FieldFound /\ depth[i] > 0 /\ sp < scan[i] /\ scan[i] <= r.seen => c = scan[i]
    OBVIOUS
  <2>1. c = IF prev # 0 /\ prev > sp /\ prev <= r.seen THEN prev ELSE top
    BY <1>9 DEF ScanFor
  <2>2. scan[i] \in Nat /\ (sp < scan[i] => scan[i] # 0)
    BY <1>6
  <2> QED BY <1>8, <1>11, <2>1, <2>2
<1>20. RegionsOK(regions')
  BY <1>6, <1>11, <1>12
<1>21. Entered(i, n, top, r, l, c, s)
  BY <1>4, <1>10, <1>11, <1>12, <1>13, <1>14, <1>15, <1>16, <1>17, <1>18, <1>19
     DEF Entered, LimitIn, ScanIn
<1> QED BY <1>3, <1>4, <1>20, <1>21

-----------------------------------------------------------------------------
\* The StackScopes sc on stack n fit the operations among the frames st; their scans
\* reach the ones around them and the cached region has seen them, unless evicted.
FiberDescribed(st, sc, n, L, C, R, gone) ==
  /\ FiberFits(st, sc, n, L, C)
  /\ n \notin gone => FiberCovers(st, sc, C)
  /\ n # NativeStack /\ n \notin gone /\ sc # <<>> =>
       \E r \in R : r.lo = Bottom(n) /\ FiberSeen(st, sc, r, C)

\* Each isolate has the limit and scan start of the operation that started last
\* on it; each Fiber's StackScopes fit its operations.
Described(L, C) ==
  /\ \A i \in Isolates :
       depth[i] > 0 => limit[i] = L[i][depth[i] - 1] /\ scan[i] = C[i][depth[i] - 1]
  /\ \A f \in Fibers \ abandoned :
       FiberDescribed(stack[f], scopes[f], place[f], L, C, regions, evicted)

(* A Fiber without StackScopes runs no operation.                          *)
LEMMA NoScopeNoOp ==
  ASSUME NestTypeOK, TopsInv, NEW f \in Fibers
  PROVE  /\ \A k \in DOMAIN stack[f] : stack[f][k].kind = "op" =>
              Count(stack[f], k) \in DOMAIN scopes[f]
         /\ scopes[f] # <<>> => stack[f] # <<>>
<1>1. PICK n \in Nat, m \in Nat :
        /\ n = Len(stack[f]) /\ DOMAIN stack[f] = 1 .. n
        /\ m = Len(scopes[f]) /\ DOMAIN scopes[f] = 1 .. m /\ m = Count(stack[f], n)
        /\ (scopes[f] # <<>> => m # 0) /\ (n # 0 => stack[f] # <<>>)
  BY Frames, EmptySeq DEF TopsInv
<1>2. \A k \in 1 .. n : stack[f][k].kind = "op" => Count(stack[f], k) \in 1 .. m
  BY <1>1, CountOp
<1>3. m # 0 => n # 0
  BY <1>1, CountNat
<1> QED BY <1>1, <1>2, <1>3

(* The operations in flight on i started at less than its depth.           *)
LEMMA AllAbove ==
  ASSUME IndInv, NEW i \in Isolates, NEW f \in Fibers
  PROVE  Above(stack[f], i, depth[i])
BY Frames DEF IndInv, NestInv, DepthsBelow, Above

(* The cached region of the stack an operation starts on is the one that   *)
(* has seen the operations there.                                          *)
LEMMA AnswerHasSeen ==
  ASSUME IndInv, AbandonedAreOff, BaseInv, NEW L, NEW C, Described(L, C),
         NEW i \in Isolates, NEW top \in Nat, NEW r, NEW l, NEW c, NEW s,
         Entered(i, place[running], top, r, l, c, s), RegionsOK(regions'),
         \A m \in DOMAIN scopes[running] : top < SpBelow(scopes[running][m].top),
         place[running] # NativeStack, place[running] \notin evicted
  PROVE  FiberSeen(stack[running], scopes[running], r, C)
<1>1. running \in Fibers \ abandoned
  BY RunningPlaced DEF BaseInv
<1>2. CASE scopes[running] = <<>>
  <2>1. DOMAIN scopes[running] = {}
    BY <1>2
  <2>2. \A k \in DOMAIN stack[running] : stack[running][k].kind # "op"
    BY <1>1, <2>1, NoScopeNoOp DEF BaseInv, IndInv
  <2> QED BY <2>1, <2>2 DEF FiberSeen
<1>3. CASE scopes[running] # <<>>
  <2>1. PICK q \in regions : /\ q.lo = Bottom(place[running])
                             /\ FiberSeen(stack[running], scopes[running], q, C)
    BY <1>1, <1>3 DEF Described, FiberDescribed
  <2>2. PICK t \in Nat : t = scopes[running][1].top /\ 1 \in DOMAIN scopes[running] /\ t <= q.seen
    <3>1. scopes[running] \in Seq(Scope)
      BY <1>1 DEF BaseInv, TopsInv
    <3>2. 1 \in DOMAIN scopes[running] /\ scopes[running][1] \in Scope
      BY <1>3, <3>1
    <3> QED BY <2>1, <3>2 DEF Scope, FiberSeen
  <2>3. top <= q.seen
    <3>1. q.seen \in Nat /\ top < t - 2
      BY <2>1, <2>2 DEF BaseInv, AddressInv, RegionsOK, SpBelow
    <3> QED BY <2>2, <3>1
  <2>4. regions' = regions /\ r \in regions /\ r.lo = Bottom(place[running])
    BY <2>1, <2>3 DEF Entered
  <2>5. r = q
    BY <2>1, <2>4 DEF BaseInv, AddressInv, RegionsOK
  <2> QED BY <2>1, <2>5
<1> QED BY <1>2, <1>3

(* The region of another stack in use is evicted or stays.                 *)
LEMMA OthersStaySeen ==
  ASSUME IndInv, AbandonedAreOff, BaseInv, NEW f \in Fibers \ abandoned, f # running,
         NEW i, NEW top, NEW r, NEW l, NEW c, NEW s, Entered(i, place[running], top, r, l, c, s),
         scopes[f] # <<>>, place[f] # NativeStack, place[f] \notin evicted',
         NEW q \in regions, q.lo = Bottom(place[f])
  PROVE  q \in regions'
<1>1. CASE place[running] = NativeStack
  BY <1>1 DEF Entered
<1>2. CASE place[running] # NativeStack
  <2>1. place[f] # NoStack /\ running \in Fibers \ abandoned
    BY RunningPlaced, NoScopeNoOp DEF BaseInv, PlaceInv, IndInv
  <2>2. place[f] \in InUse
    BY <2>1 DEF InUse
  <2>3. PICK p \in regions' : StackAt(p.lo) = place[f]
    BY <2>2 DEF Entered
  <2>4. \A n \in Nat : StackAt(Bottom(n)) = n
    <3> SUFFICES ASSUME NEW n \in Nat PROVE StackAt(Bottom(n)) = n
      OBVIOUS
    <3>1. PICK b \in Nat, h \in Nat : b = Bottom(n) /\ h = Ceiling(n) /\ h = b + Span - 1
      BY StackArith
    <3>2. b <= b /\ b <= h
      BY <3>1, AddressAssumption
    <3> QED BY <3>1, <3>2, StackAtIs
  <2>5. place[f] \in Nat /\ place[running] \in Nat /\ place[f] # place[running]
    <3>1. place[running] # NoStack /\ \A g \in Fibers : place[g] \in 0 .. NativeStack
      BY RunningPlaced DEF BaseInv, PlaceInv, NoStack
    <3> QED BY <2>1, <3>1 DEF BaseInv, PlaceInv
  <2>6. p # r
    BY <1>2, <2>3, <2>4, <2>5 DEF Entered
  <2>7. p \in regions
    BY <1>2, <2>3, <2>6 DEF Entered
  <2>8. PICK m \in 1 .. FiberStacks : p.lo = Bottom(m)
    BY <2>7 DEF BaseInv, AddressInv, RegionsOK
  <2>9. m = place[f]
    BY <2>3, <2>4, <2>8
  <2>10. p = q
    BY <2>7, <2>8, <2>9 DEF BaseInv, AddressInv, RegionsOK
  <2> QED BY <2>3, <2>10
<1> QED BY <1>1, <1>2

-----------------------------------------------------------------------------
\* M and D are the ghosts L and C with l and c for an operation of i at depth d.
Grown(L, C, M, D, i, d, l, c) ==
  M \in Ghosts /\ D \in Ghosts /\ Deeper(L, C, M, D, i, d) /\ M[i][d] = l /\ D[i][d] = c

(* The ghosts for an operation of i that starts at depth d.                *)
LEMMA GhostsDeeper ==
  ASSUME NEW L \in Ghosts, NEW C \in Ghosts, NEW i \in Isolates, NEW d \in Nat,
         NEW l \in Nat \ {0}, NEW c \in Nat \ {0}
  PROVE  \E M, D : Grown(L, C, M, D, i, d, l, c)
<1>1. PICK M, D : /\ M = [L EXCEPT ![i] = [L[i] EXCEPT ![d] = l]]
                  /\ D = [C EXCEPT ![i] = [C[i] EXCEPT ![d] = c]]
  OBVIOUS
<1>2. L[i] \in [Nat -> Nat \ {0}] /\ C[i] \in [Nat -> Nat \ {0}]
  BY DEF Ghosts
<1>3. M \in Ghosts /\ D \in Ghosts
  BY <1>1, <1>2 DEF Ghosts
<1>4. /\ M[i] = [L[i] EXCEPT ![d] = l] /\ D[i] = [C[i] EXCEPT ![d] = c]
      /\ \A j \in Isolates : j # i => M[j] = L[j] /\ D[j] = C[j]
  BY <1>1 DEF Ghosts
<1>5. M[i][d] = l /\ D[i][d] = c /\ \A e \in Nat : e # d => M[i][e] = L[i][e] /\ D[i][e] = C[i][e]
  BY <1>2, <1>4
<1> QED BY ZenonT(60), <1>3, <1>4, <1>5 DEF Deeper, Grown

(* The new operation's StackScope, by the ghosts.                          *)
LEMMA NewScopeFits ==
  ASSUME IndInv, AddressInv, FieldFound, NEW L \in Ghosts, NEW C \in Ghosts, Described(L, C),
         NEW i \in Isolates, NEW n, NEW top \in Nat, NEW r, NEW l, NEW c, NEW s,
         Bottom(n) + 1 < SpBelow(top), top <= Ceiling(n), Entered(i, n, top, r, l, c, s),
         NEW M, NEW D, Deeper(L, C, M, D, i, depth[i]), M[i][depth[i]] = l, D[i][depth[i]] = c,
         NEW fr, fr.iso = i, fr.depth = depth[i]
  PROVE  ScopeFits(n, fr, s, M, D)
<1>1. PICK d \in Nat : d = depth[i]
  BY DEF IndInv, NestTypeOK
<1>2. /\ s \in Scope /\ s.top = top /\ LimitIn(l, n, SpBelow(s.top)) /\ ScanIn(c, n, SpBelow(s.top))
      /\ s.restoreLimit = IF d > 0 /\ scan[i] # 0 /\ l # limit[i] THEN limit[i] ELSE 0
      /\ s.restoreScan = IF d > 0 /\ scan[i] # 0 /\ c # scan[i] THEN scan[i] ELSE 0
  BY <1>1 DEF Entered
<1>3. d > 0 => /\ d - 1 \in Nat /\ d - 1 # d
               /\ limit[i] = M[i][d - 1] /\ scan[i] = D[i][d - 1] /\ scan[i] # 0
  <2> SUFFICES ASSUME d > 0
               PROVE  /\ d - 1 \in Nat /\ d - 1 # d
                      /\ limit[i] = M[i][d - 1] /\ scan[i] = D[i][d - 1] /\ scan[i] # 0
    OBVIOUS
  <2>1. PICK e \in Nat : e = d - 1 /\ e # d
    <3>1. d - 1 \in Nat /\ d - 1 # d
      OBVIOUS
    <3> QED BY <3>1
  <2>2. limit[i] = L[i][e] /\ scan[i] = C[i][e]
    BY <1>1, <2>1 DEF Described
  <2>3. M[i][e] = L[i][e] /\ D[i][e] = C[i][e]
    BY <1>1, <2>1 DEF Deeper
  <2>4. C[i][e] # 0
    BY DEF Ghosts
  <2> QED BY <2>1, <2>2, <2>3, <2>4
<1>4. PutsBack(s.restoreLimit, M[i], d) /\ PutsBack(s.restoreScan, D[i], d)
  BY <1>1, <1>2, <1>3 DEF PutsBack
<1> QED BY <1>1, <1>2, <1>4 DEF ScopeFits

(* Its scan reaches the operation around it.                               *)
LEMMA NewScanCovers ==
  ASSUME IndInv, AbandonedAreOff, BaseInv, FieldFound,
         NEW L, NEW C, Described(L, C),
         NEW i \in Isolates, NEW top \in Nat, NEW r, NEW l, NEW c, NEW s,
         Entered(i, place[running], top, r, l, c, s), RegionsOK(regions'),
         top <= Ceiling(place[running]),
         \A m \in DOMAIN scopes[running] : top < SpBelow(scopes[running][m].top),
         place[running] \notin evicted,
         NEW k \in DOMAIN stack[running], stack[running][k].kind = "op",
         stack[running][k].iso = i, stack[running][k].depth = depth[i] - 1
  PROVE  c > SpBelow(scopes[running][Count(stack[running], k)].top)
<1>1. running \in Fibers \ abandoned
  BY RunningPlaced DEF BaseInv
<1>2. PICK m : m = Count(stack[running], k) /\ m \in DOMAIN scopes[running]
  BY <1>1, NoScopeNoOp DEF BaseInv, IndInv
<1>3. PICK y \in Nat : y = scopes[running][m].top /\ y <= Ceiling(place[running]) /\ top < y - 2
  <2>1. scopes[running] \in Seq(Scope) /\ FiberTops(scopes[running], place[running])
    BY <1>1 DEF BaseInv, TopsInv
  <2>2. scopes[running][m] \in Scope
    BY <1>2, <2>1
  <2> QED BY <1>2, <2>1, <2>2 DEF Scope, FiberTops, SpBelow
<1>4. PICK x \in Nat : x = scan[i]
  BY DEF BaseInv, AddressInv
<1>5. PICK d \in Nat : d = depth[i] /\ d > 0
  <2>1. depth[i] \in Nat /\ depth[i] - 1 \in Nat
    BY <1>1, Frames DEF IndInv, NestTypeOK
  <2> QED BY <2>1
<1>6. scan[i] = C[i][d - 1]
  BY <1>5 DEF Described
<1>7. x > y - 2
  <2>1. ScopeFits(place[running], stack[running][k], scopes[running][m], L, C)
    BY <1>1, <1>2 DEF Described, FiberDescribed, FiberFits
  <2> QED BY <1>3, <1>4, <1>5, <1>6, <2>1 DEF ScopeFits, ScanIn, SpBelow
<1>8. CASE place[running] = NativeStack
  <2>1. c = Ceiling(place[running])
    BY <1>8 DEF Entered, NativeTop
  <2>2. PICK h \in Nat : h = Ceiling(place[running]) /\ h > y - 2
    <3>1. place[running] \in Nat
      BY RunningPlaced DEF BaseInv
    <3>2. PICK h \in Nat : h = Ceiling(place[running])
      BY <3>1, StackArith
    <3> QED BY <1>3, <3>2
  <2> QED BY <1>2, <1>3, <2>1, <2>2 DEF SpBelow
<1>9. CASE place[running] # NativeStack
  <2>1. FiberSeen(stack[running], scopes[running], r, C)
    BY <1>9, AnswerHasSeen
  <2>2. scan[i] <= r.seen
    BY <1>5, <1>6, <2>1 DEF FiberSeen
  <2>3. SpBelow(top) < scan[i]
    BY <1>3, <1>4, <1>7 DEF SpBelow
  <2>4. c = scan[i]
    BY <1>5, <1>9, <2>2, <2>3 DEF Entered
  <2> QED BY <1>2, <1>3, <1>4, <1>7, <2>4 DEF SpBelow
<1> QED BY <1>8, <1>9

(* The Fiber an operation starts on is described with it.                  *)
LEMMA StartRunning ==
  ASSUME IndInv, AbandonedAreOff, BaseInv, FieldFound,
         NEW L \in Ghosts, NEW C \in Ghosts, Described(L, C),
         NEW i \in Isolates, NEW top \in Nat, NEW r, NEW l, NEW c, NEW s,
         Entered(i, place[running], top, r, l, c, s), RegionsOK(regions'),
         Bottom(place[running]) + 1 < SpBelow(top), top <= Ceiling(place[running]),
         \A m \in DOMAIN scopes[running] : top < SpBelow(scopes[running][m].top),
         NEW M, NEW D, Deeper(L, C, M, D, i, depth[i]),
         M[i][depth[i]] = l, D[i][depth[i]] = c,
         NEW fr \in Frame, fr.kind = "op", fr.iso = i, fr.depth = depth[i],
         NEW t, t = Append(stack[running], fr), NEW tc, tc = Append(scopes[running], s)
  PROVE  FiberDescribed(t, tc, place[running], M, D, regions', evicted')
<1>1. running \in Fibers \ abandoned /\ stack[running] \in Seq(Frame)
  BY RunningPlaced DEF BaseInv, IndInv, NestTypeOK
<1>2. PICK st, sc, n : st = stack[running] /\ sc = scopes[running] /\ n = place[running]
  OBVIOUS
<1>3. /\ st \in Seq(Frame) /\ sc \in Seq(Scope) /\ Len(sc) = Count(st, Len(st))
      /\ s \in Scope /\ s.top = top
  BY <1>1, <1>2 DEF BaseInv, TopsInv, Entered
<1>4. Above(st, fr.iso, fr.depth) /\ depth[i] \in Nat
  BY <1>1, <1>2, AllAbove DEF IndInv, NestTypeOK
<1>5. FiberDescribed(st, sc, n, L, C, regions, evicted)
  BY <1>1, <1>2 DEF Described
<1>6. /\ FiberFits(st, sc, n, M, D)
      /\ n \notin evicted => FiberCovers(st, sc, D)
      /\ \A q : FiberSeen(st, sc, q, C) => FiberSeen(st, sc, q, D)
  BY <1>4, <1>5, DeeperFits DEF FiberDescribed
<1>7. ScopeFits(n, fr, s, M, D)
  BY <1>2, NewScopeFits DEF BaseInv
<1>8. FiberFits(t, tc, n, M, D)
  BY <1>2, <1>3, <1>6, <1>7, StartFits
<1>9. evicted \subseteq evicted'
  BY DEF Entered
<1>10. ASSUME n \notin evicted' PROVE FiberCovers(t, tc, D)
  <2>1. n \notin evicted
    BY <1>9, <1>10
  <2>2. \A k \in DOMAIN st :
          st[k].kind = "op" /\ st[k].iso = fr.iso /\ st[k].depth = fr.depth - 1
          => D[fr.iso][fr.depth] > SpBelow(sc[Count(st, k)].top)
    BY <1>2, <2>1, NewScanCovers
  <2> QED BY <1>2, <1>3, <1>4, <1>6, <2>1, <2>2, StartCovers
<1>11. ASSUME n # NativeStack, n \notin evicted'
       PROVE  r \in regions' /\ r.lo = Bottom(n) /\ FiberSeen(t, tc, r, D)
  <2>1. n \notin evicted
    BY <1>9, <1>11
  <2>2. r \in regions' /\ r.lo = Bottom(n) /\ top <= r.seen /\ c <= r.seen
    BY <1>2, <1>11 DEF Entered
  <2>3. FiberSeen(st, sc, r, D)
    BY <1>2, <1>6, <1>11, <2>1, AnswerHasSeen
  <2>4. s.top <= r.seen /\ D[fr.iso][fr.depth] <= r.seen
    BY <1>3, <2>2
  <2>5. FiberSeen(t, tc, r, D)
    BY <1>2, <1>3, <2>3, <2>4, StartSeen
  <2> QED BY <2>2, <2>5
<1> QED BY <1>2, <1>8, <1>10, <1>11 DEF FiberDescribed

(* The other Fibers are described as before.                               *)
LEMMA StartOther ==
  ASSUME IndInv, AbandonedAreOff, BaseInv, NEW L, NEW C, Described(L, C),
         NEW f \in Fibers \ abandoned, f # running,
         NEW i \in Isolates, NEW top, NEW r, NEW l, NEW c, NEW s,
         Entered(i, place[running], top, r, l, c, s),
         NEW M, NEW D, Deeper(L, C, M, D, i, depth[i])
  PROVE  FiberDescribed(stack[f], scopes[f], place[f], M, D, regions', evicted')
<1>1. Above(stack[f], i, depth[i]) /\ depth[i] \in Nat
  BY AllAbove DEF IndInv, NestTypeOK
<1>2. PICK st, sc, n : st = stack[f] /\ sc = scopes[f] /\ n = place[f]
  OBVIOUS
<1>3. FiberDescribed(st, sc, n, L, C, regions, evicted)
  BY <1>2 DEF Described
<1>4. /\ FiberFits(st, sc, n, M, D)
      /\ n \notin evicted => FiberCovers(st, sc, D)
      /\ \A q : FiberSeen(st, sc, q, C) => FiberSeen(st, sc, q, D)
  BY <1>1, <1>2, <1>3, DeeperFits DEF FiberDescribed
<1>5. evicted \subseteq evicted'
  BY DEF Entered
<1>6. ASSUME n # NativeStack, n \notin evicted', sc # <<>>
      PROVE  \E q \in regions' : q.lo = Bottom(n) /\ FiberSeen(st, sc, q, D)
  <2>1. PICK q \in regions : q.lo = Bottom(n) /\ FiberSeen(st, sc, q, C)
    BY <1>3, <1>5, <1>6 DEF FiberDescribed
  <2>2. q \in regions'
    BY <1>2, <1>6, <2>1, OthersStaySeen
  <2> QED BY <1>4, <2>1, <2>2
<1> QED BY <1>2, <1>4, <1>5, <1>6 DEF FiberDescribed

(* What a start leaves of the Fibers.                                      *)
LEMMA StartedFrame ==
  ASSUME IndInv, NEW i \in Isolates, Start(i)
  PROVE  \E fr \in Frame :
           /\ fr.kind = "op" /\ fr.iso = i /\ fr.depth = depth[i]
           /\ stack' = [stack EXCEPT ![running] = Append(@, fr)]
           /\ depth' = [depth EXCEPT ![i] = depth[i] + 1]
           /\ UNCHANGED <<running, resumer, abandoned>>
<1>1. PICK entered \in BOOLEAN :
        stack' = [stack EXCEPT ![running] = Append(@,
                    [kind |-> "op", iso |-> i, depth |-> depth[i], entered |-> entered])]
  BY DEF Start
<1>2. PICK fr : fr = [kind |-> "op", iso |-> i, depth |-> depth[i], entered |-> entered]
  OBVIOUS
<1>3. fr \in Frame /\ fr.kind = "op" /\ fr.iso = i /\ fr.depth = depth[i]
  BY <1>2 DEF Frame, IndInv, NestTypeOK
<1>4. /\ depth' = [depth EXCEPT ![i] = depth[i] + 1]
      /\ UNCHANGED <<running, resumer, abandoned>>
  BY DEF Start, fiberVars
<1> QED BY <1>1, <1>2, <1>3, <1>4

(* The new operation has ghosts, the others keep theirs.                   *)
LEMMA StartDescribes ==
  ASSUME IndInv, AbandonedAreOff, BaseInv, FieldFound,
         NEW L \in Ghosts, NEW C \in Ghosts, Described(L, C), NEW i \in Isolates, ScopedStart(i)
  PROVE  \E M \in Ghosts, D \in Ghosts : Described(M, D)'
<1>1. PICK top \in Nat : \E r, l, c, s :
        /\ Bottom(place[running]) + 1 < SpBelow(top) /\ top <= Ceiling(place[running])
        /\ \A m \in DOMAIN scopes[running] : top < SpBelow(scopes[running][m].top)
        /\ Entered(i, place[running], top, r, l, c, s)
        /\ RegionsOK(regions')
  BY EnterFits
<1>2. PICK r, l, c, s :
        /\ Bottom(place[running]) + 1 < SpBelow(top) /\ top <= Ceiling(place[running])
        /\ \A m \in DOMAIN scopes[running] : top < SpBelow(scopes[running][m].top)
        /\ Entered(i, place[running], top, r, l, c, s)
        /\ RegionsOK(regions')
  BY <1>1
<1>3. PICK d \in Nat : d = depth[i]
  BY DEF IndInv, NestTypeOK
<1>4. PICK M \in Ghosts, D \in Ghosts : Deeper(L, C, M, D, i, d) /\ M[i][d] = l /\ D[i][d] = c
  <2>1. l \in Nat \ {0} /\ c \in Nat \ {0}
    BY <1>2 DEF Entered
  <2>2. \E M, D : Grown(L, C, M, D, i, d, l, c)
    BY <1>3, <2>1, GhostsDeeper
  <2> QED BY <2>2 DEF Grown
<1>5. PICK fr \in Frame :
        /\ fr.kind = "op" /\ fr.iso = i /\ fr.depth = depth[i]
        /\ stack' = [stack EXCEPT ![running] = Append(@, fr)]
        /\ depth' = [depth EXCEPT ![i] = depth[i] + 1]
        /\ UNCHANGED <<running, resumer, abandoned>>
  BY StartedFrame DEF ScopedStart
<1>6. running \in Fibers \ abandoned
  BY RunningPlaced DEF BaseInv
<1>7. /\ limit' = [limit EXCEPT ![i] = l] /\ scan' = [scan EXCEPT ![i] = c] /\ UNCHANGED place
      /\ stack'[running] = Append(stack[running], fr) /\ scopes'[running] = Append(scopes[running], s)
      /\ \A f \in Fibers \ {running} : stack'[f] = stack[f] /\ scopes'[f] = scopes[f]
  BY <1>2, <1>5, <1>6 DEF Entered, BaseInv, TopsInv, IndInv, NestTypeOK
<1>8. ASSUME NEW j \in Isolates, depth'[j] > 0
      PROVE  limit'[j] = M[j][depth'[j] - 1] /\ scan'[j] = D[j][depth'[j] - 1]
  <2>1. CASE j = i
    <3>1. depth'[j] - 1 = d
      BY <1>3, <1>5, <2>1 DEF IndInv, NestTypeOK
    <3> QED BY <1>4, <1>7, <2>1, <3>1 DEF BaseInv, AddressInv
  <2>2. CASE j # i
    <3>1. depth'[j] = depth[j] /\ limit'[j] = limit[j] /\ scan'[j] = scan[j]
      BY <1>5, <1>7, <2>2 DEF IndInv, NestTypeOK, BaseInv, AddressInv
    <3>2. M[j] = L[j] /\ D[j] = C[j]
      BY <1>4, <2>2 DEF Deeper
    <3> QED BY <1>8, <3>1, <3>2 DEF Described
  <2> QED BY <2>1, <2>2
<1>9. FiberDescribed(stack'[running], scopes'[running], place[running], M, D, regions', evicted')
  <2>1. FiberDescribed(Append(stack[running], fr), Append(scopes[running], s), place[running],
                       M, D, regions', evicted')
    BY <1>2, <1>3, <1>4, <1>5, StartRunning
  <2> QED BY <1>7, <2>1
<1>10. ASSUME NEW f \in Fibers \ abandoned, f # running
       PROVE  FiberDescribed(stack'[f], scopes'[f], place[f], M, D, regions', evicted')
  BY <1>2, <1>3, <1>4, <1>7, <1>10, StartOther
<1>11. Described(M, D)'
  BY <1>5, <1>7, <1>8, <1>9, <1>10 DEF Described
<1> QED BY <1>11

(* A start keeps the Fibers' stacks, StackScopes and addresses.            *)
LEMMA StartBase ==
  ASSUME IndInv, AbandonedAreOff, BaseInv, NEW i \in Isolates, ScopedStart(i)
  PROVE  BaseInv'
<1>1. PICK top \in Nat : \E r, l, c, s :
        /\ Bottom(place[running]) + 1 < SpBelow(top) /\ top <= Ceiling(place[running])
        /\ \A m \in DOMAIN scopes[running] : top < SpBelow(scopes[running][m].top)
        /\ Entered(i, place[running], top, r, l, c, s)
        /\ RegionsOK(regions')
  BY EnterFits
<1>2. PICK r, l, c, s :
        /\ Bottom(place[running]) + 1 < SpBelow(top) /\ top <= Ceiling(place[running])
        /\ \A m \in DOMAIN scopes[running] : top < SpBelow(scopes[running][m].top)
        /\ Entered(i, place[running], top, r, l, c, s)
        /\ RegionsOK(regions')
  BY <1>1
<1>3. PICK fr \in Frame :
        /\ fr.kind = "op" /\ fr.iso = i /\ fr.depth = depth[i]
        /\ stack' = [stack EXCEPT ![running] = Append(@, fr)]
        /\ depth' = [depth EXCEPT ![i] = depth[i] + 1]
        /\ UNCHANGED <<running, resumer, abandoned>>
  BY StartedFrame DEF ScopedStart
<1>4. running \in Fibers \ abandoned /\ place[running] # NoStack
  BY RunningPlaced DEF BaseInv, NoStack
<1>5. /\ limit' = [limit EXCEPT ![i] = l] /\ UNCHANGED place
      /\ stack'[running] = Append(stack[running], fr) /\ scopes'[running] = Append(scopes[running], s)
      /\ \A f \in Fibers \ {running} : stack'[f] = stack[f] /\ scopes'[f] = scopes[f]
      /\ l \in Nat /\ scan' \in [Isolates -> Nat] /\ s \in Scope /\ s.top = top
      /\ scopes' = [scopes EXCEPT ![running] = scopes'[running]]
  BY <1>2, <1>3, <1>4 DEF Entered, BaseInv, TopsInv, IndInv, NestTypeOK
<1>6. AddressInv'
  <2>1. limit' \in [Isolates -> Nat]
    BY <1>5 DEF BaseInv, AddressInv
  <2>2. evicted' \subseteq 1 .. FiberStacks
    <3>1. InUse \subseteq 1 .. FiberStacks
      <4>1. \A n \in 0 .. NativeStack : n # 0 /\ n # NativeStack => n \in 1 .. FiberStacks
        BY AddressAssumption DEF NativeStack
      <4> QED BY <4>1 DEF InUse, BaseInv, PlaceInv, NoStack
    <3> QED BY <1>2, <3>1 DEF Entered, BaseInv, AddressInv
  <2> QED BY <1>2, <1>5, <2>1, <2>2 DEF AddressInv
<1>7. PlaceInv'
  BY <1>3, <1>4, <1>5 DEF BaseInv, PlaceInv
<1>8. TopsInv'
  <2>1. stack[running] \in Seq(Frame) /\ TopsFit(stack[running], scopes[running], place[running])
    BY <1>4 DEF BaseInv, TopsInv, IndInv, NestTypeOK, TopsFit
  <2>2. LiesBelow(s.top, place[running], scopes[running])
    BY <1>2, <1>5 DEF LiesBelow
  <2>3. PICK t, tc : t = Append(stack[running], fr) /\ tc = Append(scopes[running], s)
    OBVIOUS
  <2>4. TopsFit(t, tc, place[running])
    BY <1>3, <1>5, <2>1, <2>2, <2>3, StartTops
  <2>5. Len(tc) = Count(t, Len(t)) /\ tc \in Seq(Scope) /\ FiberTops(tc, place[running])
    BY <2>4 DEF TopsFit
  <2>6. scopes' \in [Fibers -> Seq(Scope)]
    BY <1>5, <2>3, <2>5 DEF BaseInv, TopsInv
  <2> QED BY <1>3, <1>5, <2>3, <2>6, <2>5 DEF BaseInv, TopsInv
<1> QED BY <1>6, <1>7, <1>8 DEF BaseInv

-----------------------------------------------------------------------------
\* No operation starts: each Fiber somebody can go back to has none, or only what
\* it had and where it had it; a stack that stays evicted stays marked.
Shrinks ==
  /\ UNCHANGED regions /\ evicted' \subseteq evicted /\ abandoned \subseteq abandoned'
  /\ limit' \in [Isolates -> Nat] /\ scan' \in [Isolates -> Nat]
  /\ scopes' \in [Fibers -> Seq(Scope)]
  /\ \A f \in Fibers : Len(scopes'[f]) = Count(stack'[f], Len(stack'[f]))
  /\ \A f \in Fibers \ abandoned' :
       \/ scopes'[f] = <<>> /\ \A k \in DOMAIN stack'[f] : stack'[f][k].kind # "op"
       \/ /\ place'[f] = place[f] /\ Within(stack'[f], scopes'[f], stack[f], scopes[f])
          /\ place[f] \in evicted => place[f] \in evicted'

(* The StackScopes that are left lie where they did.                       *)
LEMMA ShrinkBase ==
  ASSUME BaseInv, Shrinks, PlaceInv'
  PROVE  BaseInv'
<1>1. AddressInv'
  BY DEF BaseInv, AddressInv, Shrinks
<1>2. ASSUME NEW f \in Fibers \ abandoned' PROVE FiberTops(scopes'[f], place'[f])
  <2>1. CASE scopes'[f] = <<>>
    <3>1. DOMAIN scopes'[f] = {}
      BY <2>1
    <3> QED BY <3>1 DEF FiberTops
  <2>2. CASE place'[f] = place[f] /\ Within(stack'[f], scopes'[f], stack[f], scopes[f])
    <3>1. FiberTops(scopes[f], place[f])
      BY DEF BaseInv, TopsInv, Shrinks
    <3> QED BY <2>2, <3>1 DEF Within, FiberTops
  <2> QED BY <2>1, <2>2 DEF Shrinks
<1>3. TopsInv'
  BY <1>2 DEF TopsInv, Shrinks
<1> QED BY <1>1, <1>3 DEF BaseInv

(* The ghosts describe what is left.                                       *)
LEMMA ShrinkDescribed ==
  ASSUME NEW L, NEW C, Described(L, C), Shrinks,
         \A i \in Isolates : depth'[i] > 0 =>
           limit'[i] = L[i][depth'[i] - 1] /\ scan'[i] = C[i][depth'[i] - 1]
  PROVE  Described(L, C)'
<1>1. ASSUME NEW f \in Fibers \ abandoned'
      PROVE  FiberDescribed(stack'[f], scopes'[f], place'[f], L, C, regions', evicted')
  <2>1. PICK t, tc, m, st, sc, n : /\ t = stack'[f] /\ tc = scopes'[f] /\ m = place'[f]
                                   /\ st = stack[f] /\ sc = scopes[f] /\ n = place[f]
    OBVIOUS
  <2>2. CASE tc = <<>> /\ \A k \in DOMAIN t : t[k].kind # "op"
    <3>1. FiberFits(t, tc, m, L, C) /\ FiberCovers(t, tc, C)
      BY <2>2 DEF FiberFits, FiberCovers
    <3> QED BY <2>1, <2>2, <3>1 DEF FiberDescribed
  <2>3. CASE m = n /\ Within(t, tc, st, sc) /\ (n \in evicted => n \in evicted')
    <3>1. FiberDescribed(st, sc, n, L, C, regions, evicted)
      BY <2>1 DEF Described, Shrinks
    <3>2. FiberFits(t, tc, n, L, C)
      BY <2>3, <3>1, WithinFits DEF FiberDescribed
    <3>3. n \notin evicted' => FiberCovers(t, tc, C)
      BY <2>3, <3>1 DEF FiberDescribed, Within, FiberCovers
    <3>4. tc # <<>> => sc # <<>>
      <4>1. tc \in Seq(Scope)
        BY <2>1 DEF Shrinks
      <4>2. tc # <<>> => 1 \in DOMAIN tc
        BY <4>1
      <4>3. 1 \in DOMAIN tc => 1 \in DOMAIN sc
        BY <2>3 DEF Within
      <4> QED BY <4>2, <4>3
    <3>5. \A r : FiberSeen(st, sc, r, C) => FiberSeen(t, tc, r, C)
      BY <2>3 DEF Within, FiberSeen
    <3> QED BY <2>1, <2>3, <3>1, <3>2, <3>3, <3>4, <3>5 DEF FiberDescribed, Shrinks
  <2> QED BY <2>1, <2>2, <2>3 DEF Shrinks
<1> QED BY <1>1 DEF Described

(* What no step changes is Within.                                         *)
LEMMA SameWithin ==
  \A st, sc : Within(st, sc, st, sc)
BY DEF Within

(* A stack on which nothing is counted has no operation.                   *)
LEMMA NoneCounted ==
  ASSUME NEW st \in Seq(Frame), Count(st, Len(st)) = 0
  PROVE  \A k \in DOMAIN st : st[k].kind # "op"
<1>1. PICK n \in Nat : n = Len(st) /\ DOMAIN st = 1 .. n
  OBVIOUS
<1>2. \A k \in 1 .. n : st[k].kind = "op" => Count(st, k) \in 1 .. 0
  BY <1>1, CountOp
<1> QED BY <1>1, <1>2

(* The life of isolates leaves the stacks alone.                           *)
LEMMA StandingShrinks ==
  ASSUME BaseInv, UNCHANGED <<stack, resumer, abandoned, scopeVars>>
  PROVE  Shrinks /\ PlaceInv'
<1>1. PlaceInv'
  BY DEF BaseInv, PlaceInv, scopeVars
<1> QED BY <1>1, SameWithin DEF BaseInv, TopsInv, AddressInv, Shrinks, scopeVars

(* What a step that only changes the running Fiber's frames does.          *)
LEMMA FrameShrinks ==
  ASSUME IndInv, AbandonedAreOff, BaseInv, NEW t,
         stack' = [stack EXCEPT ![running] = t],
         UNCHANGED <<resumer, abandoned, scopeVars>>,
         Within(t, scopes[running], stack[running], scopes[running]),
         Count(t, Len(t)) = Count(stack[running], Len(stack[running]))
  PROVE  Shrinks /\ PlaceInv'
<1>1. running \in Fibers \ abandoned /\ place[running] # NoStack
  BY RunningPlaced DEF BaseInv, NoStack
<1>2. stack'[running] = t /\ \A f \in Fibers \ {running} : stack'[f] = stack[f]
  BY <1>1 DEF IndInv, NestTypeOK
<1>3. PlaceInv'
  BY <1>1, <1>2 DEF BaseInv, PlaceInv, scopeVars
<1>4. \A f \in Fibers : /\ Len(scopes'[f]) = Count(stack'[f], Len(stack'[f]))
                        /\ Within(stack'[f], scopes'[f], stack[f], scopes[f])
  <2> SUFFICES ASSUME NEW f \in Fibers
               PROVE  /\ Len(scopes'[f]) = Count(stack'[f], Len(stack'[f]))
                      /\ Within(stack'[f], scopes'[f], stack[f], scopes[f])
    OBVIOUS
  <2>1. CASE f = running
    BY <1>2, <2>1 DEF BaseInv, TopsInv, scopeVars
  <2>2. CASE f # running
    BY <1>2, <2>2, SameWithin DEF BaseInv, TopsInv, scopeVars
  <2> QED BY <2>1, <2>2
<1> QED BY <1>3, <1>4 DEF BaseInv, TopsInv, AddressInv, Shrinks, scopeVars

(* with_gvl pushes a callback, ...                                         *)
LEMMA CallShrinks ==
  ASSUME IndInv, AbandonedAreOff, BaseInv, CallRuby, UNCHANGED scopeVars
  PROVE  Shrinks /\ PlaceInv'
<1>1. running \in Fibers /\ stack[running] \in Seq(Frame) /\ Top(running).iso \in Isolates
  <2>1. running \in Fibers /\ stack[running] \in Seq(Frame) /\ stack[running] # <<>>
    BY RunningPlaced DEF BaseInv, IndInv, NestTypeOK, CallRuby, ScriptRuns, InRuby
  <2>2. Len(stack[running]) \in DOMAIN stack[running]
    BY <2>1
  <2> QED BY <2>1, <2>2, Frames DEF IndInv, Top
<1>2. PICK fr : fr = [kind |-> "callback", iso |-> Top(running).iso,
                      depth |-> depth[Top(running).iso], entered |-> FALSE]
  OBVIOUS
<1>3. fr \in Frame /\ fr.kind # "op"
  BY <1>1, <1>2 DEF Frame, IndInv, NestTypeOK
<1>4. stack' = [stack EXCEPT ![running] = Append(stack[running], fr)] /\ UNCHANGED <<resumer, abandoned>>
  BY <1>2 DEF CallRuby, fiberVars
<1>5. PICK t : t = Append(stack[running], fr)
  OBVIOUS
<1>6. /\ Within(t, scopes[running], stack[running], scopes[running])
      /\ Count(t, Len(t)) = Count(stack[running], Len(stack[running]))
  BY <1>1, <1>3, <1>5, CallbackWithin
<1> QED BY <1>4, <1>5, <1>6, FrameShrinks

(* ... and pops it, or stops the process.                                  *)
LEMMA ReturnShrinks ==
  ASSUME IndInv, AbandonedAreOff, BaseInv, ReturnRuby, UNCHANGED scopeVars
  PROVE  Shrinks /\ PlaceInv'
<1>1. UNCHANGED <<resumer, abandoned>>
  BY DEF ReturnRuby, fiberVars
<1>2. CASE UNCHANGED stack
  BY <1>1, <1>2, StandingShrinks
<1>3. CASE stack' = [stack EXCEPT ![running] = Pop(running)]
  <2>1. PICK st : st = stack[running] /\ st \in Seq(Frame) /\ st # <<>>
    BY RunningPlaced DEF BaseInv, IndInv, NestTypeOK, ReturnRuby
  <2>2. PICK n \in Nat : Len(st) = n + 1
    <3>1. Len(st) \in Nat /\ Len(st) # 0
      BY <2>1, EmptySeq
    <3>2. Len(st) - 1 \in Nat /\ Len(st) = (Len(st) - 1) + 1
      BY <3>1
    <3> QED BY <3>2
  <2>3. st[n + 1].kind # "op"
    <3>1. st[Len(st)].kind = "callback"
      BY <2>1 DEF ReturnRuby, RubyRuns, InRuby, Top
    <3> QED BY <2>2, <3>1
  <2>4. PICK t : t = SubSeq(st, 1, Len(st) - 1) /\ t = Pop(running)
    BY <2>1 DEF Pop
  <2>5. Within(t, scopes[running], st, scopes[running]) /\ Count(t, Len(t)) = Count(st, Len(st))
    BY <2>1, <2>2, <2>3, <2>4, CutWithin
  <2> QED BY <1>1, <1>3, <2>1, <2>4, <2>5, FrameShrinks
<1> QED BY <1>2, <1>3 DEF ReturnRuby

(* A Fiber that is resumed for the first time has had nothing.             *)
LEMMA ResumeShrinks ==
  ASSUME IndInv, AbandonedAreOff, BaseInv, NEW g \in Fibers, ScopedResume(g)
  PROVE  Shrinks /\ PlaceInv' /\ UNCHANGED <<limit, scan, depth>>
<1>1. PICK n \in 1 .. FiberStacks :
        /\ IF place[g] = NoStack THEN \A f \in Fibers : place[f] # n ELSE n = place[g]
        /\ place' = [place EXCEPT ![g] = n]
  BY DEF ScopedResume
<1>2. /\ g \notin abandoned /\ g \notin {MainFiber, running}
      /\ resumer' = [resumer EXCEPT ![g] = running]
      /\ UNCHANGED <<stack, abandoned, limit, scan, depth, scopes, regions, evicted>>
  BY DEF ScopedResume, Resume
<1>3. n \in 0 .. NativeStack /\ n # NoStack /\ n # NativeStack
  BY AddressAssumption DEF NativeStack, NoStack
<1>4. place'[g] = n /\ \A f \in Fibers \ {g} : place'[f] = place[f] /\ resumer'[f] = resumer[f]
  BY <1>1, <1>2 DEF BaseInv, PlaceInv, IndInv, NestTypeOK
<1>5. PlaceInv'
  <2>1. place' \in [Fibers -> 0 .. NativeStack]
    BY <1>1, <1>3 DEF BaseInv, PlaceInv
  <2>2. place'[MainFiber] = NativeStack /\ \A f \in Fibers \ {MainFiber} : place'[f] # NativeStack
    BY <1>2, <1>3, <1>4, MainIsFiber DEF BaseInv, PlaceInv
  <2>3. \A f \in Fibers \ {g} : place[f] # n
    BY <1>1, <1>3 DEF BaseInv, PlaceInv
  <2>4. \A f, h \in Fibers : place'[f] = place'[h] /\ place'[f] # NoStack => f = h
    BY <1>4, <2>3 DEF BaseInv, PlaceInv
  <2>5. \A f \in Fibers \ abandoned' :
          f = MainFiber \/ resumer'[f] # NoFiber \/ stack'[f] # <<>> => place'[f] # NoStack
    BY <1>2, <1>3, <1>4 DEF BaseInv, PlaceInv
  <2> QED BY <2>1, <2>2, <2>4, <2>5 DEF PlaceInv
<1>6. CASE place[g] # NoStack
  <2>1. place' = place
    BY <1>1, <1>6 DEF BaseInv, PlaceInv
  <2> QED BY <1>2, <1>5, <2>1, SameWithin DEF BaseInv, TopsInv, AddressInv, Shrinks
<1>7. CASE place[g] = NoStack
  <2>1. scopes[g] = <<>> /\ \A k \in DOMAIN stack[g] : stack[g][k].kind # "op"
    <3>1. stack[g] = <<>>
      BY <1>2, <1>7 DEF BaseInv, PlaceInv
    <3>2. DOMAIN stack[g] = {}
      BY <3>1
    <3>3. scopes[g] = <<>>
      BY <3>1, NoScopeNoOp DEF BaseInv, IndInv
    <3> QED BY <3>2, <3>3
  <2> QED BY <1>2, <1>4, <1>5, <2>1, SameWithin DEF BaseInv, TopsInv, AddressInv, Shrinks
<1> QED BY <1>6, <1>7

(* A Fiber that ends gives its stack back, one that yields keeps it.       *)
LEMMA YieldShrinks ==
  ASSUME IndInv, AbandonedAreOff, BaseInv, ScopedYield
  PROVE  Shrinks /\ PlaceInv' /\ UNCHANGED <<limit, scan, depth>>
<1>1. /\ running # MainFiber /\ running \in Fibers
      /\ resumer' = [resumer EXCEPT ![running] = NoFiber]
      /\ UNCHANGED <<stack, abandoned, limit, scan, depth, scopes, regions, evicted>>
  BY RunningPlaced DEF ScopedYield, Yield, BaseInv
<1>2. resumer'[running] = NoFiber /\ \A f \in Fibers \ {running} : resumer'[f] = resumer[f]
  BY <1>1 DEF IndInv, NestTypeOK
<1>3. CASE stack[running] # <<>>
  <2>1. UNCHANGED place
    BY <1>3 DEF ScopedYield
  <2>2. PlaceInv'
    BY <1>1, <1>2, <2>1 DEF BaseInv, PlaceInv
  <2> QED BY <1>1, <2>1, <2>2, SameWithin DEF BaseInv, TopsInv, AddressInv, Shrinks
<1>4. CASE stack[running] = <<>>
  <2>1. /\ place' = [place EXCEPT ![running] = NoStack] /\ place'[running] = NoStack
        /\ \A f \in Fibers \ {running} : place'[f] = place[f]
    BY <1>1, <1>4 DEF ScopedYield, BaseInv, PlaceInv
  <2>2. PlaceInv'
    <3>1. NoStack \in 0 .. NativeStack /\ NoStack # NativeStack
      BY AddressAssumption DEF NativeStack, NoStack
    <3> QED BY <1>1, <1>2, <1>4, <2>1, <3>1, MainIsFiber DEF BaseInv, PlaceInv
  <2>3. scopes[running] = <<>> /\ DOMAIN stack[running] = {}
    BY <1>1, <1>4, NoScopeNoOp DEF BaseInv, IndInv
  <2> QED BY <1>1, <2>1, <2>2, <2>3, SameWithin DEF BaseInv, TopsInv, AddressInv, Shrinks
<1> QED BY <1>3, <1>4

(* A Fiber nobody can go back to loses its stack to the pool.              *)
LEMMA AbandonShrinks ==
  ASSUME IndInv, AbandonedAreOff, BaseInv, NEW g \in Fibers, ScopedAbandon(g)
  PROVE  Shrinks /\ PlaceInv' /\ UNCHANGED <<limit, scan, depth>>
<1>1. /\ g # MainFiber /\ abandoned' = abandoned \cup {g} /\ g \notin abandoned /\ stack[g] # <<>>
      /\ place' = [place EXCEPT ![g] = NoStack] /\ evicted' = evicted \ {place[g]}
      /\ UNCHANGED <<stack, resumer, limit, scan, depth, scopes, regions>>
  BY DEF ScopedAbandon, Abandon
<1>2. place'[g] = NoStack /\ \A f \in Fibers \ {g} : place'[f] = place[f]
  BY <1>1 DEF BaseInv, PlaceInv
<1>3. PlaceInv'
  <2>1. NoStack \in 0 .. NativeStack /\ NoStack # NativeStack
    BY AddressAssumption DEF NativeStack, NoStack
  <2> QED BY <1>1, <1>2, <2>1, MainIsFiber DEF BaseInv, PlaceInv
<1>4. \A f \in Fibers \ abandoned' : place[f] # place[g]
  BY <1>1 DEF BaseInv, PlaceInv
<1> QED BY <1>1, <1>2, <1>3, <1>4, SameWithin DEF BaseInv, TopsInv, AddressInv, Shrinks

\* The operation of i at depth d that ends has the StackScope last; the one around
\* it, if any, has its limit and scan start again.
PutBack(i, d, L, C, last) ==
  /\ PutsBack(last.restoreLimit, L[i], d) /\ PutsBack(last.restoreScan, C[i], d)
  /\ limit[i] = L[i][d] /\ scan[i] = C[i][d]

(* Leave puts back what V8 had before.                                     *)
LEMMA LeavePutsBack ==
  ASSUME AddressInv, NEW L \in Ghosts, NEW C \in Ghosts, NEW i \in Isolates,
         NEW d \in Nat, d > 0, NEW last, PutBack(i, d, L, C, last), Leave(i, last)
  PROVE  limit'[i] = L[i][d - 1] /\ scan'[i] = C[i][d - 1]
<1>1. PICK e \in Nat : e = d - 1
  <2>1. d - 1 \in Nat
    OBVIOUS
  <2> QED BY <2>1
<1>2. L[i][e] # 0 /\ C[i][e] # 0
  BY DEF Ghosts
<1>3. /\ limit'[i] = IF last.restoreLimit # 0 THEN last.restoreLimit ELSE limit[i]
      /\ scan'[i] = IF last.restoreScan # 0 THEN last.restoreScan ELSE scan[i]
  BY DEF AddressInv, Leave
<1> QED BY <1>1, <1>2, <1>3 DEF PutBack, PutsBack

\* What a step that ends the operation of i at depth d, with the StackScope last,
\* does to the running Fiber's n + 1 frames and m + 1 StackScopes.
Ends(i, d, n, m, last) ==
  /\ running \in Fibers \ abandoned /\ stack[running] \in Seq(Frame)
  /\ Len(stack[running]) = n + 1 /\ Len(scopes[running]) = m + 1
  /\ scopes[running][m + 1] = last /\ last \in Scope
  /\ Count(stack[running], n + 1) = m + 1
  /\ stack[running][n + 1].kind = "op"
  /\ stack[running][n + 1].iso = i /\ stack[running][n + 1].depth = d /\ depth[i] = d + 1
  /\ stack' = [stack EXCEPT ![running] = SubSeq(stack[running], 1, Len(stack[running]) - 1)]
  /\ depth' = [depth EXCEPT ![i] = d] /\ UNCHANGED <<resumer, abandoned>>
  /\ Leave(i, last)

(* The operation that ends is the last one of its isolate.                 *)
LEMMA FinishedScope ==
  ASSUME IndInv, AbandonedAreOff, BaseInv, NEW outcome, ScopedFinish(outcome)
  PROVE  \E i \in Isolates, d \in Nat, n \in Nat, m \in Nat :
           \E last : Ends(i, d, n, m, last) /\ LeaveScope(i)
<1>1. /\ running \in Fibers \ abandoned /\ stack[running] \in Seq(Frame)
      /\ scopes[running] \in Seq(Scope)
      /\ Len(scopes[running]) = Count(stack[running], Len(stack[running]))
  BY RunningPlaced DEF BaseInv, TopsInv, IndInv, NestTypeOK
<1>2. stack[running] # <<>> /\ Top(running).kind # "callback" /\ ~InRuby(running)
  BY DEF ScopedFinish, Finish, ScriptRuns, InRuby
<1>3. PICK n \in Nat : Len(stack[running]) = n + 1 /\ n + 1 \in DOMAIN stack[running]
  <2>1. Len(stack[running]) \in Nat /\ Len(stack[running]) # 0 /\ Len(stack[running]) \in DOMAIN stack[running]
    BY <1>1, <1>2, EmptySeq
  <2>2. Len(stack[running]) - 1 \in Nat /\ Len(stack[running]) = (Len(stack[running]) - 1) + 1
    BY <2>1
  <2> QED BY <2>1, <2>2
<1>4. stack[running][n + 1] = Top(running) /\ stack[running][n + 1].kind = "op"
  BY <1>1, <1>2, <1>3, Frames DEF Top, IndInv
<1>5. PICK m \in Nat : Count(stack[running], n + 1) = m + 1
  <2>1. Count(stack[running], n + 1) = Count(stack[running], n) + 1 /\ Count(stack[running], n) \in Nat
    BY <1>4, CountNext, CountNat
  <2> QED BY <2>1
<1>6. Len(scopes[running]) = m + 1 /\ scopes[running][m + 1] \in Scope
  BY <1>1, <1>3, <1>5
<1>7. PICK i \in Isolates, d \in Nat : Top(running).iso = i /\ Top(running).depth = d
  BY <1>1, <1>3, <1>4, Frames DEF IndInv
<1>8. depth[i] = d + 1
  BY <1>2, <1>7 DEF IndInv, NestInv, TopIsLast
<1>9. /\ stack' = [stack EXCEPT ![running] = SubSeq(stack[running], 1, Len(stack[running]) - 1)]
      /\ depth' = [depth EXCEPT ![i] = depth[i] - 1] /\ UNCHANGED <<resumer, abandoned>>
  BY <1>7 DEF ScopedFinish, Finish, Pop, fiberVars
<1>10. depth[i] - 1 = d
  BY <1>8
<1>11. Leave(i, scopes[running][m + 1])
  BY <1>6, <1>7 DEF ScopedFinish, LeaveScope
<1>12. LeaveScope(i)
  BY <1>7 DEF ScopedFinish
<1>13. Ends(i, d, n, m, scopes[running][m + 1])
  BY <1>1, <1>3, <1>4, <1>5, <1>6, <1>7, <1>8, <1>9, <1>10, <1>11 DEF Ends
<1> QED BY <1>12, <1>13

(* The operation that ends, and its StackScope, are off the stack.         *)
LEMMA FinishShrinks ==
  ASSUME IndInv, AbandonedAreOff, BaseInv, NEW i \in Isolates, NEW d, NEW n \in Nat, NEW m \in Nat,
         NEW last, Ends(i, d, n, m, last), LeaveScope(i)
  PROVE  Shrinks /\ PlaceInv'
<1>1. /\ running \in Fibers \ abandoned /\ place[running] # NoStack
      /\ stack[running] \in Seq(Frame) /\ scopes[running] \in Seq(Scope)
  BY RunningPlaced DEF BaseInv, TopsInv, IndInv, NestTypeOK, NoStack
<1>2. PICK st, sc, t, tc : /\ st = stack[running] /\ sc = scopes[running]
                           /\ t = SubSeq(st, 1, Len(st) - 1) /\ tc = SubSeq(sc, 1, Len(sc) - 1)
  OBVIOUS
<1>3. /\ tc \in Seq(Scope) /\ Len(tc) = m /\ Within(t, tc, st, sc) /\ Count(t, Len(t)) = m
      /\ t \in Seq(Frame)
  <2>1. /\ st \in Seq(Frame) /\ Len(st) = n + 1 /\ st[n + 1].kind = "op"
        /\ sc \in Seq(Scope) /\ Len(sc) = Count(st, n + 1) /\ Len(sc) = m + 1
    BY <1>1, <1>2 DEF Ends
  <2>2. PICK k \in Nat : OneOpLess(t, tc, st, sc, k)
    BY <1>2, <2>1, OpCutWithin
  <2>3. k = m
    BY <2>1, <2>2 DEF OneOpLess
  <2>4. t \in Seq(Frame)
    <3>1. st # <<>> /\ t = SubSeq(st, 1, Len(st) - 1)
      BY <1>2, <2>1
    <3> QED BY <2>1, <3>1, Popped
  <2> QED BY <2>2, <2>3, <2>4 DEF OneOpLess
<1>4. /\ stack'[running] = t /\ scopes'[running] = tc
      /\ \A f \in Fibers \ {running} : stack'[f] = stack[f] /\ scopes'[f] = scopes[f]
      /\ scopes' \in [Fibers -> Seq(Scope)]
      /\ UNCHANGED <<place, regions, resumer, abandoned>>
      /\ evicted' = IF m = 0 THEN evicted \ {place[running]} ELSE evicted
  BY SMTT(30), <1>1, <1>2, <1>3 DEF Ends, LeaveScope, BaseInv, TopsInv, IndInv, NestTypeOK
<1>5. limit' \in [Isolates -> Nat] /\ scan' \in [Isolates -> Nat]
  <2>1. last.restoreLimit \in Nat /\ last.restoreScan \in Nat
    BY DEF Ends, Scope
  <2> QED BY <2>1 DEF Ends, Leave, BaseInv, AddressInv
<1>6. PlaceInv'
  BY <1>1, <1>4 DEF BaseInv, PlaceInv
<1>7. ASSUME NEW f \in Fibers PROVE Len(scopes'[f]) = Count(stack'[f], Len(stack'[f]))
  BY <1>3, <1>4 DEF BaseInv, TopsInv
<1>8. ASSUME NEW f \in Fibers \ abandoned, f # running
      PROVE  /\ place'[f] = place[f] /\ Within(stack'[f], scopes'[f], stack[f], scopes[f])
             /\ place[f] \in evicted => place[f] \in evicted'
  <2>1. place[f] # place[running]
    BY <1>1, <1>8 DEF BaseInv, PlaceInv
  <2> QED BY <1>4, <1>8, <2>1, SameWithin
<1>9. \/ scopes'[running] = <<>> /\ \A k \in DOMAIN stack'[running] : stack'[running][k].kind # "op"
      \/ /\ place'[running] = place[running]
         /\ Within(stack'[running], scopes'[running], stack[running], scopes[running])
         /\ place[running] \in evicted => place[running] \in evicted'
  <2>1. CASE m = 0
    <3>1. tc = <<>> /\ \A k \in DOMAIN t : t[k].kind # "op"
      BY <1>3, <2>1, EmptySeq, NoneCounted
    <3> QED BY <1>4, <3>1
  <2>2. CASE m # 0
    BY <1>2, <1>3, <1>4, <2>2
  <2> QED BY <2>1, <2>2
<1> QED BY <1>4, <1>5, <1>6, <1>7, <1>8, <1>9 DEF Shrinks

(* The operation around the one that ended has its own back.               *)
LEMMA FinishDescribed ==
  ASSUME IndInv, BaseInv, NEW L \in Ghosts, NEW C \in Ghosts, Described(L, C),
         NEW i \in Isolates, NEW d \in Nat, NEW n \in Nat, NEW m \in Nat,
         NEW last, Ends(i, d, n, m, last), Shrinks
  PROVE  Described(L, C)'
<1>1. /\ running \in Fibers \ abandoned /\ stack[running] \in Seq(Frame)
      /\ Len(stack[running]) = n + 1 /\ n + 1 \in DOMAIN stack[running]
      /\ stack[running][n + 1].kind = "op" /\ Count(stack[running], n + 1) = m + 1
      /\ depth[i] = d + 1 /\ depth' = [depth EXCEPT ![i] = d] /\ Leave(i, last)
      /\ scopes[running][m + 1] = last
      /\ stack[running][n + 1].iso = i /\ stack[running][n + 1].depth = d
  BY DEF Ends
<1>2. ScopeFits(place[running], stack[running][n + 1], last, L, C)
  BY <1>1 DEF Described, FiberDescribed, FiberFits
<1>3. limit[i] = L[i][d] /\ scan[i] = C[i][d]
  <2>1. depth[i] > 0 /\ depth[i] - 1 = d
    BY <1>1
  <2> QED BY <2>1 DEF Described
<1>4. PutBack(i, d, L, C, last)
  BY <1>1, <1>2, <1>3 DEF ScopeFits, PutBack
<1>5. ASSUME NEW j \in Isolates, depth'[j] > 0
      PROVE  limit'[j] = L[j][depth'[j] - 1] /\ scan'[j] = C[j][depth'[j] - 1]
  <2>1. CASE j = i
    <3>1. depth'[i] = d /\ d > 0
      BY <1>1, <1>5, <2>1 DEF IndInv, NestTypeOK
    <3>2. limit'[i] = L[i][d - 1] /\ scan'[i] = C[i][d - 1]
      BY <1>1, <1>4, <3>1, LeavePutsBack DEF BaseInv
    <3> QED BY <2>1, <3>1, <3>2
  <2>2. CASE j # i
    <3>1. depth'[j] = depth[j] /\ limit'[j] = limit[j] /\ scan'[j] = scan[j]
      BY <1>1, <2>2 DEF IndInv, NestTypeOK, Leave, BaseInv, AddressInv
    <3> QED BY <1>5, <3>1 DEF Described
  <2> QED BY <2>1, <2>2
<1> QED BY <1>5, ShrinkDescribed

-----------------------------------------------------------------------------
\* There are ghosts that describe the limits and scan starts.
HasGhosts == \E L \in Ghosts, C \in Ghosts : Described(L, C)

\* Where V8's scan start cannot be set, nothing is put back: see ScopeFits.
ScopeInv == BaseInv /\ (FieldFound => HasGhosts)

(* Steps that leave V8's limits and scan starts alone.                     *)
LEMMA QuietStep ==
  ASSUME ScopeInv, Shrinks, PlaceInv', UNCHANGED <<limit, scan, depth>>
  PROVE  ScopeInv'
<1>1. BaseInv'
  BY ShrinkBase DEF ScopeInv
<1>2. ASSUME FieldFound PROVE HasGhosts'
  <2>1. PICK L \in Ghosts, C \in Ghosts : Described(L, C)
    BY <1>2 DEF ScopeInv, HasGhosts
  <2>2. \A i \in Isolates : depth'[i] > 0 =>
           limit'[i] = L[i][depth'[i] - 1] /\ scan'[i] = C[i][depth'[i] - 1]
    BY <2>1 DEF Described
  <2>3. Described(L, C)'
    BY <2>1, <2>2, ShrinkDescribed
  <2> QED BY <2>3 DEF HasGhosts
<1> QED BY <1>1, <1>2 DEF ScopeInv

(* Every step keeps the StackScopes fitting.                               *)
LEMMA ScopeInvStep ==
  IndInv /\ AbandonedAreOff /\ ScopeInv /\ [ScopeNext]_<<vars, scopeVars>> => ScopeInv'
<1> SUFFICES ASSUME IndInv, AbandonedAreOff, ScopeInv, [ScopeNext]_<<vars, scopeVars>>
             PROVE  ScopeInv'
  OBVIOUS
<1>0. BaseInv
  BY DEF ScopeInv
<1>1. ASSUME NEW i \in Isolates, ScopedStart(i) PROVE ScopeInv'
  <2>1. BaseInv'
    BY <1>0, <1>1, StartBase
  <2>2. ASSUME FieldFound PROVE HasGhosts'
    <3>1. PICK L \in Ghosts, C \in Ghosts : Described(L, C)
      BY <2>2 DEF ScopeInv, HasGhosts
    <3>2. \E M \in Ghosts, D \in Ghosts : Described(M, D)'
      BY <1>0, <1>1, <2>2, <3>1, StartDescribes
    <3> QED BY <3>2 DEF HasGhosts
  <2> QED BY <2>1, <2>2 DEF ScopeInv
<1>2. ASSUME NEW outcome \in Outcomes, ScopedFinish(outcome) PROVE ScopeInv'
  <2>1. PICK i \in Isolates, d \in Nat, n \in Nat, m \in Nat :
          \E last : Ends(i, d, n, m, last) /\ LeaveScope(i)
    BY <1>0, <1>2, FinishedScope
  <2>2. PICK last : Ends(i, d, n, m, last) /\ LeaveScope(i)
    BY <2>1
  <2>3. Shrinks /\ PlaceInv'
    BY <1>0, <2>2, FinishShrinks
  <2>4. BaseInv'
    BY <1>0, <2>3, ShrinkBase
  <2>5. ASSUME FieldFound PROVE HasGhosts'
    <3>1. PICK L \in Ghosts, C \in Ghosts : Described(L, C)
      BY <2>5 DEF ScopeInv, HasGhosts
    <3>2. Described(L, C)'
      BY <1>0, <2>2, <2>3, <3>1, FinishDescribed
    <3> QED BY <3>2 DEF HasGhosts
  <2> QED BY <2>4, <2>5 DEF ScopeInv
<1>3. ASSUME NEW g \in Fibers, ScopedResume(g) PROVE ScopeInv'
  BY <1>0, <1>3, ResumeShrinks, QuietStep
<1>4. ASSUME NEW g \in Fibers, ScopedAbandon(g) PROVE ScopeInv'
  BY <1>0, <1>4, AbandonShrinks, QuietStep
<1>5. CASE ScopedYield
  BY <1>0, <1>5, YieldShrinks, QuietStep
<1>6. CASE Unscoped
  <2>1. UNCHANGED scopeVars /\ UNCHANGED <<limit, scan>>
    BY <1>6 DEF Unscoped, scopeVars
  <2>2. CASE CallRuby
    <3>1. UNCHANGED depth
      BY <2>2 DEF CallRuby
    <3> QED BY <1>0, <2>1, <2>2, <3>1, CallShrinks, QuietStep
  <2>3. CASE ReturnRuby
    <3>1. UNCHANGED depth
      BY <2>3 DEF ReturnRuby
    <3> QED BY <1>0, <2>1, <2>3, <3>1, ReturnShrinks, QuietStep
  <2>4. ASSUME NEW i \in Isolates, \/ New(i) \/ Dispose(i) \/ Release(i)
                                   \/ DropDisposed(i) \/ DropForeign(i) \/ DropOnOwner(i)
        PROVE  ScopeInv'
    <3>1. UNCHANGED <<stack, resumer, abandoned, depth>>
      BY <2>4 DEF New, Dispose, Release, DropDisposed, DropForeign, DropOnOwner, Collected, fiberVars
    <3> QED BY <1>0, <2>1, <3>1, StandingShrinks, QuietStep
  <2> QED BY <1>6, <2>2, <2>3, <2>4 DEF Unscoped
<1>7. CASE UNCHANGED <<vars, scopeVars>>
  <2>1. UNCHANGED <<stack, resumer, abandoned, depth>> /\ UNCHANGED scopeVars /\ UNCHANGED <<limit, scan>>
    BY <1>7 DEF vars, fiberVars, scopeVars
  <2> QED BY <1>0, <2>1, StandingShrinks, QuietStep
<1> QED BY <1>1, <1>2, <1>3, <1>4, <1>5, <1>6, <1>7 DEF ScopeNext

(* At first no operation is in flight and no region is cached.             *)
LEMMA ScopeInvInit == ScopeInit => ScopeInv
<1> SUFFICES ASSUME ScopeInit
             PROVE  ScopeInv
  OBVIOUS
<1>1. /\ \A f \in Fibers : stack[f] = <<>> /\ resumer[f] = NoFiber /\ scopes[f] = <<>>
      /\ abandoned = {} /\ regions = {} /\ evicted = {} /\ depth = [i \in Isolates |-> 0]
      /\ scopes = [f \in Fibers |-> <<>>]
      /\ place = [f \in Fibers |-> IF f = MainFiber THEN NativeStack ELSE NoStack]
      /\ limit = [i \in Isolates |-> 0] /\ scan = [i \in Isolates |-> NativeTop]
  BY DEF ScopeInit, Init
<1>2. NativeStack \in Nat /\ NoStack \in 0 .. NativeStack /\ NativeStack \in 0 .. NativeStack /\ NativeStack # NoStack
  BY AddressAssumption DEF NativeStack, NoStack
<1>3. PlaceInv
  BY <1>1, <1>2, MainIsFiber DEF PlaceInv
<1>4. TopsInv
  <2>1. Count(<<>>, 0) = 0 /\ Len(<<>>) = 0 /\ <<>> \in Seq(Scope) /\ DOMAIN <<>> = {}
    BY CountNat
  <2> QED BY <1>1, <2>1 DEF TopsInv, FiberTops
<1>5. AddressInv
  <2>1. NativeTop \in Nat
    BY <1>2, StackArith DEF NativeTop
  <2>2. RegionsOK(regions)
    <3>1. IsFiniteSet(regions) /\ Cardinality(regions) = 0 /\ 0 <= RegionSlots
      BY <1>1, FS_EmptySet, AddressAssumption
    <3> QED BY <1>1, <3>1 DEF RegionsOK
  <2> QED BY <1>1, <2>1, <2>2 DEF AddressInv
<1>6. HasGhosts
  <2>1. PICK G : G = [i \in Isolates |-> [d \in Nat |-> 1]]
    OBVIOUS
  <2>2. G \in Ghosts
    BY <2>1 DEF Ghosts
  <2>3. Described(G, G)
    <3>1. \A i \in Isolates : ~(depth[i] > 0)
      BY <1>1
    <3>2. \A f \in Fibers : DOMAIN stack[f] = {} /\ scopes[f] = <<>>
      BY <1>1
    <3> QED BY <3>1, <3>2 DEF Described, FiberDescribed, FiberFits, FiberCovers
  <2> QED BY <2>2, <2>3 DEF HasGhosts
<1> QED BY <1>3, <1>4, <1>5, <1>6 DEF ScopeInv, BaseInv

(* Every operation has a StackScope on the stack of its Fiber, which fits  *)
(* it by what V8 had when it began.                                        *)
THEOREM ScopeInvariant == ScopeSpec => [](IndInv /\ ScopeInv)
BY ScopeInvInit, ScopeInvStep, ScopedOpStack, PTL DEF ScopeSpec

(* The types: every operation has its StackScope and the table of regions  *)
(* (FIBER_REGIONS) does not outgrow its slots.                             *)
THEOREM ScopeTypes == ScopeSpec => []ScopeTypeOK
<1>1. TypeOK /\ ScopeInv => ScopeTypeOK
  <2> SUFFICES ASSUME TypeOK, ScopeInv
               PROVE  ScopeTypeOK
    OBVIOUS
  <2>1. /\ place \in [Fibers -> 0 .. NativeStack] /\ limit \in [Isolates -> Nat]
        /\ scan \in [Isolates -> Nat] /\ regions \subseteq [lo : Nat, seen : Nat]
        /\ Cardinality(regions) <= RegionSlots /\ evicted \subseteq 1 .. FiberStacks
    BY DEF ScopeInv, BaseInv, PlaceInv, AddressInv, RegionsOK
  <2>2. \A f \in Fibers : /\ scopes[f] \in Seq(Scope)
                          /\ Len(scopes[f]) = ScopeIndex(f, Len(stack[f]))
    BY DEF ScopeInv, BaseInv, TopsInv, ScopeIndex, Count
  <2> QED BY <2>1, <2>2 DEF ScopeTypeOK
<1>2. ScopeSpec => []TypeOK
  BY ScopedOpsNest, OpStackTypes, PTL
<1> QED BY <1>1, <1>2, ScopeInvariant, PTL

(* The operation whose JavaScript runs has the limit and scan start of its *)
(* depth, and its StackScope is the last on the Fiber.                     *)
LEMMA RunningFits ==
  ASSUME IndInv, AbandonedAreOff, BaseInv, FieldFound, HasGhosts, ScriptRuns
  PROVE  \E L \in Ghosts, C \in Ghosts :
           /\ Described(L, C)
           /\ ScopeFits(place[running], RunningOp, RunningScope, L, C)
           /\ RunningOp.iso \in Isolates
           /\ limit[RunningOp.iso] = L[RunningOp.iso][RunningOp.depth]
           /\ scan[RunningOp.iso] = C[RunningOp.iso][RunningOp.depth]
           /\ Len(stack[running]) \in DOMAIN stack[running]
           /\ RunningOp = stack[running][Len(stack[running])] /\ RunningOp.kind = "op"
<1>1. PICK L \in Ghosts, C \in Ghosts : Described(L, C)
  BY DEF HasGhosts
<1>2. /\ running \in Fibers \ abandoned /\ stack[running] \in Seq(Frame)
      /\ Len(scopes[running]) = Count(stack[running], Len(stack[running]))
      /\ stack[running] # <<>> /\ ~InRuby(running) /\ Top(running).kind # "callback"
  BY RunningPlaced DEF BaseInv, TopsInv, IndInv, NestTypeOK, ScriptRuns, InRuby
<1>3. PICK n \in Nat : n = Len(stack[running]) /\ n \in DOMAIN stack[running]
  <2>1. Len(stack[running]) \in Nat /\ Len(stack[running]) \in DOMAIN stack[running]
    BY <1>2, EmptySeq
  <2> QED BY <2>1
<1>4. RunningOp = stack[running][n] /\ RunningOp.kind = "op"
  BY <1>2, <1>3, Frames DEF IndInv, RunningOp, Top
<1>5. PICK i \in Isolates, d \in Nat : i = RunningOp.iso /\ d = RunningOp.depth
  BY <1>2, <1>3, <1>4, Frames DEF IndInv
<1>6. depth[i] > 0 /\ depth[i] - 1 = d
  <2>1. d + 1 = depth[i]
    BY <1>2, <1>5 DEF IndInv, NestInv, TopIsLast, RunningOp
  <2> QED BY <2>1
<1>7. limit[i] = L[i][d] /\ scan[i] = C[i][d]
  BY <1>1, <1>6 DEF Described
<1>8. ScopeFits(place[running], RunningOp, RunningScope, L, C)
  BY <1>1, <1>2, <1>3, <1>4 DEF Described, FiberDescribed, FiberFits, RunningScope
<1> QED BY <1>1, <1>3, <1>4, <1>5, <1>7, <1>8

(* StackScope's limit: while JavaScript runs, it lies on the stack it runs *)
(* on and below its stack pointer, whatever isolates and Fibers ran in     *)
(* between, when V8's scan start is known to be settable.                  *)
THEOREM LimitsFit ==
  ASSUME FieldFound
  PROVE  ScopeSpec => []LimitFits
<1>1. IndInv /\ AbandonedAreOff /\ ScopeInv => LimitFits
  <2> SUFFICES ASSUME IndInv, AbandonedAreOff, ScopeInv, ScriptRuns
               PROVE  LET l == limit[RunningOp.iso]
                          n == place[running]
                          sp == SpBelow(RunningScope.top)
                      IN /\ Bottom(n) < l /\ l <= Ceiling(n)
                         /\ l < sp \/ (n = NativeStack /\ sp <= Bottom(n) + NativeGuard)
    BY DEF LimitFits
  <2> QED BY RunningFits DEF ScopeInv, ScopeFits, LimitIn
<1> QED BY <1>1, ScopedOpStack, ScopeInvariant, PTL

(* StackScope's scan start: the conservative scan stays on the stack of    *)
(* the running operation, covers it and, unless the cached region was      *)
(* evicted, the operation of its isolate around it.                        *)
THEOREM ScansFit ==
  ASSUME FieldFound
  PROVE  ScopeSpec => []ScanFits
<1>1. IndInv /\ AbandonedAreOff /\ ScopeInv => ScanFits
  <2> SUFFICES ASSUME IndInv, AbandonedAreOff, ScopeInv, ScriptRuns
               PROVE  ScanFits
    BY DEF ScanFits, ScanOnStack, ScanCoversEnclosing
  <2>1. PICK L \in Ghosts, C \in Ghosts :
           /\ Described(L, C)
           /\ ScopeFits(place[running], RunningOp, RunningScope, L, C)
           /\ RunningOp.iso \in Isolates
           /\ limit[RunningOp.iso] = L[RunningOp.iso][RunningOp.depth]
           /\ scan[RunningOp.iso] = C[RunningOp.iso][RunningOp.depth]
           /\ Len(stack[running]) \in DOMAIN stack[running]
           /\ RunningOp = stack[running][Len(stack[running])] /\ RunningOp.kind = "op"
    BY RunningFits DEF ScopeInv
  <2>2. ScanOnStack
    <3>1. PICK n \in Nat, a \in Nat : n = place[running] /\ a = scan[RunningOp.iso]
      <4>1. place[running] \in Nat
        BY RunningPlaced DEF ScopeInv, BaseInv
      <4>2. scan[RunningOp.iso] \in Nat
        BY <2>1 DEF ScopeInv, BaseInv, AddressInv
      <4> QED BY <4>1, <4>2
    <3>2. Bottom(n) <= a /\ a <= Ceiling(n) /\ a > SpBelow(RunningScope.top)
      BY <2>1, <3>1 DEF ScopeFits, ScanIn
    <3>3. StackAt(a) = n
      BY <3>2, StackAtIs
    <3> QED BY <3>1, <3>2, <3>3 DEF ScanOnStack
  <2>3. ScanCoversEnclosing
    <3> SUFFICES ASSUME place[running] \notin evicted, NEW k \in DOMAIN stack[running],
                        OpOn(RunningOp.iso, running, k),
                        stack[running][k].depth = RunningOp.depth - 1
                 PROVE  scan[RunningOp.iso] > SpBelow(scopes[running][ScopeIndex(running, k)].top)
      BY DEF ScanCoversEnclosing
    <3>1. FiberCovers(stack[running], scopes[running], C)
      BY <2>1, RunningPlaced DEF ScopeInv, BaseInv, Described, FiberDescribed
    <3>2. C[RunningOp.iso][RunningOp.depth] > SpBelow(scopes[running][Count(stack[running], k)].top)
      BY <2>1, <3>1 DEF FiberCovers, OpOn
    <3> QED BY <2>1, <3>2 DEF ScopeIndex, Count
  <2> QED BY <2>2, <2>3 DEF ScanFits
<1> QED BY <1>1, ScopedOpStack, ScopeInvariant, PTL

(***************************************************************************)
(* Thrown.                                                                 *)
(***************************************************************************)

\* What a frame of either kind carries.
Load == Thrownable \cup {NoValue} \cup Seq(Error)

\* An exception that has the serial of a slot, th[i], is of that isolate and
\* stands for the value kept there; the serials given out are up to n.
Known(e, th, n) ==
  /\ e.serial <= n
  /\ \A i \in Isolates :
       e.serial # 0 /\ e.serial = th[i].serial => e.iso = i /\ e.value = th[i].value

\* x is what the frame fr may carry.
Fits(fr, x, th, n) ==
  IF fr.kind = "op"
  THEN x \in Thrownable \cup {NoValue}
  ELSE x \in Seq(Error) /\ \A j \in DOMAIN x : Known(x[j], th, n)

\* Everything happens on the root Fiber.
OneFiber == running = MainFiber /\ ~yieldedOut

CarryInv ==
  /\ carry \in [Fibers -> Seq(Load)]
  /\ \A f \in Fibers :
       /\ Len(carry[f]) = Len(stack[f])
       /\ \A k \in DOMAIN stack[f] : Fits(stack[f][k], carry[f][k], thrown, serials)

Slot == {None} \cup [serial : Nat \ {0}, value : Thrownable]

SlotsInv ==
  /\ thrown \in [Isolates -> Slot] /\ serials \in Nat
  /\ \A i \in Isolates : thrown[i].serial <= serials
  /\ saved \subseteq Error /\ \A e \in saved : Known(e, thrown, serials)
  /\ owed \in [Isolates -> 0 .. serials]

\* While an operation is in flight the slot has what is still owed.
OwedInv ==
  \A i \in Isolates : owed[i] # 0 /\ depth[i] # 0 => thrown[i].serial = owed[i]

ThrownInv == CarryInv /\ SlotsInv /\ OwedInv /\ NothingKeptWhenIdle

-----------------------------------------------------------------------------
(* t is s up to n elements, of which the last is x.                        *)
UpTo(t, s, n, x, S) ==
  /\ t \in Seq(S) /\ Len(t) = n /\ DOMAIN t = 1 .. n
  /\ \A k \in 1 .. n - 1 : t[k] = s[k]
  /\ n # 0 => t[n] = x

(* An element is appended, ...                                             *)
LEMMA Appended ==
  ASSUME NEW S, NEW s \in Seq(S), NEW x \in S
  PROVE  Len(s) \in Nat /\ UpTo(Append(s, x), s, Len(s) + 1, x, S)
<1>1. PICK n \in Nat : n = Len(s)
  OBVIOUS
<1>2. /\ Append(s, x) \in Seq(S) /\ Len(Append(s, x)) = n + 1 /\ DOMAIN Append(s, x) = 1 .. n + 1
      /\ \A k \in 1 .. (n + 1) - 1 : Append(s, x)[k] = s[k]
      /\ Append(s, x)[n + 1] = x
  BY <1>1
<1> QED BY <1>1, <1>2 DEF UpTo

(* ... the last one is cut off, ...                                        *)
LEMMA CutOff ==
  ASSUME NEW S, NEW s \in Seq(S), NEW n \in Nat, Len(s) = n + 1
  PROVE  UpTo(SubSeq(s, 1, Len(s) - 1), s, n, s[n], S)
<1>1. Len(s) - 1 = n
  OBVIOUS
<1>2. SubSeq(s, 1, n) = [k \in 1 .. n |-> s[k]]
  BY <1>1
<1>3. PICK t : t = SubSeq(s, 1, n)
  OBVIOUS
<1>4. /\ t \in Seq(S) /\ Len(t) = n /\ DOMAIN t = 1 .. n
      /\ \A k \in 1 .. n : t[k] = s[k]
  BY <1>1, <1>2, <1>3
<1>5. (\A k \in 1 .. n - 1 : k \in 1 .. n) /\ (n # 0 => n \in 1 .. n)
  OBVIOUS
<1>6. UpTo(t, s, n, s[n], S)
  BY <1>4, <1>5 DEF UpTo
<1> QED BY <1>1, <1>3, <1>6

(* ... or the last one is another.                                         *)
LEMMA LastSet ==
  ASSUME NEW S, NEW s \in Seq(S), NEW n \in Nat \ {0}, Len(s) = n, NEW x \in S
  PROVE  UpTo([s EXCEPT ![Len(s)] = x], s, n, x, S)
<1>1. PICK t : t = [s EXCEPT ![n] = x]
  OBVIOUS
<1>2. t \in Seq(S) /\ Len(t) = n /\ DOMAIN t = 1 .. n
  BY <1>1
<1>3. t[n] = x /\ \A k \in 1 .. n - 1 : t[k] = s[k]
  BY <1>1
<1>4. UpTo(t, s, n, x, S)
  BY <1>2, <1>3 DEF UpTo
<1> QED BY <1>1, <1>4

(* Both: what is below the last one gets another last one.                 *)
LEMMA CutAndSet ==
  ASSUME NEW S, NEW s \in Seq(S), NEW n \in Nat \ {0}, Len(s) = n + 1, NEW x \in S,
         NEW t, t = SubSeq(s, 1, Len(s) - 1)
  PROVE  UpTo([t EXCEPT ![Len(t)] = x], s, n, x, S) /\ t[Len(t)] = s[n] /\ t # <<>>
<1>1. UpTo(t, s, n, s[n], S)
  BY CutOff
<1>2. t \in Seq(S) /\ Len(t) = n /\ t[n] = s[n] /\ \A k \in 1 .. n - 1 : t[k] = s[k]
  BY <1>1 DEF UpTo
<1>3. PICK u : u = [t EXCEPT ![Len(t)] = x]
  OBVIOUS
<1>4. UpTo(u, t, n, x, S)
  BY <1>2, <1>3, LastSet
<1>5. UpTo(u, s, n, x, S)
  BY <1>2, <1>4 DEF UpTo
<1> QED BY <1>2, <1>3, <1>5

-----------------------------------------------------------------------------
\* A slot keeps what it has, is emptied, or gets a value under a new serial.
SlotsGrow ==
  /\ serials \in Nat /\ serials' \in Nat /\ serials <= serials'
  /\ thrown' \in [Isolates -> Slot]
  /\ \A i \in Isolates : thrown'[i] \in {thrown[i], None} \/ thrown'[i].serial > serials

(* What is known of an exception stays so, ...                             *)
LEMMA KnownStays ==
  ASSUME SlotsGrow, NEW e \in Error, Known(e, thrown, serials)
  PROVE  Known(e, thrown', serials')
<1>1. e.serial \in Nat /\ e.serial <= serials
  BY DEF Error, Known
<1>2. serials \in Nat /\ serials' \in Nat /\ serials <= serials'
  BY DEF SlotsGrow
<1>3. ASSUME NEW i \in Isolates, e.serial # 0, e.serial = thrown'[i].serial
      PROVE  e.iso = i /\ e.value = thrown'[i].value
  <2>1. thrown'[i] # None
    BY <1>3 DEF None
  <2>2. ~(thrown'[i].serial > serials)
    BY <1>1, <1>2, <1>3
  <2>3. thrown'[i] = thrown[i]
    BY <2>1, <2>2 DEF SlotsGrow
  <2> QED BY <1>3, <2>3 DEF Known
<1> QED BY <1>1, <1>2, <1>3 DEF Known

(* ... and what a frame carries goes on to be what it may.                 *)
LEMMA FitsStays ==
  ASSUME SlotsGrow, NEW fr, NEW x, Fits(fr, x, thrown, serials)
  PROVE  Fits(fr, x, thrown', serials')
<1>1. CASE fr.kind = "op"
  BY <1>1 DEF Fits
<1>2. CASE fr.kind # "op"
  <2>1. x \in Seq(Error) /\ \A j \in DOMAIN x : Known(x[j], thrown, serials)
    BY <1>2 DEF Fits
  <2>2. \A j \in DOMAIN x : x[j] \in Error
    BY <2>1
  <2>3. \A j \in DOMAIN x : Known(x[j], thrown', serials')
    BY <2>1, <2>2, KnownStays
  <2> QED BY <1>2, <2>1, <2>3 DEF Fits
<1> QED BY <1>1, <1>2

\* The running Fiber's stack is cut to n frames, of which the last is fr and
\* carries x.
Carries(n, fr, x) ==
  /\ stack' = [stack EXCEPT ![running] = stack'[running]]
  /\ carry' = [carry EXCEPT ![running] = carry'[running]]
  /\ UpTo(stack'[running], stack[running], n, fr, Frame)
  /\ UpTo(carry'[running], carry[running], n, x, Load)

(* A step that cuts it so.                                                 *)
LEMMA CarryKeeps ==
  ASSUME NestTypeOK, CarryInv, SlotsGrow, NEW n \in Nat, n <= Len(stack[running]) + 1,
         NEW fr, NEW x, Carries(n, fr, x), n # 0 => Fits(fr, x, thrown', serials')
  PROVE  CarryInv'
<1>1. /\ running \in Fibers /\ stack \in [Fibers -> Seq(Frame)] /\ carry \in [Fibers -> Seq(Load)]
      /\ stack[running] \in Seq(Frame)
  BY DEF NestTypeOK, CarryInv
<1>2. PICK L \in Nat : L = Len(stack[running]) /\ DOMAIN stack[running] = 1 .. L
  BY <1>1
<1>3. /\ carry' \in [Fibers -> Seq(Load)]
      /\ \A f \in Fibers : f # running => carry'[f] = carry[f] /\ stack'[f] = stack[f]
  BY <1>1 DEF Carries, UpTo
<1>4. ASSUME NEW f \in Fibers
      PROVE  /\ Len(carry'[f]) = Len(stack'[f])
             /\ \A k \in DOMAIN stack'[f] : Fits(stack'[f][k], carry'[f][k], thrown', serials')
  <2>1. CASE f # running
    <3>1. /\ Len(carry[f]) = Len(stack[f])
          /\ \A k \in DOMAIN stack[f] : Fits(stack[f][k], carry[f][k], thrown, serials)
      BY DEF CarryInv
    <3> QED BY <1>3, <2>1, <3>1, FitsStays
  <2>2. CASE f = running
    <3>1. /\ Len(carry'[f]) = n /\ Len(stack'[f]) = n /\ DOMAIN stack'[f] = 1 .. n
          /\ \A k \in 1 .. n - 1 : stack'[f][k] = stack[f][k] /\ carry'[f][k] = carry[f][k]
          /\ n # 0 => stack'[f][n] = fr /\ carry'[f][n] = x
      BY <2>2 DEF Carries, UpTo
    <3>2. ASSUME NEW k \in 1 .. n PROVE Fits(stack'[f][k], carry'[f][k], thrown', serials')
      <4>1. k = n \/ k \in 1 .. n - 1
        OBVIOUS
      <4>2. CASE k = n
        BY <3>1, <4>2
      <4>3. CASE k \in 1 .. n - 1
        <5>1. k \in DOMAIN stack[f]
          BY <1>2, <2>2, <4>3
        <5>2. Fits(stack[f][k], carry[f][k], thrown, serials)
          BY <5>1 DEF CarryInv
        <5>3. Fits(stack[f][k], carry[f][k], thrown', serials')
          BY <5>2, FitsStays
        <5> QED BY <3>1, <4>3, <5>3
      <4> QED BY <4>1, <4>2, <4>3
    <3> QED BY <3>1, <3>2
  <2> QED BY <2>1, <2>2
<1> QED BY <1>3, <1>4 DEF CarryInv

-----------------------------------------------------------------------------
(* The running Fiber's stack and what it carries.                          *)
LEMMA Stacks ==
  ASSUME IndInv, CarryInv
  PROVE  /\ running \in Fibers /\ stack \in [Fibers -> Seq(Frame)] /\ carry \in [Fibers -> Seq(Load)]
         /\ stack[running] \in Seq(Frame) /\ carry[running] \in Seq(Load)
         /\ \E N \in Nat :
              /\ Len(stack[running]) = N /\ Len(carry[running]) = N
              /\ DOMAIN stack[running] = 1 .. N /\ DOMAIN carry[running] = 1 .. N
              /\ stack[running] = <<>> <=> N = 0
              /\ N # 0 => /\ Top(running) = stack[running][N] /\ Carried = carry[running][N]
                          /\ Fits(stack[running][N], carry[running][N], thrown, serials)
<1>1. /\ running \in Fibers /\ stack \in [Fibers -> Seq(Frame)] /\ carry \in [Fibers -> Seq(Load)]
      /\ stack[running] \in Seq(Frame) /\ carry[running] \in Seq(Load)
  BY DEF IndInv, NestTypeOK, CarryInv
<1>2. PICK N \in Nat : Len(stack[running]) = N /\ DOMAIN stack[running] = 1 .. N
  BY <1>1
<1>3. Len(carry[running]) = N /\ DOMAIN carry[running] = 1 .. N
  BY <1>1, <1>2 DEF CarryInv
<1>4. stack[running] = <<>> <=> N = 0
  BY <1>1, <1>2
<1>5. N # 0 => /\ Top(running) = stack[running][N] /\ Carried = carry[running][N]
               /\ Fits(stack[running][N], carry[running][N], thrown, serials)
  BY <1>1, <1>2, <1>3 DEF Top, Carried, CarryInv
<1> QED BY <1>1, <1>2, <1>3, <1>4, <1>5

(* What fits is a load.                                                    *)
LEMMA FitsIsLoad ==
  ASSUME NEW fr, NEW x, NEW th, NEW n, Fits(fr, x, th, n)
  PROVE  x \in Load
BY DEF Fits, Load

(* A frame is pushed.                                                      *)
LEMMA PushCarries ==
  ASSUME IndInv, CarryInv, SlotsGrow, NEW fr \in Frame, NEW x, Fits(fr, x, thrown', serials'),
         stack' = [stack EXCEPT ![running] = Append(@, fr)],
         carry' = [carry EXCEPT ![running] = Append(@, x)]
  PROVE  CarryInv'
<1>1. /\ running \in Fibers /\ stack \in [Fibers -> Seq(Frame)] /\ carry \in [Fibers -> Seq(Load)]
      /\ stack[running] \in Seq(Frame) /\ carry[running] \in Seq(Load)
  BY Stacks
<1>2. PICK N \in Nat : Len(stack[running]) = N /\ Len(carry[running]) = N
  BY Stacks
<1>3. /\ stack'[running] = Append(stack[running], fr)
      /\ carry'[running] = Append(carry[running], x)
  BY <1>1
<1>4. x \in Load
  BY FitsIsLoad
<1>5. UpTo(stack'[running], stack[running], N + 1, fr, Frame)
  BY <1>1, <1>2, <1>3, Appended
<1>6. UpTo(carry'[running], carry[running], N + 1, x, Load)
  BY <1>1, <1>2, <1>3, <1>4, Appended
<1>7. Carries(N + 1, fr, x)
  BY <1>1, <1>5, <1>6 DEF Carries
<1>8. N + 1 \in Nat /\ N + 1 <= Len(stack[running]) + 1 /\ NestTypeOK
  BY <1>2 DEF IndInv
<1> QED BY <1>7, <1>8, CarryKeeps

(* A frame is popped, with what it carried.                                *)
LEMMA PopCarries ==
  ASSUME IndInv, CarryInv, SlotsGrow, stack[running] # <<>>,
         stack' = [stack EXCEPT ![running] = Pop(running)],
         carry' = [carry EXCEPT ![running] = Below]
  PROVE  CarryInv'
<1>1. /\ running \in Fibers /\ stack \in [Fibers -> Seq(Frame)] /\ carry \in [Fibers -> Seq(Load)]
      /\ stack[running] \in Seq(Frame) /\ carry[running] \in Seq(Load)
  BY Stacks
<1>2. PICK N \in Nat : Len(stack[running]) = N + 1 /\ Len(carry[running]) = N + 1
  <2>1. PICK K \in Nat \ {0} : Len(stack[running]) = K /\ Len(carry[running]) = K
    BY Stacks
  <2>2. K - 1 \in Nat /\ (K - 1) + 1 = K
    OBVIOUS
  <2> QED BY <2>1, <2>2
<1>3. /\ stack'[running] = SubSeq(stack[running], 1, Len(stack[running]) - 1)
      /\ carry'[running] = SubSeq(carry[running], 1, Len(carry[running]) - 1)
  BY <1>1 DEF Pop, Below
<1>4. UpTo(stack'[running], stack[running], N, stack[running][N], Frame)
  BY <1>1, <1>2, <1>3, CutOff
<1>5. UpTo(carry'[running], carry[running], N, carry[running][N], Load)
  BY <1>1, <1>2, <1>3, CutOff
<1>6. Carries(N, stack[running][N], carry[running][N])
  BY <1>1, <1>4, <1>5 DEF Carries
<1>7. N # 0 => Fits(stack[running][N], carry[running][N], thrown', serials')
  <2>1. N # 0 => N \in DOMAIN stack[running]
    BY <1>1, <1>2
  <2> QED BY <1>1, <2>1, FitsStays DEF CarryInv
<1>8. N <= Len(stack[running]) + 1 /\ NestTypeOK
  BY <1>2 DEF IndInv
<1> QED BY <1>6, <1>7, <1>8, CarryKeeps

(* One is popped, and the frame below it gets something.                   *)
LEMMA PopIntoCarries ==
  ASSUME IndInv, CarryInv, SlotsGrow, NEW N \in Nat \ {0}, Len(stack[running]) = N + 1,
         NEW x, Fits(stack[running][N], x, thrown', serials'),
         stack' = [stack EXCEPT ![running] = Pop(running)],
         carry' = [carry EXCEPT ![running] = [Below EXCEPT ![Len(Below)] = x]]
  PROVE  CarryInv'
<1>1. /\ running \in Fibers /\ stack \in [Fibers -> Seq(Frame)] /\ carry \in [Fibers -> Seq(Load)]
      /\ stack[running] \in Seq(Frame) /\ carry[running] \in Seq(Load)
      /\ Len(carry[running]) = N + 1
  BY Stacks DEF CarryInv
<1>2. /\ stack'[running] = SubSeq(stack[running], 1, Len(stack[running]) - 1)
      /\ carry'[running] = [Below EXCEPT ![Len(Below)] = x]
  BY <1>1 DEF Pop
<1>3. UpTo(stack'[running], stack[running], N, stack[running][N], Frame)
  <2>1. PICK s \in Seq(Frame), n \in Nat : s = stack[running] /\ n = N /\ Len(s) = n + 1
    BY <1>1
  <2>2. UpTo(SubSeq(s, 1, Len(s) - 1), s, n, s[n], Frame)
    BY <2>1, CutOff
  <2> QED BY <1>2, <2>1, <2>2
<1>4. x \in Load
  BY FitsIsLoad
<1>5. UpTo(carry'[running], carry[running], N, x, Load)
  BY <1>1, <1>2, <1>4, CutAndSet DEF Below
<1>6. Carries(N, stack[running][N], x)
  BY <1>1, <1>3, <1>5 DEF Carries
<1>7. N \in Nat /\ N <= Len(stack[running]) + 1 /\ NestTypeOK
  BY DEF IndInv
<1> QED BY <1>6, <1>7, CarryKeeps

(* What the last frame carries is another.                                 *)
LEMMA SetCarries ==
  ASSUME IndInv, CarryInv, SlotsGrow, stack[running] # <<>>, UNCHANGED <<stack, running>>,
         NEW x, Fits(Top(running), x, thrown', serials'), carry' = SetCarried(x)
  PROVE  CarryInv'
<1>1. /\ running \in Fibers /\ stack \in [Fibers -> Seq(Frame)] /\ carry \in [Fibers -> Seq(Load)]
      /\ stack[running] \in Seq(Frame) /\ carry[running] \in Seq(Load)
  BY Stacks
<1>2. PICK N \in Nat \ {0} : /\ Len(stack[running]) = N /\ Len(carry[running]) = N
                             /\ Top(running) = stack[running][N]
  BY Stacks
<1>3. carry'[running] = [carry[running] EXCEPT ![Len(carry[running])] = x]
  BY <1>1 DEF SetCarried
<1>4. x \in Load
  BY FitsIsLoad
<1>5. UpTo(carry'[running], carry[running], N, x, Load)
  <2>1. PICK s \in Seq(Load), n \in Nat \ {0} : s = carry[running] /\ n = N /\ Len(s) = n
    BY <1>1, <1>2
  <2>2. UpTo([s EXCEPT ![Len(s)] = x], s, n, x, Load)
    BY <1>4, <2>1, LastSet
  <2> QED BY <1>3, <2>1, <2>2
<1>6. UpTo(stack'[running], stack[running], N, stack[running][N], Frame)
  BY <1>1, <1>2 DEF UpTo
<1>7. Carries(N, stack[running][N], x)
  <2>1. carry' = [carry EXCEPT ![running] = carry'[running]]
    BY <1>1, <1>3 DEF SetCarried
  <2> QED BY <1>1, <1>5, <1>6, <2>1 DEF Carries
<1>8. N \in Nat /\ N <= Len(stack[running]) + 1 /\ NestTypeOK
  BY <1>2 DEF IndInv
<1> QED BY <1>2, <1>7, <1>8, CarryKeeps

-----------------------------------------------------------------------------
(* Slots and serials that stay, ...                                        *)
LEMMA SlotsStay ==
  ASSUME SlotsInv, UNCHANGED <<thrown, serials>>
  PROVE  SlotsGrow
BY DEF SlotsInv, SlotsGrow

(* ... a slot that is emptied or not ...                                   *)
LEMMA SlotCleared ==
  ASSUME SlotsInv, NEW i \in Isolates, NEW x \in {thrown[i], None},
         thrown' = [thrown EXCEPT ![i] = x], UNCHANGED serials
  PROVE  SlotsGrow /\ \A j \in Isolates : thrown'[j].serial <= serials'
<1>1. /\ thrown \in [Isolates -> Slot] /\ serials \in Nat /\ serials' = serials
      /\ \A j \in Isolates : thrown[j].serial <= serials
  BY DEF SlotsInv
<1>2. None \in Slot /\ None.serial = 0
  BY DEF Slot, None
<1>3. \A j \in Isolates : thrown'[j] = IF j = i THEN x ELSE thrown[j]
  BY <1>1
<1>4. thrown' \in [Isolates -> Slot]
  BY <1>1, <1>2
<1>5. \A j \in Isolates : thrown'[j] \in {thrown[j], None}
  BY <1>3
<1>6. \A j \in Isolates : thrown'[j].serial <= serials'
  BY <1>1, <1>2, <1>5
<1> QED BY <1>1, <1>4, <1>5, <1>6 DEF SlotsGrow

(* ... and the exceptions Ruby code holds on to.                           *)
LEMMA SlotsKeep ==
  ASSUME SlotsInv, SlotsGrow, \A i \in Isolates : thrown'[i].serial <= serials',
         owed' \in [Isolates -> 0 .. serials'],
         \A e \in saved' : e \in saved \/ (e \in Error /\ Known(e, thrown', serials'))
  PROVE  SlotsInv'
<1>1. ASSUME NEW e \in saved' PROVE e \in Error /\ Known(e, thrown', serials')
  <2>1. CASE e \in saved
    BY <2>1, KnownStays DEF SlotsInv
  <2> QED BY <2>1
<1>2. thrown' \in [Isolates -> Slot] /\ serials' \in Nat
  BY DEF SlotsGrow
<1> QED BY <1>1, <1>2 DEF SlotsInv

(* What a step on one isolate does to what is owed and what idles.         *)
LEMMA OwedKeeps ==
  ASSUME OwedInv, NothingKeptWhenIdle, NEW i \in Isolates,
         \A j \in Isolates \ {i} : thrown'[j] = thrown[j] /\ owed'[j] = owed[j] /\ depth'[j] = depth[j],
         disposed \subseteq disposed',
         owed'[i] # 0 /\ depth'[i] # 0 => thrown'[i].serial = owed'[i],
         i \notin disposed' /\ depth'[i] = 0 => thrown'[i] = None
  PROVE  OwedInv' /\ NothingKeptWhenIdle'
<1>1. OwedInv'
  BY DEF OwedInv
<1>2. NothingKeptWhenIdle'
  BY DEF NothingKeptWhenIdle
<1> QED BY <1>1, <1>2

(* A step in the middle of Ruby or JavaScript: only what the last frame    *)
(* carries changes, and what Ruby code holds on to.                        *)
LEMMA ThrowStays ==
  ASSUME IndInv, ThrownInv, stack[running] # <<>>, UNCHANGED <<vars, thrown, serials, owed>>,
         NEW x, Fits(Top(running), x, thrown, serials), carry' = SetCarried(x),
         \A e \in saved' : e \in saved \/ (e \in Error /\ Known(e, thrown, serials))
  PROVE  ThrownInv'
<1>1. UNCHANGED <<stack, running, depth, disposed>>
  BY DEF vars, fiberVars, lifeVars
<1>2. SlotsGrow
  BY SlotsStay DEF ThrownInv
<1>3. CarryInv'
  BY <1>1, <1>2, SetCarries DEF ThrownInv
<1>4. SlotsInv'
  <2>1. \A i \in Isolates : thrown'[i].serial <= serials'
    BY DEF ThrownInv, SlotsInv
  <2>2. owed' \in [Isolates -> 0 .. serials']
    BY DEF ThrownInv, SlotsInv
  <2> QED BY <1>2, <2>1, <2>2, SlotsKeep DEF ThrownInv
<1>5. OwedInv' /\ NothingKeptWhenIdle'
  BY <1>1 DEF ThrownInv, OwedInv, NothingKeptWhenIdle
<1> QED BY <1>3, <1>4, <1>5 DEF ThrownInv

-----------------------------------------------------------------------------
(* JavaScript throws or catches.                                           *)
LEMMA ThrowKeeps ==
  ASSUME IndInv, ThrownInv, NEW v \in Values \cup {NoValue}, ScriptRuns,
         carry' = SetCarried(v), UNCHANGED <<vars, thrown, serials, saved, owed>>
  PROVE  ThrownInv'
<1>1. stack[running] # <<>> /\ Top(running).kind # "callback"
  BY DEF ScriptRuns, InRuby
<1>2. Top(running).kind = "op"
  <2>1. PICK N \in Nat \ {0} : N \in DOMAIN stack[running] /\ Top(running) = stack[running][N]
    <3>1. PICK N \in Nat : /\ Len(stack[running]) = N /\ DOMAIN stack[running] = 1 .. N
                           /\ N # 0 /\ Top(running) = stack[running][N]
      BY <1>1, Stacks DEF ThrownInv
    <3> QED BY <3>1
  <2>2. running \in Fibers /\ NestTypeOK
    BY DEF IndInv, NestTypeOK
  <2> QED BY <1>1, <2>1, <2>2, Frames
<1>3. Fits(Top(running), v, thrown, serials)
  BY <1>2 DEF Fits, Thrownable
<1> QED BY <1>1, <1>3, ThrowStays

(* The callback whose Ruby code runs, and the exceptions it has.           *)
LEMMA CallbackCarries ==
  ASSUME IndInv, CarryInv, InCallback
  PROVE  \E N \in Nat \ {0} :
           /\ Len(stack[running]) = N + 1 /\ N \in DOMAIN stack[running]
           /\ stack[running] # <<>> /\ Top(running) = stack[running][N + 1]
           /\ Top(running).kind = "callback" /\ Top(running).iso \in Isolates
           /\ stack[running][N].kind = "op" /\ stack[running][N].iso = Top(running).iso
           /\ depth[Top(running).iso] # 0
           /\ Carried \in Seq(Error) /\ \A j \in DOMAIN Carried : Known(Carried[j], thrown, serials)
<1>1. stack[running] # <<>> /\ Top(running).kind = "callback"
  BY DEF InCallback, RubyRuns, InRuby
<1>2. PICK L \in Nat \ {0} :
        /\ Len(stack[running]) = L /\ DOMAIN stack[running] = 1 .. L
        /\ Top(running) = stack[running][L] /\ Carried = carry[running][L]
        /\ Fits(stack[running][L], carry[running][L], thrown, serials)
  <2>1. PICK N \in Nat :
          /\ Len(stack[running]) = N /\ Len(carry[running]) = N
          /\ DOMAIN stack[running] = 1 .. N /\ DOMAIN carry[running] = 1 .. N
          /\ stack[running] = <<>> <=> N = 0
          /\ N # 0 => /\ Top(running) = stack[running][N] /\ Carried = carry[running][N]
                      /\ Fits(stack[running][N], carry[running][N], thrown, serials)
    BY Stacks
  <2>2. N # 0 /\ N \in Nat \ {0}
    BY <1>1, <2>1
  <2> QED BY <2>1, <2>2
<1>3. L \in DOMAIN stack[running] /\ running \in Fibers /\ NestTypeOK
  BY <1>2 DEF IndInv, NestTypeOK
<1>4. /\ L > 1 /\ OpOn(stack[running][L].iso, running, L - 1)
  BY <1>1, <1>2, <1>3 DEF IndInv, NestInv, Alternation
<1>5. PICK N \in Nat \ {0} : L = N + 1 /\ L - 1 = N /\ N \in DOMAIN stack[running]
  <2>1. L - 1 \in Nat \ {0} /\ L = (L - 1) + 1 /\ L - 1 \in 1 .. L
    BY <1>4
  <2> QED BY <1>2, <2>1
<1>6. stack[running][N].kind = "op" /\ stack[running][N].iso = Top(running).iso
  BY <1>2, <1>4, <1>5 DEF OpOn
<1>7. Top(running).iso \in Isolates
  BY <1>2, <1>3, Frames
<1>8. depth[Top(running).iso] # 0
  <2>1. stack[running][N].depth \in Nat /\ depth[Top(running).iso] \in Nat
    BY <1>3, <1>5, <1>7, Frames DEF NestTypeOK
  <2>2. stack[running][N].depth < depth[Top(running).iso]
    BY <1>3, <1>5, <1>6 DEF IndInv, NestInv, DepthsBelow
  <2> QED BY <2>1, <2>2
<1>9. Carried \in Seq(Error) /\ \A j \in DOMAIN Carried : Known(Carried[j], thrown, serials)
  BY <1>1, <1>2 DEF Fits
<1> QED BY <1>1, <1>2, <1>5, <1>6, <1>7, <1>8, <1>9

(* The exception a callback got last.                                      *)
LEMMA LastErrorIs ==
  ASSUME Carried \in Seq(Error), Carried # <<>>,
         \A j \in DOMAIN Carried : Known(Carried[j], thrown, serials)
  PROVE  LastError \in Error /\ Known(LastError, thrown, serials)
<1>1. Len(Carried) \in DOMAIN Carried /\ Carried[Len(Carried)] \in Error
  OBVIOUS
<1> QED BY <1>1 DEF LastError

(* Ruby code rescues one ...                                               *)
LEMMA RescueKeeps ==
  ASSUME IndInv, ThrownInv, Rescue
  PROVE  ThrownInv'
<1>1. /\ InCallback /\ Carried # <<>> /\ MaySave(LastError)
      /\ carry' = SetCarried(SubSeq(Carried, 1, Len(Carried) - 1))
      /\ UNCHANGED <<vars, thrown, serials, owed>>
  BY DEF Rescue
<1>2. /\ stack[running] # <<>> /\ Top(running).kind = "callback"
      /\ Carried \in Seq(Error) /\ \A j \in DOMAIN Carried : Known(Carried[j], thrown, serials)
  BY <1>1, CallbackCarries DEF ThrownInv
<1>3. PICK s : s = Carried
  OBVIOUS
<1>4. PICK t : t = SubSeq(s, 1, Len(s) - 1)
  OBVIOUS
<1>5. PICK n \in Nat : Len(s) = n + 1
  <2>1. PICK L \in Nat \ {0} : Len(s) = L
    BY <1>1, <1>2, <1>3
  <2>2. L - 1 \in Nat /\ L = (L - 1) + 1
    OBVIOUS
  <2> QED BY <2>1, <2>2
<1>6. UpTo(t, s, n, s[n], Error)
  BY <1>2, <1>3, <1>4, <1>5, CutOff
<1>7. Fits(Top(running), t, thrown, serials)
  <2>1. t \in Seq(Error) /\ DOMAIN t = 1 .. n
    BY <1>6 DEF UpTo
  <2>2. \A j \in 1 .. n : j \in DOMAIN s /\ t[j] = s[j]
    <3>1. \A j \in 1 .. n : j = n \/ j \in 1 .. n - 1
      OBVIOUS
    <3>2. DOMAIN s = 1 .. n + 1
      BY <1>2, <1>3, <1>5
    <3> QED BY <1>6, <3>1, <3>2 DEF UpTo
  <2> QED BY <1>2, <1>3, <2>1, <2>2 DEF Fits
<1>8. LastError \in Error /\ Known(LastError, thrown, serials)
  BY <1>1, <1>2, LastErrorIs
<1>9. \A e \in saved' : e \in saved \/ (e \in Error /\ Known(e, thrown, serials))
  BY <1>1, <1>8 DEF MaySave
<1> QED BY <1>1, <1>2, <1>3, <1>4, <1>7, <1>9, ThrowStays

(* ... or raises one.                                                      *)
LEMMA RaiseKeeps ==
  ASSUME IndInv, ThrownInv, NEW e \in Error, Known(e, thrown, serials), Raise(e)
  PROVE  ThrownInv'
<1>1. /\ InCallback /\ carry' = SetCarried(Append(Carried, e))
      /\ UNCHANGED <<vars, thrown, serials, saved, owed>>
  BY DEF Raise
<1>2. /\ stack[running] # <<>> /\ Top(running).kind = "callback"
      /\ Carried \in Seq(Error) /\ \A j \in DOMAIN Carried : Known(Carried[j], thrown, serials)
  BY <1>1, CallbackCarries DEF ThrownInv
<1>3. PICK s : s = Carried
  OBVIOUS
<1>4. PICK t : t = Append(s, e)
  OBVIOUS
<1>5. Fits(Top(running), t, thrown, serials)
  <2>1. PICK n \in Nat : n = Len(s) /\ DOMAIN s = 1 .. n
    BY <1>2, <1>3
  <2>2. t \in Seq(Error) /\ DOMAIN t = 1 .. n + 1 /\ t[n + 1] = e /\ \A j \in 1 .. n : t[j] = s[j]
    BY <1>2, <1>3, <1>4, <2>1
  <2>3. \A j \in 1 .. n + 1 : j = n + 1 \/ j \in 1 .. n
    OBVIOUS
  <2> QED BY <1>2, <1>3, <2>1, <2>2, <2>3 DEF Fits
<1> QED BY <1>1, <1>2, <1>3, <1>4, <1>5, ThrowStays

-----------------------------------------------------------------------------
(* An operation starts with nothing on its way, and what was owed before   *)
(* an outermost one is not any more.                                       *)
LEMMA StartThrowingKeeps ==
  ASSUME IndInv, ThrownInv, NEW i \in Isolates, StartThrowing(i)
  PROVE  ThrownInv'
<1>1. PICK fr : /\ fr = [kind |-> "op", iso |-> i, depth |-> depth[i], entered |-> depth[i] = 0 \/ current # i]
                /\ stack' = [stack EXCEPT ![running] = Append(@, fr)]
                /\ depth' = [depth EXCEPT ![i] = @ + 1] /\ UNCHANGED disposed
  BY DEF StartThrowing, Start, lifeVars
<1>2. /\ carry' = [carry EXCEPT ![running] = Append(@, NoValue)]
      /\ owed' = IF depth[i] = 0 THEN [owed EXCEPT ![i] = 0] ELSE owed
      /\ UNCHANGED <<thrown, serials, saved>>
  BY DEF StartThrowing
<1>3. depth \in [Isolates -> Nat] /\ fr \in Frame /\ fr.kind = "op"
  BY <1>1 DEF IndInv, NestTypeOK, Frame
<1>4. SlotsGrow
  BY <1>2, SlotsStay DEF ThrownInv
<1>5. Fits(fr, NoValue, thrown', serials')
  BY <1>3 DEF Fits
<1>6. CarryInv'
  BY <1>1, <1>2, <1>3, <1>4, <1>5, PushCarries DEF ThrownInv
<1>7. SlotsInv'
  <2>1. \A j \in Isolates : thrown'[j].serial <= serials'
    BY <1>2 DEF ThrownInv, SlotsInv
  <2>2. owed' \in [Isolates -> 0 .. serials']
    <3>1. owed \in [Isolates -> 0 .. serials] /\ 0 \in 0 .. serials
      BY DEF ThrownInv, SlotsInv
    <3> QED BY <1>2, <3>1
  <2> QED BY <1>2, <1>4, <2>1, <2>2, SlotsKeep DEF ThrownInv
<1>8. OwedInv' /\ NothingKeptWhenIdle'
  <2>1. owed \in [Isolates -> 0 .. serials]
    BY DEF ThrownInv, SlotsInv
  <2>2. \A j \in Isolates \ {i} : thrown'[j] = thrown[j] /\ owed'[j] = owed[j] /\ depth'[j] = depth[j]
    BY <1>1, <1>2, <1>3, <2>1
  <2>3. depth'[i] # 0
    <3>1. depth'[i] = depth[i] + 1 /\ depth[i] \in Nat
      BY <1>1, <1>3
    <3> QED BY <3>1
  <2>4. owed'[i] # 0 => thrown'[i].serial = owed'[i]
    BY <1>2, <2>1 DEF ThrownInv, OwedInv
  <2> QED BY <1>1, <2>2, <2>3, <2>4, OwedKeeps DEF ThrownInv
<1> QED BY <1>6, <1>7, <1>8 DEF ThrownInv

(* JavaScript calls Ruby, which has no exceptions yet.                     *)
LEMMA CallFromJsKeeps ==
  ASSUME IndInv, ThrownInv, CallFromJs
  PROVE  ThrownInv'
<1>1. PICK fr : /\ fr = [kind |-> "callback", iso |-> Top(running).iso,
                         depth |-> depth[Top(running).iso], entered |-> FALSE]
                /\ stack' = [stack EXCEPT ![running] = Append(@, fr)]
                /\ stack[running] # <<>>
                /\ UNCHANGED <<depth, disposed>>
  BY DEF CallFromJs, CallRuby, ScriptRuns, InRuby, lifeVars
<1>2. /\ carry' = [carry EXCEPT ![running] = Append(@, <<>>)]
      /\ UNCHANGED <<thrown, serials, saved, owed>>
  BY DEF CallFromJs
<1>3. fr \in Frame /\ fr.kind = "callback"
  <2>1. PICK N \in DOMAIN stack[running] : Top(running) = stack[running][N]
    <3>1. PICK N \in Nat : /\ Len(stack[running]) = N /\ DOMAIN stack[running] = 1 .. N
                           /\ N # 0 /\ Top(running) = stack[running][N]
      BY <1>1, Stacks DEF ThrownInv
    <3> QED BY <3>1
  <2>2. running \in Fibers /\ NestTypeOK /\ depth \in [Isolates -> Nat]
    BY DEF IndInv, NestTypeOK
  <2>3. Top(running).iso \in Isolates
    BY <2>1, <2>2, Frames
  <2> QED BY <1>1, <2>2, <2>3 DEF Frame
<1>4. SlotsGrow
  BY <1>2, SlotsStay DEF ThrownInv
<1>5. Fits(fr, <<>>, thrown', serials')
  BY <1>3 DEF Fits
<1>6. CarryInv'
  BY <1>1, <1>2, <1>3, <1>4, <1>5, PushCarries DEF ThrownInv
<1>7. SlotsInv' /\ OwedInv' /\ NothingKeptWhenIdle'
  BY <1>1, <1>2 DEF ThrownInv, SlotsInv, OwedInv, NothingKeptWhenIdle
<1> QED BY <1>6, <1>7 DEF ThrownInv

(* The proc returns a value, ...                                           *)
LEMMA ReturnValueKeeps ==
  ASSUME IndInv, ThrownInv, ReturnToJs, ~aborted', ReturnValue
  PROVE  ThrownInv'
<1>1. /\ stack[running] # <<>> /\ stack' = [stack EXCEPT ![running] = Pop(running)]
      /\ UNCHANGED <<depth, disposed>>
  BY DEF ReturnToJs, ReturnRuby, lifeVars
<1>2. /\ carry' = [carry EXCEPT ![running] = Below]
      /\ UNCHANGED <<thrown, serials, saved, owed>>
  BY DEF ReturnToJs, ReturnValue
<1>3. SlotsGrow
  BY <1>2, SlotsStay DEF ThrownInv
<1>4. CarryInv'
  BY <1>1, <1>2, <1>3, PopCarries DEF ThrownInv
<1>5. SlotsInv' /\ OwedInv' /\ NothingKeptWhenIdle'
  BY <1>1, <1>2 DEF ThrownInv, SlotsInv, OwedInv, NothingKeptWhenIdle
<1> QED BY <1>4, <1>5 DEF ThrownInv

\* What take_thrown makes of the exception that left the callback.
Rethrown(i) == IF Take(i, LastError) THEN thrown[i].value ELSE NewError

(* ... or an exception leaves it, and what it stands for is thrown on.     *)
LEMMA ReturnErrorKeeps ==
  ASSUME IndInv, ThrownInv, ReturnToJs, ~aborted', ReturnError(Top(running).iso)
  PROVE  ThrownInv'
<1>1. PICK i : i = Top(running).iso
  OBVIOUS
<1>2. /\ stack[running] # <<>> /\ stack' = [stack EXCEPT ![running] = Pop(running)]
      /\ UNCHANGED <<depth, disposed, serials, saved>> /\ InCallback
  BY DEF ReturnToJs, ReturnRuby, lifeVars, InCallback
<1>3. PICK N \in Nat \ {0} : /\ Len(stack[running]) = N + 1 /\ i \in Isolates
                             /\ stack[running][N].kind = "op"
  BY <1>1, <1>2, CallbackCarries DEF ThrownInv
<1>4. /\ thrown \in [Isolates -> Slot] /\ owed \in [Isolates -> 0 .. serials] /\ serials \in Nat
  BY DEF ThrownInv, SlotsInv
<1>5. PICK v : v = Rethrown(i)
  OBVIOUS
<1>6. /\ carry' = [carry EXCEPT ![running] = [Below EXCEPT ![Len(Below)] = v]]
      /\ \/ /\ thrown' = [thrown EXCEPT ![i] = None]
            /\ owed' = [owed EXCEPT ![i] = 0]
         \/ thrown' = [thrown EXCEPT ![i] = thrown[i]] /\ UNCHANGED owed
  BY <1>1, <1>4, <1>5 DEF ReturnError, ThrowInto, Rethrown
<1>7. SlotsGrow /\ \A j \in Isolates : thrown'[j].serial <= serials'
  BY <1>2, <1>3, <1>6, SlotCleared DEF ThrownInv
<1>8. v \in Thrownable
  <2>1. CASE Take(i, LastError)
    <3>1. thrown[i] # None
      BY <2>1 DEF Take, None
    <3> QED BY <1>3, <1>4, <1>5, <2>1, <3>1 DEF Slot, Rethrown
  <2> QED BY <1>5, <2>1 DEF Rethrown, Thrownable
<1>9. Fits(stack[running][N], v, thrown', serials')
  BY <1>3, <1>8 DEF Fits
<1>10. CarryInv'
  BY <1>2, <1>3, <1>6, <1>7, <1>9, PopIntoCarries DEF ThrownInv
<1>11. SlotsInv'
  <2>1. owed' \in [Isolates -> 0 .. serials']
    <3>1. 0 \in 0 .. serials
      BY <1>4
    <3> QED BY <1>2, <1>4, <1>6, <3>1
  <2> QED BY <1>2, <1>7, <2>1, SlotsKeep DEF ThrownInv
<1>12. OwedInv' /\ NothingKeptWhenIdle'
  <2>1. \A j \in Isolates \ {i} : thrown'[j] = thrown[j] /\ owed'[j] = owed[j] /\ depth'[j] = depth[j]
    BY <1>2, <1>4, <1>6
  <2>2. owed'[i] # 0 /\ depth'[i] # 0 => thrown'[i].serial = owed'[i]
    <3>1. CASE owed' = [owed EXCEPT ![i] = 0]
      BY <1>3, <1>4, <3>1
    <3>2. CASE thrown' = [thrown EXCEPT ![i] = thrown[i]] /\ UNCHANGED owed
      BY <1>2, <1>3, <1>4, <3>2 DEF ThrownInv, OwedInv
    <3> QED BY <1>6, <3>1, <3>2
  <2>3. i \notin disposed' /\ depth'[i] = 0 => thrown'[i] = None
    <3>1. i \notin disposed /\ depth[i] = 0 => thrown[i] = None
      BY <1>3 DEF ThrownInv, NothingKeptWhenIdle
    <3> QED BY <1>2, <1>3, <1>4, <1>6, <3>1
  <2> QED BY <1>2, <1>3, <2>1, <2>2, <2>3, OwedKeeps DEF ThrownInv
<1> QED BY <1>10, <1>11, <1>12 DEF ThrownInv

-----------------------------------------------------------------------------
(* The exception an operation raises goes to the callback below it, if     *)
(* there is one.                                                           *)
LEMMA RaiseToCallerCarries ==
  ASSUME IndInv, CarryInv, SlotsGrow, NEW e \in Error, Known(e, thrown', serials'),
         stack[running] # <<>>, Top(running).kind = "op",
         stack' = [stack EXCEPT ![running] = Pop(running)], RaiseToCaller(e)
  PROVE  CarryInv' /\ \A x \in saved' : x \in saved \/ (x \in Error /\ Known(x, thrown', serials'))
<1>1. /\ running \in Fibers /\ carry[running] \in Seq(Load) /\ stack[running] \in Seq(Frame)
      /\ NestTypeOK
  BY Stacks DEF IndInv
<1>2. PICK N \in Nat : /\ Len(stack[running]) = N + 1 /\ Len(carry[running]) = N + 1
                       /\ DOMAIN stack[running] = 1 .. N + 1
                       /\ Top(running) = stack[running][N + 1]
  <2>1. PICK K \in Nat : /\ Len(stack[running]) = K /\ Len(carry[running]) = K /\ K # 0
                         /\ DOMAIN stack[running] = 1 .. K /\ Top(running) = stack[running][K]
    BY Stacks
  <2>2. K - 1 \in Nat /\ (K - 1) + 1 = K
    BY <2>1
  <2> QED BY <2>1, <2>2
<1>3. \A x \in saved' : x \in saved \/ (x \in Error /\ Known(x, thrown', serials'))
  BY DEF RaiseToCaller, MaySave
<1>4. PICK t : t = Below
  OBVIOUS
<1>5. UpTo(t, carry[running], N, carry[running][N], Load)
  <2>1. PICK s \in Seq(Load), n \in Nat : s = carry[running] /\ n = N /\ Len(s) = n + 1
    BY <1>1, <1>2
  <2>2. UpTo(SubSeq(s, 1, Len(s) - 1), s, n, s[n], Load)
    BY <2>1, CutOff
  <2> QED BY <1>4, <2>1, <2>2 DEF Below
<1>6. t = <<>> <=> N = 0
  BY <1>5 DEF UpTo
<1>7. CASE N = 0
  <2>1. carry' = [carry EXCEPT ![running] = Below]
    BY <1>4, <1>6, <1>7 DEF RaiseToCaller
  <2> QED BY <1>3, <2>1, PopCarries
<1>8. CASE N # 0
  <2>1. N \in DOMAIN stack[running] /\ N + 1 \in DOMAIN stack[running] /\ N + 1 > 1 /\ (N + 1) - 1 = N
    BY <1>2, <1>8
  <2>2. stack[running][N].kind = "callback"
    BY <1>1, <1>2, <2>1 DEF IndInv, NestInv, Alternation
  <2>3. t[Len(t)] = carry[running][N]
    BY <1>5, <1>8 DEF UpTo
  <2>4. Fits(stack[running][N], carry[running][N], thrown', serials')
    BY <1>1, <2>1, FitsStays DEF CarryInv
  <2>5. PICK c : c = carry[running][N]
    OBVIOUS
  <2>6. c \in Seq(Error) /\ \A j \in DOMAIN c : Known(c[j], thrown', serials')
    BY <2>2, <2>4, <2>5 DEF Fits
  <2>7. PICK x : x = Append(c, e)
    OBVIOUS
  <2>8. Fits(stack[running][N], x, thrown', serials')
    <3>1. PICK n \in Nat : n = Len(c) /\ DOMAIN c = 1 .. n
      BY <2>6
    <3>2. x \in Seq(Error) /\ DOMAIN x = 1 .. n + 1 /\ x[n + 1] = e /\ \A j \in 1 .. n : x[j] = c[j]
      BY <2>6, <2>7, <3>1
    <3>3. \A j \in 1 .. n + 1 : j = n + 1 \/ j \in 1 .. n
      OBVIOUS
    <3> QED BY <2>2, <2>6, <3>1, <3>2, <3>3 DEF Fits
  <2>9. carry' = [carry EXCEPT ![running] = [Below EXCEPT ![Len(Below)] = x]]
    <3>1. carry' = [carry EXCEPT ![running] = [t EXCEPT ![Len(t)] = Append(t[Len(t)], e)]]
      BY <1>4, <1>6, <1>8 DEF RaiseToCaller
    <3> QED BY <1>4, <2>3, <2>5, <2>7, <3>1
  <2>10. N \in Nat \ {0}
    BY <1>8
  <2> QED BY <1>2, <1>3, <2>8, <2>9, <2>10, PopIntoCarries
<1> QED BY <1>7, <1>8

(* What the end of an operation does to the stack and its isolate.         *)
LEMMA Finishes ==
  ASSUME IndInv, CarryInv, NEW outcome, Finish(outcome)
  PROVE  /\ stack[running] # <<>> /\ Top(running).kind = "op" /\ Top(running).iso \in Isolates
         /\ stack' = [stack EXCEPT ![running] = Pop(running)]
         /\ \A j \in Isolates \ {Top(running).iso} : depth'[j] = depth[j]
         /\ depth'[Top(running).iso] = Top(running).depth
         /\ Carried \in Thrownable \cup {NoValue}
         /\ disposed \subseteq disposed' /\ (outcome = "panic" => Top(running).iso \in disposed')
<1>1. stack[running] # <<>> /\ Top(running).kind # "callback" /\ ~InRuby(running)
  BY DEF Finish, ScriptRuns, InRuby
<1>2. PICK N \in DOMAIN stack[running] :
        /\ Top(running) = stack[running][N]
        /\ Fits(stack[running][N], Carried, thrown, serials)
  <2>1. PICK N \in Nat : /\ Len(stack[running]) = N /\ DOMAIN stack[running] = 1 .. N
                         /\ N # 0 /\ Top(running) = stack[running][N]
                         /\ Fits(stack[running][N], Carried, thrown, serials)
    BY <1>1, Stacks
  <2> QED BY <2>1
<1>3. running \in Fibers /\ NestTypeOK /\ depth \in [Isolates -> Nat]
  BY DEF IndInv, NestTypeOK
<1>4. Top(running).kind = "op" /\ Top(running).iso \in Isolates /\ Top(running).depth \in Nat
  BY <1>1, <1>2, <1>3, Frames
<1>5. Carried \in Thrownable \cup {NoValue}
  BY <1>2, <1>4 DEF Fits
<1>6. /\ stack' = [stack EXCEPT ![running] = Pop(running)]
      /\ depth' = [depth EXCEPT ![Top(running).iso] = @ - 1]
      /\ disposed' = IF outcome = "panic" THEN disposed \cup {Top(running).iso} ELSE disposed
  BY DEF Finish
<1>7. Top(running).depth + 1 = depth[Top(running).iso]
  BY <1>1 DEF IndInv, NestInv, TopIsLast
<1>8. PICK i \in Isolates, d \in Nat : i = Top(running).iso /\ d = Top(running).depth
  BY <1>4
<1>9. depth'[i] = d /\ \A j \in Isolates \ {i} : depth'[j] = depth[j]
  <2>1. depth[i] = d + 1 /\ (d + 1) - 1 = d
    BY <1>7, <1>8
  <2> QED BY <1>3, <1>6, <1>8, <2>1
<1>10. disposed \subseteq disposed' /\ (outcome = "panic" => Top(running).iso \in disposed')
  BY <1>6
<1> QED BY <1>1, <1>4, <1>5, <1>6, <1>8, <1>9, <1>10

(* The slot of the isolate as one of its operations ends, whose value, if  *)
(* it is kept, is owed.                                                    *)
LEMMA FinishSettles ==
  ASSUME IndInv, ThrownInv, NEW outcome, Finish(outcome), NEW slot \in Slot, NEW s \in 0 .. serials',
         SlotsGrow, \A j \in Isolates : thrown'[j].serial <= serials',
         \A e \in saved' : e \in saved \/ (e \in Error /\ Known(e, thrown', serials')),
         thrown' = [thrown EXCEPT ![Top(running).iso] = Cleared(Top(running).iso, slot)],
         owed' = [owed EXCEPT ![Top(running).iso] = s],
         s # 0 /\ depth'[Top(running).iso] # 0 => slot.serial = s
  PROVE  SlotsInv' /\ OwedInv' /\ NothingKeptWhenIdle'
<1>1. PICK i \in Isolates : /\ i = Top(running).iso /\ disposed \subseteq disposed'
                            /\ \A j \in Isolates \ {i} : depth'[j] = depth[j]
                            /\ depth'[i] = Top(running).depth
  BY Finishes DEF ThrownInv
<1>2. /\ thrown \in [Isolates -> Slot] /\ owed \in [Isolates -> 0 .. serials]
      /\ serials \in Nat /\ serials' \in Nat /\ serials <= serials'
  BY DEF ThrownInv, SlotsInv, SlotsGrow
<1>3. owed' \in [Isolates -> 0 .. serials']
  <2>1. \A n \in 0 .. serials : n \in 0 .. serials'
    BY <1>2
  <2> QED BY <1>2, <2>1
<1>4. SlotsInv'
  BY <1>3, SlotsKeep DEF ThrownInv
<1>5. \A j \in Isolates \ {i} : thrown'[j] = thrown[j] /\ owed'[j] = owed[j] /\ depth'[j] = depth[j]
  BY <1>1, <1>2
<1>6. owed'[i] = s /\ thrown'[i] = IF depth'[i] = 0 THEN None ELSE slot
  BY <1>1, <1>2 DEF Cleared
<1>7. OwedInv' /\ NothingKeptWhenIdle'
  BY <1>1, <1>5, <1>6, OwedKeeps DEF ThrownInv
<1> QED BY <1>4, <1>7

(* An exception of Ruby's own stands for no value.                         *)
LEMMA RubyErrorKnown ==
  ASSUME NEW i \in Isolates, NEW th, NEW n \in Nat
  PROVE  RubyError(i) \in Error /\ Known(RubyError(i), th, n)
BY DEF RubyError, Error, Known, Thrownable

(* An operation that ends was in flight.                                   *)
LEMMA FinishDepth ==
  ASSUME IndInv, NEW outcome, Finish(outcome)
  PROVE  depth[Top(running).iso] # 0
<1>1. ~InRuby(running) /\ stack[running] # <<>> /\ NestTypeOK /\ running \in Fibers
  BY DEF Finish, ScriptRuns, InRuby, IndInv, NestTypeOK
<1>2. Top(running).depth + 1 = depth[Top(running).iso]
  BY <1>1 DEF IndInv, NestInv, TopIsLast
<1>3. Top(running).depth \in Nat
  BY <1>1, Frames DEF Top
<1> QED BY <1>2, <1>3

(* The slot an operation that keeps no value leaves.                       *)
LEMMA KeepsNoValue ==
  ASSUME IndInv, ThrownInv, NEW outcome, Finish(outcome), UNCHANGED <<serials, owed>>,
         thrown' = [thrown EXCEPT ![Top(running).iso] = Cleared(Top(running).iso, @)]
  PROVE  /\ SlotsGrow
         /\ (\A e \in saved' : e \in saved \/ (e \in Error /\ Known(e, thrown', serials')))
            => SlotsInv' /\ OwedInv' /\ NothingKeptWhenIdle'
<1>1. PICK i \in Isolates : i = Top(running).iso /\ depth'[i] = Top(running).depth
  BY Finishes DEF ThrownInv
<1>2. /\ thrown \in [Isolates -> Slot] /\ owed \in [Isolates -> 0 .. serials]
      /\ thrown[i] \in Slot /\ owed[i] \in 0 .. serials'
  BY <1>1 DEF ThrownInv, SlotsInv
<1>3. /\ thrown' = [thrown EXCEPT ![i] = Cleared(i, thrown[i])]
      /\ owed' = [owed EXCEPT ![i] = owed[i]]
  BY <1>1, <1>2
<1>4. Cleared(i, thrown[i]) \in {thrown[i], None}
  BY DEF Cleared
<1>5. SlotsGrow /\ \A j \in Isolates : thrown'[j].serial <= serials'
  BY <1>3, <1>4, SlotCleared DEF ThrownInv
<1>6. owed[i] # 0 /\ depth'[i] # 0 => thrown[i].serial = owed[i]
  <2>1. depth[i] # 0
    BY <1>1, FinishDepth
  <2> QED BY <2>1 DEF ThrownInv, OwedInv
<1> QED BY <1>1, <1>2, <1>3, <1>5, <1>6, FinishSettles

(* It returns a value, ...                                                 *)
LEMMA FinishValueKeeps ==
  ASSUME IndInv, ThrownInv, FinishValue
  PROVE  ThrownInv'
<1>1. /\ Finish("reply") /\ carry' = [carry EXCEPT ![running] = Below]
      /\ thrown' = [thrown EXCEPT ![Top(running).iso] = Cleared(Top(running).iso, @)]
      /\ UNCHANGED <<serials, saved, owed>>
  BY DEF FinishValue
<1>2. SlotsGrow /\ SlotsInv' /\ OwedInv' /\ NothingKeptWhenIdle'
  BY <1>1, KeepsNoValue
<1>3. CarryInv'
  BY <1>1, <1>2, Finishes, PopCarries DEF ThrownInv
<1> QED BY <1>2, <1>3 DEF ThrownInv

(* ... or fails with none to throw on, ...                                 *)
LEMMA FinishWithoutValueKeeps ==
  ASSUME IndInv, ThrownInv, NEW outcome, FinishWithoutValue(outcome)
  PROVE  ThrownInv'
<1>1. PICK i : i = Top(running).iso
  OBVIOUS
<1>2. /\ Finish(outcome) /\ RaiseToCaller(RubyError(i)) /\ UNCHANGED <<serials, owed>>
      /\ thrown' = IF outcome = "panic" THEN thrown ELSE [thrown EXCEPT ![i] = Cleared(i, @)]
  BY <1>1 DEF FinishWithoutValue
<1>3. /\ stack[running] # <<>> /\ Top(running).kind = "op" /\ i \in Isolates
      /\ stack' = [stack EXCEPT ![running] = Pop(running)]
      /\ \A j \in Isolates \ {i} : depth'[j] = depth[j]
      /\ disposed \subseteq disposed' /\ (outcome = "panic" => i \in disposed')
  BY <1>1, <1>2, Finishes DEF ThrownInv
<1>4. SlotsGrow
  <2>1. CASE outcome = "panic"
    BY <1>2, <2>1, SlotsStay DEF ThrownInv
  <2>2. CASE outcome # "panic"
    BY <1>1, <1>2, <2>2, KeepsNoValue
  <2> QED BY <2>1, <2>2
<1>5. RubyError(i) \in Error /\ Known(RubyError(i), thrown', serials')
  BY <1>3, <1>4, RubyErrorKnown DEF SlotsGrow
<1>6. CarryInv' /\ \A x \in saved' : x \in saved \/ (x \in Error /\ Known(x, thrown', serials'))
  BY <1>2, <1>3, <1>4, <1>5, RaiseToCallerCarries DEF ThrownInv
<1>7. SlotsInv' /\ OwedInv' /\ NothingKeptWhenIdle'
  <2>1. CASE outcome = "panic"
    <3>1. UNCHANGED <<thrown, owed, serials>>
      BY <1>2, <2>1
    <3>2. SlotsInv'
      <4>1. /\ \A j \in Isolates : thrown'[j].serial <= serials'
            /\ owed' \in [Isolates -> 0 .. serials']
        BY <3>1 DEF ThrownInv, SlotsInv
      <4> QED BY <1>4, <1>6, <4>1, SlotsKeep DEF ThrownInv
    <3>3. owed'[i] # 0 => thrown'[i].serial = owed'[i]
      <4>1. depth[i] # 0
        BY <1>1, <1>2, FinishDepth DEF ThrownInv
      <4> QED BY <1>3, <3>1, <4>1 DEF ThrownInv, OwedInv
    <3> QED BY <1>3, <2>1, <3>1, <3>2, <3>3, OwedKeeps DEF ThrownInv
  <2>2. CASE outcome # "panic"
    BY <1>1, <1>2, <1>6, <2>2, KeepsNoValue
  <2> QED BY <2>1, <2>2
<1> QED BY <1>6, <1>7 DEF ThrownInv

(* ... or keeps what JavaScript threw under a new serial.                  *)
LEMMA FinishThrownKeeps ==
  ASSUME IndInv, ThrownInv, FinishThrown
  PROVE  ThrownInv'
<1>1. PICK i, kept : i = Top(running).iso /\ kept = Kept(i, Carried)
  OBVIOUS
<1>2. /\ Finish("reply") /\ Carried # NoValue /\ serials' = serials + 1
      /\ thrown' = [thrown EXCEPT ![i] = Cleared(i, kept)]
      /\ owed' = [owed EXCEPT ![i] = kept.serial]
      /\ RaiseToCaller([iso |-> i, value |-> Carried, serial |-> kept.serial])
  BY <1>1 DEF FinishThrown
<1>3. /\ stack[running] # <<>> /\ Top(running).kind = "op" /\ i \in Isolates
      /\ stack' = [stack EXCEPT ![running] = Pop(running)] /\ Carried \in Thrownable
  BY <1>1, <1>2, Finishes DEF ThrownInv
<1>4. /\ thrown \in [Isolates -> Slot] /\ serials \in Nat
      /\ \A j \in Isolates : thrown[j].serial <= serials
  BY DEF ThrownInv, SlotsInv
<1>5. PICK n \in Nat \ {0} : /\ n = serials + 1 /\ serials' = n /\ serials <= n /\ n > serials
                             /\ kept = [serial |-> n, value |-> Carried]
  BY <1>1, <1>2, <1>4 DEF Kept
<1>6. kept \in Slot /\ kept.serial = n /\ kept.value = Carried /\ n \in 0 .. serials'
  BY <1>3, <1>5 DEF Slot
<1>7. \A j \in Isolates : thrown'[j] = IF j = i THEN Cleared(i, kept) ELSE thrown[j]
  BY <1>2, <1>4
<1>8. Cleared(i, kept) \in {kept, None} /\ None \in Slot /\ None.serial = 0
  BY DEF Cleared, None, Slot
<1>9. SlotsGrow
  <2>1. thrown' \in [Isolates -> Slot]
    BY <1>2, <1>4, <1>6, <1>8
  <2>2. \A j \in Isolates : thrown'[j] \in {thrown[j], None} \/ thrown'[j].serial > serials
    BY <1>5, <1>6, <1>7, <1>8
  <2> QED BY <1>4, <1>5, <2>1, <2>2 DEF SlotsGrow
<1>10. \A j \in Isolates : thrown'[j].serial <= serials'
  <2>1. thrown'[i].serial \in {0, n}
    BY <1>3, <1>6, <1>7, <1>8
  <2>2. thrown'[i].serial <= serials'
    BY <1>5, <2>1
  <2>3. ASSUME NEW j \in Isolates, j # i PROVE thrown'[j].serial <= serials'
    <3>1. thrown'[j] = thrown[j] /\ thrown[j].serial <= serials /\ thrown[j].serial \in Nat
      BY <1>4, <1>7, <2>3 DEF Slot, None
    <3> QED BY <1>4, <1>5, <3>1
  <2> QED BY <2>2, <2>3
<1>11. PICK e : e = [iso |-> i, value |-> Carried, serial |-> kept.serial]
  OBVIOUS
<1>12. e \in Error /\ Known(e, thrown', serials')
  <2>1. e \in Error /\ e.serial = n /\ e.iso = i /\ e.value = Carried
    BY <1>3, <1>6, <1>11 DEF Error
  <2>2. ASSUME NEW j \in Isolates, n = thrown'[j].serial
        PROVE  j = i /\ thrown'[j].value = Carried
    <3>1. CASE j = i
      BY <1>5, <1>6, <1>7, <1>8, <2>2, <3>1
    <3>2. CASE j # i
      <4>1. thrown'[j] = thrown[j] /\ thrown[j].serial <= serials /\ thrown[j].serial \in Nat
        BY <1>4, <1>7, <3>2 DEF Slot, None
      <4> QED BY <1>4, <1>5, <2>2, <4>1
    <3> QED BY <3>1, <3>2
  <2>3. e.serial <= serials'
    BY <1>5, <2>1
  <2> QED BY <2>1, <2>2, <2>3 DEF Known
<1>13. CarryInv' /\ \A x \in saved' : x \in saved \/ (x \in Error /\ Known(x, thrown', serials'))
  BY <1>2, <1>3, <1>9, <1>11, <1>12, RaiseToCallerCarries DEF ThrownInv
<1>14. SlotsInv' /\ OwedInv' /\ NothingKeptWhenIdle'
  BY <1>1, <1>2, <1>6, <1>9, <1>10, <1>13, FinishSettles
<1> QED BY <1>13, <1>14 DEF ThrownInv

-----------------------------------------------------------------------------
(* Each step of Thrown is one of OpStack, with what is thrown on its way.  *)
LEMMA ThrownSteps ==
  [ThrownNext]_<<vars, thrownVars>> => [Next]_vars
<1> SUFFICES ASSUME [ThrownNext]_<<vars, thrownVars>>
             PROVE  [Next]_vars
  OBVIOUS
<1>1. ASSUME NEW i \in Isolates, StartThrowing(i) PROVE Next
  BY <1>1 DEF StartThrowing, Next, IsolateStep
<1>2. CASE CallFromJs \/ ReturnToJs
  BY <1>2 DEF CallFromJs, ReturnToJs, Next
<1>3. CASE FinishValue \/ FinishThrown
  <2>1. Finish("reply")
    BY <1>3 DEF FinishValue, FinishThrown
  <2> QED BY <2>1, RepliesAssumption DEF Next
<1>4. ASSUME NEW outcome \in Outcomes, FinishWithoutValue(outcome) PROVE Next
  <2>1. Finish(outcome)
    BY <1>4 DEF FinishWithoutValue
  <2> QED BY <2>1 DEF Next
<1>5. CASE Catch \/ Rescue
  BY <1>5 DEF Catch, Rescue
<1>6. ASSUME NEW v \in Values, Throw(v) PROVE UNCHANGED vars
  BY <1>6 DEF Throw
<1>7. ASSUME NEW e, Raise(e) PROVE UNCHANGED vars
  BY <1>7 DEF Raise
<1>8. RaiseOwn => UNCHANGED vars
  BY <1>7 DEF RaiseOwn
<1>9. CASE NewIsolate
  BY <1>9 DEF NewIsolate, Next, IsolateStep
<1>10. CASE UNCHANGED <<vars, thrownVars>>
  BY <1>10
<1> QED BY <1>1, <1>2, <1>3, <1>4, <1>5, <1>6, <1>7, <1>8, <1>9, <1>10 DEF ThrownNext

(* No step switches Fibers.                                                *)
LEMMA StaysOnFiber ==
  [ThrownNext]_<<vars, thrownVars>> => UNCHANGED <<running, yieldedOut>>
<1> SUFFICES ASSUME [ThrownNext]_<<vars, thrownVars>>
             PROVE  UNCHANGED fiberVars
  BY DEF fiberVars
<1>1. ASSUME NEW i \in Isolates, StartThrowing(i) PROVE UNCHANGED fiberVars
  BY <1>1 DEF StartThrowing, Start
<1>2. CASE CallFromJs \/ ReturnToJs
  BY <1>2 DEF CallFromJs, ReturnToJs, CallRuby, ReturnRuby
<1>3. CASE FinishValue \/ FinishThrown
  BY <1>3 DEF FinishValue, FinishThrown, Finish
<1>4. ASSUME NEW outcome \in Outcomes, FinishWithoutValue(outcome) PROVE UNCHANGED fiberVars
  BY <1>4 DEF FinishWithoutValue, Finish
<1>5. CASE Catch \/ Rescue
  BY <1>5 DEF Catch, Rescue, vars
<1>6. ASSUME NEW v \in Values, Throw(v) PROVE UNCHANGED fiberVars
  BY <1>6 DEF Throw, vars
<1>7. ASSUME NEW e, Raise(e) PROVE UNCHANGED fiberVars
  BY <1>7 DEF Raise, vars
<1>8. RaiseOwn => UNCHANGED fiberVars
  BY <1>7 DEF RaiseOwn
<1>9. CASE NewIsolate
  BY <1>9 DEF NewIsolate, New
<1>10. CASE UNCHANGED <<vars, thrownVars>>
  BY <1>10 DEF vars
<1> QED BY <1>1, <1>2, <1>3, <1>4, <1>5, <1>6, <1>7, <1>8, <1>9, <1>10 DEF ThrownNext

(* Operations with values on their way are operations: what is proved of   *)
(* OpStack holds of them.                                                  *)
THEOREM ThrownNests == ThrownSpec => Spec
<1>1. ThrownInit => Init
  BY DEF ThrownInit
<1> QED BY <1>1, ThrownSteps, PTL DEF ThrownSpec, Spec

\* What OpStack gives on one Fiber.
NestedOnOne == IndInv /\ OneFiber /\ ~aborted

(* On one Fiber operations nest, and the process is never stopped.         *)
LEMMA NestsOnOne == ThrownSpec => []NestedOnOne
<1>1. ThrownInit => OneFiber
  BY DEF ThrownInit, Init, OneFiber
<1>2. OneFiber /\ [ThrownNext]_<<vars, thrownVars>> => OneFiber'
  BY StaysOnFiber DEF OneFiber
<1>3. ThrownSpec => []OneFiber
  BY <1>1, <1>2, PTL DEF ThrownSpec
<1>4. NestTypeOK /\ NestInv /\ NestsUnlessYielded /\ OneFiber => NestedOnOne
  BY DEF IndInv, OneFiber, NestsUnlessYielded, NestedOnOne
<1> QED BY <1>3, <1>4, ThrownNests, NestingInvariant, RunningIsCurrent, PTL

(* Every step keeps the invariant of what is on its way, ...               *)
LEMMA ThrownInductive ==
  NestedOnOne /\ NestedOnOne' /\ ThrownInv /\ [ThrownNext]_<<vars, thrownVars>> => ThrownInv'
<1> SUFFICES ASSUME IndInv, ~aborted', ThrownInv, [ThrownNext]_<<vars, thrownVars>>
             PROVE  ThrownInv'
  BY DEF NestedOnOne
<1>1. ASSUME NEW i \in Isolates, StartThrowing(i) PROVE ThrownInv'
  BY <1>1, StartThrowingKeeps
<1>2. CASE CallFromJs
  BY <1>2, CallFromJsKeeps
<1>3. CASE ReturnToJs
  <2>1. ReturnValue \/ ReturnError(Top(running).iso)
    BY <1>3 DEF ReturnToJs
  <2> QED BY <1>3, <2>1, ReturnValueKeeps, ReturnErrorKeeps
<1>4. CASE FinishValue \/ FinishThrown
  BY <1>4, FinishValueKeeps, FinishThrownKeeps
<1>5. ASSUME NEW outcome \in Outcomes, FinishWithoutValue(outcome) PROVE ThrownInv'
  BY <1>5, FinishWithoutValueKeeps
<1>6. CASE Catch
  BY <1>6, ThrowKeeps DEF Catch
<1>7. ASSUME NEW v \in Values, Throw(v) PROVE ThrownInv'
  BY <1>7, ThrowKeeps DEF Throw
<1>8. CASE Rescue
  BY <1>8, RescueKeeps
<1>9. ASSUME NEW e \in saved, Raise(e) PROVE ThrownInv'
  BY <1>9, RaiseKeeps DEF ThrownInv, SlotsInv
<1>10. CASE RaiseOwn
  <2>1. Raise(RubyError(Top(running).iso)) /\ InCallback
    BY <1>10 DEF RaiseOwn, Raise
  <2>2. Top(running).iso \in Isolates /\ serials \in Nat
    BY <2>1, CallbackCarries DEF ThrownInv, SlotsInv
  <2> QED BY <2>1, <2>2, RubyErrorKnown, RaiseKeeps
<1>11. CASE NewIsolate
  <2>1. UNCHANGED <<stack, depth, disposed, thrown, serials, carry, saved, owed>>
    BY <1>11 DEF NewIsolate, New, thrownVars
  <2> QED BY <2>1 DEF ThrownInv, CarryInv, SlotsInv, OwedInv, NothingKeptWhenIdle
<1>12. CASE UNCHANGED <<vars, thrownVars>>
  <2>1. UNCHANGED <<stack, depth, disposed, thrown, serials, carry, saved, owed>>
    BY <1>12 DEF vars, lifeVars, thrownVars
  <2> QED BY <2>1 DEF ThrownInv, CarryInv, SlotsInv, OwedInv, NothingKeptWhenIdle
<1> QED BY <1>1, <1>2, <1>3, <1>4, <1>5, <1>6, <1>7, <1>8, <1>9, <1>10, <1>11, <1>12 DEF ThrownNext

(* ... which holds before anything is thrown.                              *)
LEMMA ThrownInvInit == ThrownInit => ThrownInv
<1> SUFFICES ASSUME ThrownInit
             PROVE  ThrownInv
  OBVIOUS
<1>1. /\ \A i \in Isolates : thrown[i] = None /\ owed[i] = 0
      /\ None.serial = 0 /\ None \in Slot
      /\ thrown \in [Isolates -> Slot] /\ serials = 0 /\ saved = {} /\ owed \in [Isolates -> 0 .. 0]
  BY DEF ThrownInit, None, Slot
<1>2. /\ carry \in [Fibers -> Seq(Load)]
      /\ \A f \in Fibers : carry[f] = <<>> /\ stack[f] = <<>> /\ DOMAIN stack[f] = {}
  BY DEF ThrownInit, Init
<1>3. CarryInv
  BY <1>2 DEF CarryInv
<1>4. SlotsInv /\ OwedInv /\ NothingKeptWhenIdle
  BY <1>1 DEF SlotsInv, OwedInv, NothingKeptWhenIdle
<1> QED BY <1>3, <1>4 DEF ThrownInv

(* What an exception Ruby code has stands for is what the slot of its      *)
(* serial keeps, the slots have what is owed and frames carry what they    *)
(* can.                                                                    *)
THEOREM ThrownInvariant == ThrownSpec => [](NestedOnOne /\ ThrownInv)
<1> QED BY NestsOnOne, ThrownInductive, ThrownInvInit, PTL DEF ThrownSpec

(* Cleared: an isolate no operation is in flight on keeps no value.        *)
THEOREM IdleKeepsNoValue == ThrownSpec => []NothingKeptWhenIdle
<1>1. ThrownInv => NothingKeptWhenIdle
  BY DEF ThrownInv
<1> QED BY <1>1, ThrownInvariant, PTL

(* The types of the slots and of what each kind of frame carries.          *)
THEOREM ThrownTypes == ThrownSpec => []ThrownTypeOK
<1>1. ThrownInv => ThrownTypeOK
  <2> SUFFICES ASSUME ThrownInv PROVE ThrownTypeOK
    OBVIOUS
  <2>1. /\ thrown \in [Isolates -> {None} \cup [serial : Nat \ {0}, value : Thrownable]]
        /\ serials \in Nat /\ saved \subseteq Error /\ owed \in [Isolates -> 0 .. serials]
    BY DEF ThrownInv, SlotsInv, Slot
  <2>2. \A f \in Fibers :
          /\ Len(carry[f]) = Len(stack[f])
          /\ \A k \in DOMAIN stack[f] :
               IF stack[f][k].kind = "op" THEN carry[f][k] \in Thrownable \cup {NoValue}
                                          ELSE carry[f][k] \in Seq(Error)
    BY DEF ThrownInv, CarryInv, Fits
  <2> QED BY <2>1, <2>2 DEF ThrownTypeOK
<1> QED BY <1>1, ThrownInvariant, PTL

-----------------------------------------------------------------------------
(* The exception that leaves a host function goes on in JavaScript as what *)
(* take_thrown makes of it.                                                *)
LEMMA FailureThrows ==
  ASSUME IndInv, ThrownInv, ~aborted', [ThrownNext]_<<vars, thrownVars>>, FailsToJs
  PROVE  ThrownOn = Rethrown(Top(running).iso)
<1>1. InCallback /\ Carried # <<>> /\ Len(stack'[running]) < Len(stack[running])
  BY DEF FailsToJs
<1>2. PICK N \in Nat \ {0} : /\ Len(stack[running]) = N + 1 /\ Top(running).iso \in Isolates
                             /\ stack[running][N].kind = "op"
  BY <1>1, CallbackCarries DEF ThrownInv
<1>3. PICK L \in Nat : L = Len(stack[running]) /\ ~(L < L) /\ ~(L + 1 < L)
  <2>1. N + 1 \in Nat
    OBVIOUS
  <2> QED BY <1>2, <2>1
<1>4. ~(UNCHANGED stack)
  BY <1>1, <1>3
<1>5. ASSUME NEW i \in Isolates, StartThrowing(i) PROVE FALSE
  <2>1. PICK fr : stack' = [stack EXCEPT ![running] = Append(@, fr)]
    BY <1>5 DEF StartThrowing, Start
  <2>2. stack[running] \in Seq(Frame) /\ stack \in [Fibers -> Seq(Frame)] /\ running \in Fibers
    BY DEF IndInv, NestTypeOK
  <2>3. Len(stack'[running]) = Len(stack[running]) + 1
    BY <2>1, <2>2
  <2> QED BY <1>1, <1>3, <2>3
<1>6. ASSUME NEW outcome, Finish(outcome) PROVE FALSE
  BY <1>1, <1>6 DEF Finish, ScriptRuns, InCallback, RubyRuns
<1>7. ~CallFromJs
  BY <1>1 DEF CallFromJs, CallRuby, ScriptRuns, InCallback, RubyRuns
<1>8. ~FinishValue /\ ~FinishThrown /\ \A outcome \in Outcomes : ~FinishWithoutValue(outcome)
  BY <1>6 DEF FinishValue, FinishThrown, FinishWithoutValue
<1>9. ~Catch /\ ~Rescue /\ ~RaiseOwn /\ (\A v \in Values : ~Throw(v)) /\ \A e \in saved : ~Raise(e)
  BY <1>4 DEF Catch, Rescue, RaiseOwn, Raise, Throw, vars
<1>10. ~NewIsolate /\ ~(UNCHANGED <<vars, thrownVars>>)
  BY <1>4 DEF NewIsolate, New, vars
<1>11. ReturnToJs
  BY <1>5, <1>7, <1>8, <1>9, <1>10 DEF ThrownNext
<1>12. PICK i, v : i = Top(running).iso /\ v = Rethrown(i)
  OBVIOUS
<1>13. carry' = [carry EXCEPT ![running] = [Below EXCEPT ![Len(Below)] = v]]
  BY <1>1, <1>11, <1>12 DEF ReturnToJs, ReturnValue, ReturnError, ThrowInto, Rethrown
<1>14. /\ carry[running] \in Seq(Load) /\ carry \in [Fibers -> Seq(Load)] /\ running \in Fibers
       /\ Len(carry[running]) = N + 1
  BY <1>2, Stacks DEF ThrownInv, CarryInv
<1>15. v \in Load
  <2>1. CASE Take(i, LastError)
    <3>1. thrown[i] # None /\ thrown[i] \in Slot
      BY <1>2, <1>12, <2>1 DEF Take, None, ThrownInv, SlotsInv
    <3> QED BY <1>12, <2>1, <3>1 DEF Slot, Rethrown, Load
  <2> QED BY <1>12, <2>1 DEF Rethrown, Thrownable, Load
<1>16. UpTo(carry'[running], carry[running], N, v, Load)
  BY <1>13, <1>14, <1>15, CutAndSet DEF Below
<1> QED BY <1>12, <1>16 DEF UpTo, ThrownOn

(* keep_thrown, take_thrown: what a host function throws on is the value   *)
(* its exception stands for, of its own isolate, or a new Error.           *)
THEOREM ThrowsOwnOn == ThrownSpec => RethrowsOwn
<1> DEFINE Own == FailsToJs => \/ ThrownOn = NewError
                               \/ ThrownOn = LastError.value /\ LastError.iso = Top(running).iso
<1>1. /\ NestedOnOne /\ NestedOnOne' /\ ThrownInv
      /\ [ThrownNext]_<<vars, thrownVars>>
      => [Own]_<<vars, thrownVars>>
  <2> SUFFICES ASSUME NestedOnOne, NestedOnOne', ThrownInv, FailsToJs,
                      [ThrownNext]_<<vars, thrownVars>>
               PROVE  \/ ThrownOn = NewError
                      \/ ThrownOn = LastError.value /\ LastError.iso = Top(running).iso
    OBVIOUS
  <2>1. ThrownOn = Rethrown(Top(running).iso) /\ IndInv
    BY FailureThrows DEF NestedOnOne
  <2>2. CASE Take(Top(running).iso, LastError)
    <3>1. /\ Top(running).iso \in Isolates /\ Carried \in Seq(Error)
          /\ \A j \in DOMAIN Carried : Known(Carried[j], thrown, serials)
      BY <2>1, CallbackCarries DEF ThrownInv, FailsToJs
    <3>2. Known(LastError, thrown, serials)
      BY <3>1, LastErrorIs DEF FailsToJs
    <3> QED BY <2>1, <2>2, <3>1, <3>2 DEF Take, Known, Rethrown
  <2> QED BY <2>1, <2>2 DEF Rethrown
<1> QED BY <1>1, ThrownInvariant, PTL DEF ThrownSpec, RethrowsOwn

(* The value thrown last out of an isolate's operations is thrown on       *)
(* itself, the first time.                                                 *)
THEOREM LatestGoesOn == ThrownSpec => LatestThrownOn
<1> DEFINE Latest == LET i == Top(running).iso
                     IN /\ FailsToJs
                        /\ LastError.iso = i
                        /\ LastError.serial = owed[i] /\ owed[i] # 0
                        => ThrownOn = LastError.value
<1>1. /\ NestedOnOne /\ NestedOnOne' /\ ThrownInv
      /\ [ThrownNext]_<<vars, thrownVars>>
      => [Latest]_<<vars, thrownVars>>
  <2> SUFFICES ASSUME NestedOnOne, NestedOnOne', ThrownInv, FailsToJs,
                      [ThrownNext]_<<vars, thrownVars>>,
                      LastError.serial = owed[Top(running).iso], owed[Top(running).iso] # 0
               PROVE  ThrownOn = LastError.value
    OBVIOUS
  <2>1. ThrownOn = Rethrown(Top(running).iso) /\ IndInv
    BY FailureThrows DEF NestedOnOne
  <2>2. /\ Top(running).iso \in Isolates /\ Carried \in Seq(Error) /\ depth[Top(running).iso] # 0
        /\ \A j \in DOMAIN Carried : Known(Carried[j], thrown, serials)
    BY <2>1, CallbackCarries DEF ThrownInv, FailsToJs
  <2>3. Known(LastError, thrown, serials)
    BY <2>2, LastErrorIs DEF FailsToJs
  <2>4. thrown[Top(running).iso].serial = owed[Top(running).iso]
    BY <2>2 DEF ThrownInv, OwedInv
  <2> QED BY <2>1, <2>2, <2>3, <2>4 DEF Take, Known, Rethrown
<1> QED BY <1>1, ThrownInvariant, PTL DEF ThrownSpec, LatestThrownOn
=============================================================================
