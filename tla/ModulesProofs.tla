---------------------------- MODULE ModulesProofs ---------------------------
(***************************************************************************)
(* Modules for every set of realms and every bound: one link at most, no   *)
(* import() forgotten, imports within a context, and blocks and errors     *)
(* that stay with their own instantiate.                                   *)
(***************************************************************************)
EXTENDS Modules, FiniteSetTheorems, TLAPS

Importing == {"importer", "link", "body"}

(* What holds of a frame: ms are the modules, np the promises, nr the      *)
(* calls of instantiate_module and ep the epochs.  The modules of an       *)
(* instantiate request are of the context its realm has.                   *)
FrameOK(f, ms, np, nr, ep) ==
  /\ f \in FrameRecord
  /\ IF f.kind \in Importing THEN f.promise \in 1 .. np ELSE f.promise = None
  /\ f.kind \in Links \cup {"resolver", "body", "evaluate"} => f.module \in DOMAIN ms
  /\ f.call \in 0 .. nr /\ f.saved \in (0 .. nr) \X (0 .. nr)
  /\ f.kind \in Links => f.at \in DOMAIN ms \cup {None, Failed}
  /\ f.kind = "link" => f.call = None
  /\ f.kind = "instantiate" =>
       /\ f.call # None
       /\ f.realm = ms[f.module].realm /\ f.epoch = ms[f.module].epoch
       /\ f.epoch = ep[f.realm]
       /\ f.at \in DOMAIN ms => ms[f.at].realm = f.realm /\ ms[f.at].epoch = f.epoch

(* A resolver works for the link below it.                                 *)
Follows(f, g) ==
  g.kind = "resolver" =>
    /\ f.kind \in Links
    /\ f.kind = "instantiate" => g.realm = f.realm /\ g.module = f.at

StackInv ==
  /\ stack \in Seq(FrameRecord)
  /\ \A k \in DOMAIN stack : FrameOK(stack[k], mods, Len(promises), Len(reports), epoch)
  /\ \A k \in DOMAIN stack : IF k = 1 THEN stack[k].kind \in Request
                                      ELSE Follows(stack[k - 1], stack[k])

(* A module that is registered is of the context its realm has.            *)
ModsInv ==
  /\ mods \in Seq(ModuleRecord) /\ epoch \in [Realms -> Nat]
  /\ \A m \in DOMAIN mods : mods[m].registered => mods[m].epoch = epoch[mods[m].realm]

(* OneLink without the cardinality.                                        *)
LinkInv ==
  /\ instantiating \in BOOLEAN
  /\ \A j, k \in LinksOnStack : j = k
  /\ instantiating <=> LinksOnStack # {}

PromisesInv ==
  promises \in Seq({"pending", "rejected", "chained", "cut"}) /\ NoLostImport

CallsInv ==
  /\ reports \in Seq(Nat \cup {Interrupted}) /\ raised \subseteq 1 .. Len(reports)
  /\ parked \in 0 .. Len(reports) /\ parkedErr \in 0 .. Len(reports)
  /\ terminated \in BOOLEAN /\ (terminated => stack # <<>>)

IndInv == StackInv /\ ModsInv /\ LinkInv /\ PromisesInv /\ CallsInv

(* Without interrupts what is parked is the block of the instantiate on    *)
(* the stack, with its error, or nothing.                                  *)
ParkedInv ==
  /\ \A k \in DOMAIN stack : stack[k].kind = "instantiate" =>
       /\ stack[k].call = parked /\ stack[k].saved = <<None, None>>
       /\ parkedErr = IF parked \in raised THEN parked ELSE None
  /\ (\A k \in DOMAIN stack : stack[k].kind # "instantiate") => parked = None /\ parkedErr = None

OwnInv == ParkedInv /\ LinksAreOwn

-----------------------------------------------------------------------------
(* What a step may do to the stack: it is cut to N frames, of which the    *)
(* last is f.                                                              *)
Becomes(N, f) ==
  /\ stack' \in Seq(FrameRecord) /\ Len(stack') = N
  /\ \A k \in 1 .. N - 1 : stack'[k] = stack[k]
  /\ N # 0 => stack'[N] = f

(* The stack as a sequence.                                                *)
LEMMA StackIsSequence ==
  ASSUME StackInv
  PROVE  /\ stack \in Seq(FrameRecord) /\ Len(stack) \in Nat /\ DOMAIN stack = 1 .. Len(stack)
         /\ stack # <<>> => Len(stack) \in Nat \ {0} /\ Len(stack) \in DOMAIN stack
         /\ stack = <<>> => Len(stack) = 0
         /\ \A k \in DOMAIN stack : stack[k] \in FrameRecord
BY DEF StackInv

(* A frame is pushed.                                                      *)
LEMMA Pushed ==
  ASSUME StackInv, NEW f \in FrameRecord, stack' = Append(stack, f)
  PROVE  Becomes(Len(stack) + 1, f)
<1>1. stack \in Seq(FrameRecord) /\ Len(stack) \in Nat
  BY StackIsSequence
<1> QED BY <1>1 DEF Becomes

(* The last frame is popped.                                               *)
LEMMA Popped ==
  ASSUME StackInv, stack # <<>>, stack' = Pop
  PROVE  Becomes(Len(stack) - 1, stack[Len(stack) - 1])
<1>1. stack \in Seq(FrameRecord) /\ Len(stack) \in Nat \ {0}
  BY StackIsSequence
<1> DEFINE m == Len(stack) - 1
<1>2. m \in Nat /\ m <= Len(stack)
  BY <1>1
<1>3. stack' = [k \in 1 .. m |-> stack[k]]
  BY <1>1, <1>2 DEF Pop
<1>4. stack' \in Seq(FrameRecord) /\ Len(stack') = m
  BY <1>1, <1>2, <1>3
<1> QED BY <1>1, <1>2, <1>3, <1>4 DEF Becomes

(* The last frame is replaced.                                             *)
LEMMA Replaced ==
  ASSUME StackInv, stack # <<>>, NEW f \in FrameRecord, stack' = Replace(f)
  PROVE  Becomes(Len(stack), f)
<1>1. stack \in Seq(FrameRecord) /\ Len(stack) \in Nat \ {0}
  BY StackIsSequence
<1> DEFINE m == Len(stack) - 1
           p == [k \in 1 .. m |-> stack[k]]
<1>2. m \in Nat /\ m <= Len(stack) /\ Len(stack) = m + 1
  BY <1>1
<1>3. Pop = p
  BY <1>1, <1>2 DEF Pop
<1>4. p \in Seq(FrameRecord) /\ Len(p) = m /\ \A k \in 1 .. m : p[k] = stack[k]
  BY <1>1, <1>2
<1>5. stack' = Append(p, f)
  BY <1>3 DEF Replace
<1> HIDE DEF p
<1>6. stack' \in Seq(FrameRecord) /\ Len(stack') = m + 1 /\ stack'[m + 1] = f
      /\ \A k \in 1 .. m : stack'[k] = p[k]
  <2> HIDE DEF m
  <2> QED BY <1>2, <1>4, <1>5
<1>7. \A k \in 1 .. Len(stack) - 1 : stack'[k] = stack[k]
  BY <1>2, <1>4, <1>6
<1> QED BY <1>2, <1>6, <1>7 DEF Becomes

(* The link below a resolver is told the answer.                           *)
LEMMA GoneOn ==
  ASSUME StackInv, Len(stack) > 1, NEW n \in Nat \cup {Failed}, stack' = LinkGoesOn(n)
  PROVE  /\ Becomes(Len(stack) - 1, [stack[Len(stack) - 1] EXCEPT !.at = n])
         /\ [stack[Len(stack) - 1] EXCEPT !.at = n] \in FrameRecord
<1>1. stack \in Seq(FrameRecord) /\ Len(stack) \in Nat
  BY StackIsSequence
<1> DEFINE m == Len(stack) - 1
           p == [k \in 1 .. m |-> stack[k]]
           f == [stack[m] EXCEPT !.at = n]
<1>2. m \in Nat \ {0} /\ m <= Len(stack) /\ m \in Nat
  <2>1. Len(stack) > 1
    OBVIOUS
  <2>2. PICK L \in Nat : L = Len(stack)
    BY <1>1
  <2>3. L - 1 \in Nat \ {0} /\ L - 1 <= L
    BY <2>1, <2>2
  <2> QED BY <2>2, <2>3
<1>3. Pop = p
  BY <1>1, <1>2 DEF Pop
<1>4. p \in Seq(FrameRecord) /\ Len(p) = m /\ DOMAIN p = 1 .. m /\ \A k \in 1 .. m : p[k] = stack[k]
  BY <1>1, <1>2
<1>5. m \in 1 .. m /\ stack[m] \in FrameRecord
  BY <1>1, <1>2
<1>6. f \in FrameRecord
  BY <1>5 DEF FrameRecord
<1>7. stack' = [p EXCEPT ![m] = [p[m] EXCEPT !.at = n]]
  BY <1>3 DEF LinkGoesOn
<1>8. stack' = [p EXCEPT ![m] = f]
  BY <1>4, <1>5, <1>7
<1> HIDE DEF p, f, m
<1>9. /\ stack' \in Seq(FrameRecord) /\ Len(stack') = m /\ stack'[m] = f
      /\ \A k \in 1 .. m : k # m => stack'[k] = p[k]
  BY <1>2, <1>4, <1>5, <1>6, <1>8
<1>10. \A k \in 1 .. m - 1 : stack'[k] = stack[k]
  <2>1. \A k \in 1 .. m - 1 : k \in 1 .. m /\ k # m
    BY <1>2
  <2> QED BY <1>4, <1>9, <2>1
<1>11. Becomes(m, f)
  BY <1>9, <1>10 DEF Becomes
<1> QED BY <1>6, <1>11 DEF m, f

-----------------------------------------------------------------------------
(* The modules are still there, in the contexts they were compiled in.     *)
SameGraph(ms, new) ==
  \A m \in DOMAIN ms : /\ m \in DOMAIN new
                       /\ new[m].realm = ms[m].realm /\ new[m].epoch = ms[m].epoch

(* What holds of a frame goes on to hold as the rest grows.                *)
LEMMA FrameStays ==
  ASSUME NEW f, NEW ms, NEW np \in Nat, NEW nr \in Nat, NEW ep,
         NEW ms2, NEW np2 \in Nat, NEW nr2 \in Nat, NEW ep2,
         FrameOK(f, ms, np, nr, ep), SameGraph(ms, ms2), np <= np2, nr <= nr2,
         {None, Failed} \cap DOMAIN ms2 = {},
         f.kind = "instantiate" => ep2[f.realm] = ep[f.realm]
  PROVE  FrameOK(f, ms2, np2, nr2, ep2)
<1>1. f \in FrameRecord
  BY DEF FrameOK
<1>2. IF f.kind \in Importing THEN f.promise \in 1 .. np2 ELSE f.promise = None
  BY DEF FrameOK
<1>3. f.kind \in Links \cup {"resolver", "body", "evaluate"} => f.module \in DOMAIN ms2
  BY DEF FrameOK, SameGraph
<1>4. f.call \in 0 .. nr2 /\ f.saved \in (0 .. nr2) \X (0 .. nr2)
  BY DEF FrameOK
<1>5. f.kind \in Links => f.at \in DOMAIN ms2 \cup {None, Failed}
  BY DEF FrameOK, SameGraph
<1>6. f.kind = "link" => f.call = None
  BY DEF FrameOK
<1>7. ASSUME f.kind = "instantiate"
      PROVE  /\ f.call # None
             /\ f.realm = ms2[f.module].realm /\ f.epoch = ms2[f.module].epoch
             /\ f.epoch = ep2[f.realm]
             /\ f.at \in DOMAIN ms2 => ms2[f.at].realm = f.realm /\ ms2[f.at].epoch = f.epoch
  <2>1. f.module \in DOMAIN ms /\ f.at \in DOMAIN ms \cup {None, Failed}
    BY <1>7 DEF FrameOK, Links
  <2>2. /\ f.call # None /\ f.realm = ms[f.module].realm /\ f.epoch = ms[f.module].epoch
        /\ f.epoch = ep[f.realm]
        /\ f.at \in DOMAIN ms => ms[f.at].realm = f.realm /\ ms[f.at].epoch = f.epoch
    BY <1>7 DEF FrameOK
  <2> QED BY <1>7, <2>1, <2>2 DEF SameGraph
<1> QED BY <1>1, <1>2, <1>3, <1>4, <1>5, <1>6, <1>7 DEF FrameOK

(* The modules, the promises and the calls are still there, and no realm   *)
(* an instantiate request runs in is reset.                                *)
Grows ==
  /\ SameGraph(mods, mods') /\ mods' \in Seq(ModuleRecord)
  /\ Len(promises') \in Nat /\ Len(promises) <= Len(promises')
  /\ Len(reports') \in Nat /\ Len(reports) <= Len(reports')
  /\ \A k \in DOMAIN stack :
       stack[k].kind = "instantiate" => epoch'[stack[k].realm] = epoch[stack[k].realm]

\* The frame after the step.
FrameNow(f) == FrameOK(f, mods', Len(promises'), Len(reports'), epoch')

(* The frames a step leaves alone are as they have to be.                  *)
LEMMA FramesStay ==
  ASSUME IndInv, Grows, NEW k \in DOMAIN stack
  PROVE  FrameNow(stack[k])
<1>1. FrameOK(stack[k], mods, Len(promises), Len(reports), epoch)
  BY DEF IndInv, StackInv
<1>2. Len(promises) \in Nat /\ Len(reports) \in Nat
  BY DEF IndInv, PromisesInv, CallsInv
<1>3. {None, Failed} \cap DOMAIN mods' = {}
  <2>1. DOMAIN mods' = 1 .. Len(mods')
    BY DEF Grows
  <2> QED BY <2>1 DEF None, Failed
<1>4. /\ SameGraph(mods, mods')
      /\ Len(promises') \in Nat /\ Len(promises) <= Len(promises')
      /\ Len(reports') \in Nat /\ Len(reports) <= Len(reports')
      /\ stack[k].kind = "instantiate" => epoch'[stack[k].realm] = epoch[stack[k].realm]
  BY DEF Grows
<1> QED BY <1>1, <1>2, <1>3, <1>4, FrameStays DEF FrameNow

(* A step that cuts the stack to N frames.                                 *)
LEMMA StackKeeps ==
  ASSUME IndInv, Grows, NEW N \in Nat, N <= Len(stack) + 1, NEW f, Becomes(N, f),
         N # 0 => FrameNow(f),
         N = 1 => f.kind \in Request,
         N > 1 => Follows(stack[N - 1], f)
  PROVE  StackInv'
<1>1. /\ stack \in Seq(FrameRecord) /\ Len(stack) \in Nat /\ DOMAIN stack = 1 .. Len(stack)
      /\ stack' \in Seq(FrameRecord) /\ DOMAIN stack' = 1 .. N
      /\ \A k \in 1 .. N - 1 : stack'[k] = stack[k]
      /\ N # 0 => stack'[N] = f
  BY StackIsSequence DEF IndInv, Becomes
<1>2. \A k \in 1 .. N : k = N \/ k \in 1 .. N - 1
  OBVIOUS
<1>3. \A k \in 1 .. N - 1 : k \in DOMAIN stack
  BY <1>1
<1>4. ASSUME NEW k \in 1 .. N PROVE FrameNow(stack'[k])
  <2>1. CASE k = N
    BY <1>1, <2>1
  <2>2. CASE k \in 1 .. N - 1
    <3>1. FrameNow(stack[k])
      BY <1>3, <2>2, FramesStay
    <3>2. stack'[k] = stack[k]
      BY <1>1, <2>2
    <3> QED BY <3>1, <3>2
  <2> QED BY <1>2, <2>1, <2>2
<1>5. ASSUME NEW k \in 1 .. N
      PROVE  IF k = 1 THEN stack'[k].kind \in Request ELSE Follows(stack'[k - 1], stack'[k])
  <2>1. CASE k = N
    <3>1. k # 1 => k - 1 \in 1 .. N - 1 /\ N > 1
      BY <2>1
    <3> QED BY <1>1, <2>1, <3>1
  <2>2. CASE k \in 1 .. N - 1
    <3>1. k # 1 => k - 1 \in 1 .. N - 1
      BY <2>2
    <3>2. k \in DOMAIN stack /\ stack'[k] = stack[k] /\ (k # 1 => stack'[k - 1] = stack[k - 1])
      BY <1>1, <1>3, <2>2, <3>1
    <3>3. IF k = 1 THEN stack[k].kind \in Request ELSE Follows(stack[k - 1], stack[k])
      BY <3>2 DEF IndInv, StackInv
    <3> QED BY <3>2, <3>3
  <2> QED BY <1>2, <2>1, <2>2
<1>6. \A k \in DOMAIN stack' : FrameOK(stack'[k], mods', Len(promises'), Len(reports'), epoch')
  BY <1>1, <1>4 DEF FrameNow
<1> QED BY <1>1, <1>5, <1>6 DEF StackInv

(* A step that leaves the stack alone.                                     *)
LEMMA StackStays ==
  ASSUME IndInv, Grows, UNCHANGED stack
  PROVE  StackInv' /\ LinksOnStack' = LinksOnStack
<1>1. \A k \in DOMAIN stack' : FrameOK(stack'[k], mods', Len(promises'), Len(reports'), epoch')
  BY FramesStay DEF FrameNow
<1> QED BY <1>1 DEF IndInv, StackInv, LinksOnStack

(* The links on the stack after a step that cuts it to N frames.           *)
LEMMA LinksNow ==
  ASSUME StackInv, NEW N \in Nat, N <= Len(stack) + 1, NEW f, Becomes(N, f)
  PROVE  LinksOnStack' = {k \in LinksOnStack : k < N} \cup
                         (IF N # 0 /\ f.kind \in Links THEN {N} ELSE {})
<1>1. /\ DOMAIN stack = 1 .. Len(stack) /\ Len(stack) \in Nat
      /\ DOMAIN stack' = 1 .. N
      /\ \A k \in 1 .. N - 1 : stack'[k] = stack[k]
      /\ N # 0 => stack'[N] = f
  BY StackIsSequence DEF Becomes
<1>2. \A k \in 1 .. N : k = N \/ (k \in 1 .. N - 1 /\ k < N /\ k \in DOMAIN stack)
  BY <1>1
<1>3. \A k \in DOMAIN stack : k < N => k \in 1 .. N - 1 /\ k \in 1 .. N
  BY <1>1
<1>4. N # 0 => N \in 1 .. N
  OBVIOUS
<1>5. LinksOnStack = {k \in DOMAIN stack : stack[k].kind \in Links}
  BY DEF LinksOnStack
<1>6. LinksOnStack' = {k \in 1 .. N : stack'[k].kind \in Links}
  BY <1>1 DEF LinksOnStack
<1>7. ASSUME NEW k PROVE k \in LinksOnStack' <=>
        k \in {j \in LinksOnStack : j < N} \cup (IF N # 0 /\ f.kind \in Links THEN {N} ELSE {})
  <2>1. CASE k \in 1 .. N
    <3>1. CASE k = N
      <4>1. ~(k < N) /\ N # 0
        BY <2>1, <3>1
      <4> QED BY <1>1, <1>6, <2>1, <3>1, <4>1
    <3>2. CASE k # N
      <4>1. k \in 1 .. N - 1 /\ k < N /\ k \in DOMAIN stack /\ stack'[k] = stack[k]
        BY <1>1, <1>2, <2>1, <3>2
      <4> QED BY <1>5, <1>6, <2>1, <3>2, <4>1
    <3> QED BY <3>1, <3>2
  <2>2. CASE k \notin 1 .. N
    BY <1>3, <1>4, <1>5, <1>6, <2>2
  <2> QED BY <2>1, <2>2
<1> QED BY <1>7

-----------------------------------------------------------------------------
(* A step that neither begins nor ends a link.                             *)
LEMMA LinkKeeps ==
  ASSUME IndInv, UNCHANGED instantiating, LinksOnStack' = LinksOnStack
  PROVE  LinkInv'
BY DEF IndInv, LinkInv

(* A link begins where there is none.                                      *)
LEMMA LinkBegins ==
  ASSUME IndInv, ~instantiating, instantiating' = TRUE, NEW N \in Nat \ {0}, N <= Len(stack) + 1,
         NEW f, Becomes(N, f), f.kind \in Links
  PROVE  LinkInv'
<1>1. LinksOnStack = {}
  BY DEF IndInv, LinkInv
<1>2. LinksOnStack' = {N}
  <2>1. LinksOnStack' = {k \in LinksOnStack : k < N} \cup
                        (IF N # 0 /\ f.kind \in Links THEN {N} ELSE {})
    BY LinksNow DEF IndInv
  <2> QED BY <1>1, <2>1
<1> QED BY <1>2 DEF LinkInv

(* The link on top ends.                                                   *)
LEMMA LinkEnded ==
  ASSUME IndInv, stack # <<>>, Top.kind \in Links, instantiating' = FALSE,
         NEW N \in Nat, N <= Len(stack), NEW f, Becomes(N, f),
         N = Len(stack) => f.kind \notin Links, N # Len(stack) => f = stack[N]
  PROVE  LinkInv' /\ \A k \in DOMAIN stack : stack[k].kind \in Links => k = Len(stack)
<1>1. Len(stack) \in Nat /\ DOMAIN stack = 1 .. Len(stack) /\ Len(stack) \in DOMAIN stack
  BY StackIsSequence DEF IndInv
<1>2. Len(stack) \in LinksOnStack
  BY <1>1 DEF LinksOnStack, Top
<1>3. \A k \in DOMAIN stack : stack[k].kind \in Links => k = Len(stack)
  BY <1>2 DEF IndInv, LinkInv, LinksOnStack
<1>4. LinksOnStack' = {k \in LinksOnStack : k < N} \cup
                      (IF N # 0 /\ f.kind \in Links THEN {N} ELSE {})
  <2>1. PICK L \in Nat : L = Len(stack)
    BY <1>1
  <2>2. N <= L + 1
    BY <2>1
  <2>3. N <= Len(stack) + 1 /\ StackInv
    BY <2>1, <2>2 DEF IndInv
  <2> QED BY <2>3, LinksNow
<1>5. {k \in LinksOnStack : k < N} = {}
  <2>1. \A k \in LinksOnStack : k = Len(stack)
    BY <1>3 DEF LinksOnStack
  <2>2. PICK L \in Nat : L = Len(stack)
    BY <1>1
  <2>3. ~(L < N)
    BY <2>2
  <2> QED BY <2>1, <2>2, <2>3
<1>6. ~(N # 0 /\ f.kind \in Links)
  <2>1. CASE N = Len(stack)
    BY <2>1
  <2>2. CASE N # Len(stack)
    <3>1. N # 0 => N \in DOMAIN stack
      BY <1>1
    <3> QED BY <1>3, <2>2, <3>1
  <2> QED BY <2>1, <2>2
<1>7. LinksOnStack' = {}
  BY <1>4, <1>5, <1>6
<1> QED BY <1>3, <1>7 DEF LinkInv

(* The step neither settles nor forgets another's promise.                 *)
LEMMA PromisesKeep ==
  ASSUME IndInv, NEW N \in Nat, N <= Len(stack) + 1, Len(stack) <= N + 1, NEW f, Becomes(N, f),
         promises' \in Seq({"pending", "rejected", "chained", "cut"}),
         N # 0 /\ N < Len(stack) => f.promise = stack[N].promise,
         \A p \in DOMAIN promises' : promises'[p] = "pending" =>
            \/ N # 0 /\ f.promise = p
            \/ p \in DOMAIN promises /\ promises[p] = "pending"
               /\ (N <= Len(stack) /\ stack # <<>> => Top.promise # p)
  PROVE  PromisesInv'
<1>1. /\ Len(stack) \in Nat /\ DOMAIN stack = 1 .. Len(stack)
      /\ DOMAIN stack' = 1 .. N
      /\ \A k \in 1 .. N - 1 : stack'[k] = stack[k]
      /\ N # 0 => stack'[N] = f
  BY StackIsSequence DEF IndInv, Becomes
<1> SUFFICES ASSUME NEW p \in DOMAIN promises', promises'[p] = "pending"
             PROVE  \E k \in DOMAIN stack' : stack'[k].promise = p
  BY DEF PromisesInv, NoLostImport
<1>2. CASE N # 0 /\ f.promise = p
  <2>1. N \in 1 .. N
    BY <1>2
  <2> QED BY <1>1, <1>2, <2>1
<1>3. CASE ~(N # 0 /\ f.promise = p)
  <2>1. /\ p \in DOMAIN promises /\ promises[p] = "pending"
        /\ N <= Len(stack) /\ stack # <<>> => Top.promise # p
    BY <1>3
  <2>2. PICK k \in DOMAIN stack : stack[k].promise = p
    BY <2>1 DEF IndInv, PromisesInv, NoLostImport
  <2>3. N <= Len(stack) => k # Len(stack)
    <3>1. stack # <<>>
      BY <1>1
    <3> QED BY <2>1, <2>2, <3>1 DEF Top
  <2>4. k <= N
    BY <1>1, <2>3
  <2>5. CASE k < N
    <3>1. k \in 1 .. N - 1 /\ k \in 1 .. N
      BY <1>1, <2>5
    <3> QED BY <1>1, <2>2, <3>1
  <2>6. CASE k = N
    <3>0. PICK L \in Nat : L = Len(stack) /\ k \in 1 .. L
      BY <1>1
    <3>1. N \in 1 .. L /\ N # L
      BY <2>3, <2>6, <3>0
    <3>2. N # 0 /\ N < Len(stack)
      BY <3>0, <3>1
    <3> QED BY <1>3, <2>2, <2>6, <3>2
  <2> QED BY <1>1, <2>4, <2>5, <2>6
<1> QED BY <1>2, <1>3

-----------------------------------------------------------------------------
(* The frame on top.                                                       *)
LEMMA TopHolds ==
  ASSUME IndInv, stack # <<>>
  PROVE  /\ Top \in FrameRecord /\ Len(stack) \in DOMAIN stack /\ Top = stack[Len(stack)]
         /\ FrameOK(Top, mods, Len(promises), Len(reports), epoch)
         /\ Top.kind \notin Request =>
              /\ Len(stack) > 1 /\ Len(stack) - 1 \in DOMAIN stack
              /\ Follows(stack[Len(stack) - 1], Top)
<1>1. Len(stack) \in DOMAIN stack /\ Top = stack[Len(stack)]
  BY StackIsSequence DEF IndInv, Top
<1>2. FrameOK(Top, mods, Len(promises), Len(reports), epoch)
  BY <1>1 DEF IndInv, StackInv
<1>3. ASSUME Top.kind \notin Request
      PROVE  /\ Len(stack) > 1 /\ Len(stack) - 1 \in DOMAIN stack
             /\ Follows(stack[Len(stack) - 1], Top)
  <2>1. IF Len(stack) = 1 THEN Top.kind \in Request ELSE Follows(stack[Len(stack) - 1], Top)
    BY <1>1 DEF IndInv, StackInv
  <2>2. Len(stack) # 1
    BY <1>3, <2>1
  <2>3. PICK L \in Nat \ {0} : L = Len(stack) /\ DOMAIN stack = 1 .. L
    BY StackIsSequence DEF IndInv
  <2>4. L > 1 /\ L - 1 \in 1 .. L
    BY <2>2, <2>3
  <2> QED BY <2>1, <2>2, <2>3, <2>4
<1> QED BY <1>1, <1>2, <1>3 DEF FrameOK

(* A push.                                                                 *)
LEMMA PushKeeps ==
  ASSUME IndInv, Grows, NEW f \in FrameRecord, stack' = Append(stack, f), FrameNow(f),
         stack = <<>> => f.kind \in Request,
         f.kind = "resolver" => Follows(Top, f)
  PROVE  /\ StackInv' /\ Becomes(Len(stack) + 1, f) /\ stack' # <<>>
         /\ f.kind \notin Links => LinksOnStack' = LinksOnStack
<1>1. PICK L \in Nat : L = Len(stack) /\ DOMAIN stack = 1 .. L
  BY StackIsSequence DEF IndInv
<1>2. Becomes(L + 1, f) /\ StackInv
  BY <1>1, Pushed DEF IndInv
<1>3. L + 1 = 1 => f.kind \in Request
  <2>1. L = 0 => stack = <<>>
    BY <1>1, StackIsSequence DEF IndInv
  <2> QED BY <1>1, <2>1
<1>4. L + 1 > 1 => Follows(stack[L], f)
  <2>1. Top = stack[L]
    BY <1>1 DEF Top
  <2> QED BY <2>1 DEF Follows
<1>5. StackInv'
  <2>1. L + 1 \in Nat /\ L + 1 <= Len(stack) + 1 /\ (L + 1) - 1 = L
    BY <1>1
  <2> QED BY <1>2, <1>3, <1>4, <2>1, StackKeeps
<1>6. stack' # <<>>
  <2>1. Len(stack') = L + 1
    BY <1>2 DEF Becomes
  <2> QED BY <1>1, <2>1
<1>7. ASSUME f.kind \notin Links PROVE LinksOnStack' = LinksOnStack
  <2>1. LinksOnStack' = {k \in LinksOnStack : k < L + 1} \cup
                        (IF L + 1 # 0 /\ f.kind \in Links THEN {L + 1} ELSE {})
    <3>1. L + 1 \in Nat /\ L + 1 <= Len(stack) + 1
      BY <1>1
    <3> QED BY <1>2, <3>1, LinksNow
  <2>2. \A k \in LinksOnStack : k < L + 1
    BY <1>1 DEF LinksOnStack
  <2> QED BY <1>7, <2>1, <2>2
<1> QED BY <1>1, <1>2, <1>5, <1>6, <1>7

(* A pop.                                                                  *)
LEMMA PopKeeps ==
  ASSUME IndInv, Grows, stack # <<>>, stack' = Pop
  PROVE  /\ StackInv' /\ Becomes(Len(stack) - 1, stack[Len(stack) - 1])
         /\ Top.kind \notin Request => stack' # <<>>
         /\ Top.kind \notin Links => LinksOnStack' = LinksOnStack
<1>1. PICK L \in Nat : L + 1 = Len(stack) /\ DOMAIN stack = 1 .. L + 1
  <2>1. PICK K \in Nat \ {0} : K = Len(stack) /\ DOMAIN stack = 1 .. K
    BY StackIsSequence DEF IndInv
  <2>2. K - 1 \in Nat /\ (K - 1) + 1 = K
    BY <2>1
  <2> QED BY <2>1, <2>2
<1>2. Len(stack) - 1 = L /\ Becomes(L, stack[L]) /\ StackInv
  <2>1. Len(stack) - 1 = L
    BY <1>1
  <2> QED BY <2>1, Popped DEF IndInv
<1>3. L # 0 => FrameNow(stack[L])
  <2>1. L # 0 => L \in DOMAIN stack
    BY <1>1
  <2> QED BY <2>1, FramesStay
<1>4. /\ L = 1 => stack[L].kind \in Request
      /\ L > 1 => Follows(stack[L - 1], stack[L])
  <2>1. L # 0 => L \in DOMAIN stack
    BY <1>1
  <2>2. L # 0 => IF L = 1 THEN stack[L].kind \in Request ELSE Follows(stack[L - 1], stack[L])
    BY <2>1 DEF IndInv, StackInv
  <2> QED BY <2>2
<1>5. StackInv'
  <2>1. L <= Len(stack) + 1
    BY <1>1
  <2> QED BY <1>2, <1>3, <1>4, <2>1, StackKeeps
<1>6. ASSUME Top.kind \notin Request PROVE stack' # <<>>
  <2>1. L # 0
    BY <1>1, <1>6, TopHolds
  <2>2. Len(stack') = L
    BY <1>2 DEF Becomes
  <2> QED BY <2>1, <2>2
<1>7. ASSUME Top.kind \notin Links PROVE LinksOnStack' = LinksOnStack
  <2>1. LinksOnStack' = {k \in LinksOnStack : k < L} \cup
                        (IF L # 0 /\ stack[L].kind \in Links THEN {L} ELSE {})
    <3>1. L <= Len(stack) + 1
      BY <1>1
    <3> QED BY <1>2, <3>1, LinksNow
  <2>2. LinksOnStack = {k \in 1 .. L + 1 : stack[k].kind \in Links}
    BY <1>1 DEF LinksOnStack
  <2>3. stack[L + 1].kind \notin Links
    BY <1>1, <1>7 DEF Top
  <2>4. \A k \in 1 .. L + 1 : k = L + 1 \/ k = L \/ k < L
    OBVIOUS
  <2>5. L # 0 => L \in 1 .. L + 1
    OBVIOUS
  <2>6. \A k \in 1 .. L + 1 : k = L => L # 0 /\ ~(k < L)
    OBVIOUS
  <2> QED BY <2>1, <2>2, <2>3, <2>4, <2>5, <2>6
<1> QED BY <1>2, <1>5, <1>6, <1>7

(* A frame that a request has below it makes way for another.              *)
LEMMA ReplaceKeeps ==
  ASSUME IndInv, Grows, stack # <<>>, Top.kind \notin Request,
         NEW f \in FrameRecord, stack' = Replace(f), FrameNow(f), f.kind # "resolver"
  PROVE  /\ StackInv' /\ Becomes(Len(stack), f) /\ stack' # <<>>
         /\ Top.kind \notin Links /\ f.kind \notin Links => LinksOnStack' = LinksOnStack
<1>1. PICK L \in Nat : L > 1 /\ L = Len(stack) /\ DOMAIN stack = 1 .. L
  <2>1. PICK K \in Nat : K = Len(stack) /\ DOMAIN stack = 1 .. K
    BY StackIsSequence DEF IndInv
  <2>2. K > 1
    BY <2>1, TopHolds
  <2> QED BY <2>1, <2>2
<1>2. Becomes(L, f) /\ StackInv
  BY <1>1, Replaced DEF IndInv
<1>3. StackInv'
  <2>1. L <= Len(stack) + 1 /\ L # 1
    BY <1>1
  <2> QED BY <1>2, <2>1, StackKeeps DEF Follows
<1>4. stack' # <<>>
  <2>1. Len(stack') = L
    BY <1>2 DEF Becomes
  <2> QED BY <1>1, <2>1
<1>5. ASSUME Top.kind \notin Links, f.kind \notin Links PROVE LinksOnStack' = LinksOnStack
  <2>1. LinksOnStack' = {k \in LinksOnStack : k < L} \cup
                        (IF L # 0 /\ f.kind \in Links THEN {L} ELSE {})
    <3>1. L <= Len(stack) + 1
      BY <1>1
    <3> QED BY <1>2, <3>1, LinksNow
  <2>2. L \notin LinksOnStack
    BY <1>1, <1>5 DEF LinksOnStack, Top
  <2>3. \A k \in LinksOnStack : k \in 1 .. L
    BY <1>1 DEF LinksOnStack
  <2>4. \A k \in LinksOnStack : k < L
    BY <2>2, <2>3
  <2> QED BY <1>5, <2>1, <2>4
<1> QED BY <1>1, <1>2, <1>3, <1>4, <1>5

(* The link below a resolver goes on, or has failed.                       *)
LEMMA GoOnKeeps ==
  ASSUME IndInv, Grows, stack # <<>>, Top.kind = "resolver", NEW n \in Nat \cup {Failed},
         stack' = LinkGoesOn(n), FrameNow([Asking EXCEPT !.at = n])
  PROVE  /\ StackInv' /\ LinksOnStack' = LinksOnStack /\ stack' # <<>>
         /\ Becomes(Len(stack) - 1, [Asking EXCEPT !.at = n])
<1>1. PICK L \in Nat : L # 0 /\ L + 1 = Len(stack) /\ DOMAIN stack = 1 .. L + 1
  <2>1. PICK K \in Nat : K = Len(stack) /\ DOMAIN stack = 1 .. K
    BY StackIsSequence DEF IndInv
  <2>2. K > 1
    BY <2>1, TopHolds DEF Request
  <2>3. K - 1 \in Nat /\ (K - 1) + 1 = K /\ K - 1 # 0
    BY <2>1, <2>2
  <2> QED BY <2>1, <2>3
<1>2. PICK f : f = [Asking EXCEPT !.at = n]
  OBVIOUS
<1>3. /\ Len(stack) - 1 = L /\ L \in 1 .. L + 1 /\ Asking = stack[L] /\ Asking \in FrameRecord
      /\ Len(stack) > 1
  <2>1. Len(stack) - 1 = L /\ L \in 1 .. L + 1 /\ Len(stack) > 1
    BY <1>1
  <2>2. Asking = stack[L]
    BY <2>1 DEF Asking
  <2> QED BY <1>1, <2>1, <2>2, StackIsSequence DEF IndInv
<1>4. Becomes(L, f) /\ f \in FrameRecord /\ StackInv
  BY <1>2, <1>3, GoneOn DEF IndInv, Asking
<1>5. f.kind = Asking.kind
  BY <1>2, <1>3 DEF FrameRecord
<1>6. Follows(Asking, Top) /\ Asking.kind \in Links
  BY TopHolds DEF Request, Asking, Follows
<1>7. /\ L = 1 => f.kind \in Request
      /\ L > 1 => Follows(stack[L - 1], f)
  <2>1. IF L = 1 THEN stack[L].kind \in Request ELSE Follows(stack[L - 1], stack[L])
    BY <1>1, <1>3 DEF IndInv, StackInv
  <2>2. f.kind # "resolver"
    BY <1>5, <1>6 DEF Links
  <2> QED BY <1>3, <1>5, <2>1, <2>2 DEF Follows
<1>8. StackInv'
  <2>1. L <= Len(stack) + 1 /\ FrameNow(f)
    BY <1>1, <1>2
  <2> QED BY <1>4, <1>7, <2>1, StackKeeps
<1>9. LinksOnStack' = LinksOnStack
  <2>1. LinksOnStack' = {k \in LinksOnStack : k < L} \cup
                        (IF L # 0 /\ f.kind \in Links THEN {L} ELSE {})
    <3>1. L <= Len(stack) + 1
      BY <1>1
    <3> QED BY <1>4, <3>1, LinksNow
  <2>2. LinksOnStack = {k \in 1 .. L + 1 : stack[k].kind \in Links}
    BY <1>1 DEF LinksOnStack
  <2>3. stack[L + 1].kind \notin Links /\ stack[L].kind \in Links
    BY <1>1, <1>3, <1>6 DEF Top, Links
  <2>4. \A k \in 1 .. L + 1 : k = L + 1 \/ k = L \/ k < L
    OBVIOUS
  <2>5. \A k \in 1 .. L + 1 : k = L => L # 0 /\ ~(k < L)
    OBVIOUS
  <2> QED BY <1>1, <1>3, <1>5, <1>6, <2>1, <2>2, <2>3, <2>4, <2>5
<1>10. stack' # <<>>
  <2>1. Len(stack') = L
    BY <1>4 DEF Becomes
  <2> QED BY <1>1, <2>1
<1> QED BY <1>2, <1>3, <1>4, <1>8, <1>9, <1>10

-----------------------------------------------------------------------------
(* The modules are those there were, each of the context it was.           *)
Rewritten(ms) ==
  /\ ms \in Seq(ModuleRecord) /\ DOMAIN ms = DOMAIN mods
  /\ \A m \in DOMAIN mods : /\ ms[m].realm = mods[m].realm /\ ms[m].epoch = mods[m].epoch
                            /\ ms[m].registered => mods[m].registered

\* The statuses V8 gives a module.
Statuses == {Unlinked, Linking, Linked, Evaluating, Evaluated, Errored}

(* The modules as a sequence, and as the records they are.                 *)
LEMMA ModsAreRecords ==
  ASSUME ModsInv
  PROVE  /\ mods \in Seq(ModuleRecord) /\ Len(mods) \in Nat /\ DOMAIN mods = 1 .. Len(mods)
         /\ \A m \in DOMAIN mods : mods[m] \in ModuleRecord
BY DEF ModsInv

(* A function over the modules' numbers is a sequence.                     *)
LEMMA ModsMapped ==
  ASSUME ModsInv, NEW ms, ms = [m \in DOMAIN mods |-> ms[m]],
         \A m \in DOMAIN mods : ms[m] \in ModuleRecord
  PROVE  ms \in Seq(ModuleRecord) /\ DOMAIN ms = DOMAIN mods
<1>1. PICK L \in Nat : DOMAIN mods = 1 .. L
  BY ModsAreRecords
<1>2. ms = [m \in 1 .. L |-> ms[m]]
  BY <1>1
<1>3. ms \in [1 .. L -> ModuleRecord]
  BY <1>1, <1>2
<1> QED BY <1>1, <1>3

(* Statuses are set ...                                                    *)
LEMMA StatusRewrites ==
  ASSUME ModsInv, NEW S, NEW status \in Statuses
  PROVE  Rewritten(SetStatus(S, status))
<1> DEFINE ms == SetStatus(S, status)
<1>1. ms = [m \in DOMAIN mods |-> ms[m]]
  BY DEF SetStatus
<1>2. \A m \in DOMAIN mods : mods[m] \in ModuleRecord
  BY ModsAreRecords
<1>3. ASSUME NEW m \in DOMAIN mods
      PROVE  /\ ms[m] \in ModuleRecord
             /\ ms[m].realm = mods[m].realm /\ ms[m].epoch = mods[m].epoch
             /\ ms[m].registered = mods[m].registered
  <2>1. ms[m] = IF m \in S THEN [mods[m] EXCEPT !.status = status] ELSE mods[m]
    BY DEF SetStatus
  <2> HIDE DEF ms
  <2> QED BY <1>2, <2>1 DEF ModuleRecord, Statuses
<1> HIDE DEF ms
<1>4. ms \in Seq(ModuleRecord) /\ DOMAIN ms = DOMAIN mods
  BY <1>1, <1>3, ModsMapped
<1>5. Rewritten(ms)
  BY <1>3, <1>4 DEF Rewritten
<1> QED BY <1>5 DEF ms

(* ... a link that fails forgets its imports ...                           *)
LEMMA ResetRewrites ==
  ASSUME ModsInv
  PROVE  Rewritten(ResetGraph)
<1> DEFINE ms == ResetGraph
<1>1. ms = [m \in DOMAIN mods |-> ms[m]]
  BY DEF ResetGraph
<1>2. \A m \in DOMAIN mods : mods[m] \in ModuleRecord
  BY ModsAreRecords
<1>3. ASSUME NEW m \in DOMAIN mods
      PROVE  /\ ms[m] \in ModuleRecord
             /\ ms[m].realm = mods[m].realm /\ ms[m].epoch = mods[m].epoch
             /\ ms[m].registered = mods[m].registered
  <2>1. ms[m] = IF m \in InLink THEN [mods[m] EXCEPT !.status = Unlinked, !.dep = None] ELSE mods[m]
    BY DEF ResetGraph
  <2>2. PICK y : y = [mods[m] EXCEPT !.status = Unlinked]
    OBVIOUS
  <2>3. /\ y \in ModuleRecord
        /\ y.realm = mods[m].realm /\ y.epoch = mods[m].epoch
        /\ y.registered = mods[m].registered
    BY <1>2, <2>2 DEF ModuleRecord
  <2>4. ms[m] = IF m \in InLink THEN [y EXCEPT !.dep = 0] ELSE mods[m]
    BY <1>2, <2>1, <2>2 DEF None
  <2> HIDE DEF ms
  <2> QED BY <1>2, <2>3, <2>4 DEF ModuleRecord
<1> HIDE DEF ms
<1>4. ms \in Seq(ModuleRecord) /\ DOMAIN ms = DOMAIN mods
  BY <1>1, <1>3, ModsMapped
<1>5. Rewritten(ms)
  BY <1>3, <1>4 DEF Rewritten
<1> QED BY <1>5 DEF ms

(* ... an import is resolved ...                                           *)
LEMMA DepRewrites ==
  ASSUME ModsInv, NEW x \in DOMAIN mods, NEW a \in DOMAIN mods
  PROVE  /\ Rewritten([mods EXCEPT ![x].dep = a])
         /\ Rewritten([mods EXCEPT ![x].dep = a, ![a].status = Linking])
<1>0. /\ \A m \in DOMAIN mods : mods[m] \in ModuleRecord
      /\ a \in Nat
  BY ModsAreRecords
<1>1. Rewritten([mods EXCEPT ![x].dep = a])
  <2> DEFINE ms == [mods EXCEPT ![x].dep = a]
  <2>1. ms = [m \in DOMAIN mods |-> ms[m]]
    OBVIOUS
  <2>2. ASSUME NEW m \in DOMAIN mods
        PROVE  /\ ms[m] \in ModuleRecord
               /\ ms[m].realm = mods[m].realm /\ ms[m].epoch = mods[m].epoch
               /\ ms[m].registered = mods[m].registered
    <3>1. ms[m] = IF m = x THEN [mods[m] EXCEPT !.dep = a] ELSE mods[m]
      OBVIOUS
    <3> HIDE DEF ms
    <3> QED BY <1>0, <3>1 DEF ModuleRecord
  <2> HIDE DEF ms
  <2>3. ms \in Seq(ModuleRecord) /\ DOMAIN ms = DOMAIN mods
    BY <2>1, <2>2, ModsMapped
  <2>4. Rewritten(ms)
    BY <2>2, <2>3 DEF Rewritten
  <2> QED BY <2>4 DEF ms
<1>2. Rewritten([mods EXCEPT ![x].dep = a, ![a].status = Linking])
  <2> DEFINE ms == [mods EXCEPT ![x].dep = a, ![a].status = Linking]
  <2>1. ms = [m \in DOMAIN mods |-> ms[m]]
    OBVIOUS
  <2>2. ASSUME NEW m \in DOMAIN mods
        PROVE  /\ ms[m] \in ModuleRecord
               /\ ms[m].realm = mods[m].realm /\ ms[m].epoch = mods[m].epoch
               /\ ms[m].registered = mods[m].registered
    <3> DEFINE y == IF m = x THEN [mods[m] EXCEPT !.dep = a] ELSE mods[m]
    <3>1. ms[m] = IF m = a THEN [y EXCEPT !.status = Linking] ELSE y
      OBVIOUS
    <3>2. /\ y \in ModuleRecord
          /\ y.realm = mods[m].realm /\ y.epoch = mods[m].epoch
          /\ y.registered = mods[m].registered
      BY <1>0 DEF ModuleRecord
    <3> HIDE DEF ms, y
    <3> QED BY <3>1, <3>2 DEF ModuleRecord
  <2> HIDE DEF ms
  <2>3. ms \in Seq(ModuleRecord) /\ DOMAIN ms = DOMAIN mods
    BY <2>1, <2>2, ModsMapped
  <2>4. Rewritten(ms)
    BY <2>2, <2>3 DEF Rewritten
  <2> QED BY <2>4 DEF ms
<1> QED BY <1>1, <1>2

(* ... and so on: the modules stay what they are, and the rest grows.      *)
LEMMA RewrittenGrows ==
  ASSUME IndInv, Rewritten(mods'), UNCHANGED epoch,
         Len(promises') \in Nat, Len(promises) <= Len(promises'),
         Len(reports') \in Nat, Len(reports) <= Len(reports')
  PROVE  Grows /\ ModsInv'
<1>1. Grows
  BY DEF Rewritten, Grows, SameGraph
<1>2. ModsInv'
  BY DEF IndInv, ModsInv, Rewritten
<1> QED BY <1>1, <1>2

(* Nothing is compiled, imported or called.                                *)
LEMMA SameGrows ==
  ASSUME IndInv, Rewritten(mods') \/ UNCHANGED mods, UNCHANGED <<epoch, reports>>,
         UNCHANGED promises \/ Len(promises') = Len(promises)
  PROVE  Grows /\ ModsInv'
<1>1. Len(promises) \in Nat /\ Len(reports) \in Nat
  BY DEF IndInv, PromisesInv, CallsInv
<1>2. Rewritten(mods')
  <2>1. UNCHANGED mods => Rewritten(mods')
    BY DEF IndInv, ModsInv, Rewritten
  <2> QED BY <2>1
<1>3. /\ Len(promises') \in Nat /\ Len(promises) <= Len(promises')
      /\ Len(reports') \in Nat /\ Len(reports) <= Len(reports')
  BY <1>1
<1> QED BY <1>2, <1>3, RewrittenGrows

(* A frame as it is made.                                                  *)
LEMMA NewFrame ==
  ASSUME NEW kind \in Ruby \cup Script \cup Links, NEW r \in Realms \cup {NoRealm},
         NEW m \in Nat, NEW p \in Nat
  PROVE  /\ Frame(kind, r, m, p) \in FrameRecord
         /\ Frame(kind, r, m, p).kind = kind /\ Frame(kind, r, m, p).realm = r
         /\ Frame(kind, r, m, p).module = m /\ Frame(kind, r, m, p).promise = p
         /\ Frame(kind, r, m, p).at = None /\ Frame(kind, r, m, p).call = None
         /\ Frame(kind, r, m, p).saved = <<None, None>> /\ Frame(kind, r, m, p).epoch = 0
BY DEF Frame, FrameRecord, None

-----------------------------------------------------------------------------
(* No promise is lost by a push ...                                        *)
LEMMA PushForgetsNone ==
  ASSUME IndInv, NEW f, Becomes(Len(stack) + 1, f), UNCHANGED promises
  PROVE  PromisesInv'
<1>1. PICK L \in Nat : L = Len(stack)
  BY StackIsSequence DEF IndInv
<1>2. L + 1 \in Nat /\ L + 1 <= Len(stack) + 1 /\ Len(stack) <= (L + 1) + 1 /\ ~(L + 1 <= Len(stack))
      /\ ~(L + 1 < Len(stack))
  BY <1>1
<1>3. promises' \in Seq({"pending", "rejected", "chained", "cut"})
  BY DEF IndInv, PromisesInv
<1>4. Becomes(L + 1, f)
  BY <1>1
<1> QED BY <1>2, <1>3, <1>4, PromisesKeep

(* ... by a frame that makes way for one with the same promise ...         *)
LEMMA ReplaceForgetsNone ==
  ASSUME IndInv, stack # <<>>, NEW f, Becomes(Len(stack), f), UNCHANGED promises,
         f.promise = Top.promise
  PROVE  PromisesInv'
<1>1. PICK L \in Nat \ {0} : L = Len(stack)
  BY StackIsSequence DEF IndInv
<1>2. L \in Nat /\ L <= Len(stack) + 1 /\ Len(stack) <= L + 1 /\ L <= Len(stack) /\ ~(L < Len(stack))
  BY <1>1
<1>3. promises' \in Seq({"pending", "rejected", "chained", "cut"})
  BY DEF IndInv, PromisesInv
<1>4. Becomes(L, f)
  BY <1>1
<1> QED BY <1>1, <1>2, <1>3, <1>4, PromisesKeep

(* ... by a pop, of a frame that has none or has settled it ...            *)
LEMMA PopForgetsNone ==
  ASSUME IndInv, stack # <<>>, NEW f, Becomes(Len(stack) - 1, f),
         Len(stack) # 1 => f.promise = stack[Len(stack) - 1].promise,
         \/ UNCHANGED promises /\ Top.promise = None
         \/ \E how \in {"rejected", "chained", "cut"} :
               promises' = [promises EXCEPT ![Top.promise] = how]
  PROVE  PromisesInv' /\ Len(promises') = Len(promises)
<1>1. PICK L \in Nat : L + 1 = Len(stack)
  <2>1. PICK K \in Nat \ {0} : K = Len(stack)
    BY StackIsSequence DEF IndInv
  <2>2. K - 1 \in Nat /\ (K - 1) + 1 = K
    BY <2>1
  <2> QED BY <2>1, <2>2
<1>2. /\ L <= Len(stack) + 1 /\ Len(stack) <= L + 1 /\ L <= Len(stack)
      /\ Len(stack) - 1 = L /\ (L # 0 => Len(stack) # 1)
  BY <1>1
<1>3. Becomes(L, f) /\ (L # 0 => f.promise = stack[L].promise)
  BY <1>2
<1>4. promises \in Seq({"pending", "rejected", "chained", "cut"})
  BY DEF IndInv, PromisesInv
<1>5. CASE UNCHANGED promises /\ Top.promise = None
  <2>1. \A p \in DOMAIN promises : p # None
    BY <1>4 DEF None
  <2> QED BY <1>2, <1>3, <1>4, <1>5, <2>1, PromisesKeep
<1>6. ASSUME NEW how \in {"rejected", "chained", "cut"},
             promises' = [promises EXCEPT ![Top.promise] = how]
      PROVE  PromisesInv' /\ Len(promises') = Len(promises)
  <2>1. /\ promises' \in Seq({"pending", "rejected", "chained", "cut"})
        /\ Len(promises') = Len(promises) /\ DOMAIN promises' = DOMAIN promises
    <3>1. PICK P \in Nat : P = Len(promises) /\ DOMAIN promises = 1 .. P
      BY <1>4
    <3>2. promises' = [p \in 1 .. P |-> IF p = Top.promise THEN how ELSE promises[p]]
      BY <1>6, <3>1
    <3>3. promises' \in [1 .. P -> {"pending", "rejected", "chained", "cut"}]
      BY <1>4, <3>1, <3>2
    <3> QED BY <3>1, <3>3
  <2>2. \A p \in DOMAIN promises' : promises'[p] = IF p = Top.promise THEN how ELSE promises[p]
    BY <1>6, <2>1
  <2>3. \A p \in DOMAIN promises' : promises'[p] = "pending" =>
           p \in DOMAIN promises /\ promises[p] = "pending" /\ Top.promise # p
    BY <2>1, <2>2
  <2> QED BY <1>2, <1>3, <2>1, <2>3, PromisesKeep
<1> QED BY <1>5, <1>6

(* ... or by a step that leaves both alone.                                *)
LEMMA StayForgetsNone ==
  ASSUME IndInv, UNCHANGED <<stack, promises>>
  PROVE  PromisesInv'
BY DEF IndInv, PromisesInv, NoLostImport

-----------------------------------------------------------------------------
(* Compiling, disposing of modules and resets leave the stack alone.       *)
LEMMA CompileKeeps ==
  ASSUME IndInv, NEW r \in Realms, NEW imports \in BOOLEAN, Compile(r, imports)
  PROVE  IndInv'
<1> DEFINE new == [realm |-> r, epoch |-> epoch[r], status |-> Unlinked,
                   imports |-> imports, dep |-> None, registered |-> TRUE]
<1>1. /\ mods' = Append(mods, new)
      /\ UNCHANGED <<stack, instantiating, parked, parkedErr, epoch, promises,
                     terminated, reports, raised>>
  BY DEF Compile
<1>2. mods \in Seq(ModuleRecord) /\ epoch \in [Realms -> Nat]
  BY DEF IndInv, ModsInv
<1>3. new \in ModuleRecord
  BY <1>2 DEF ModuleRecord, None
<1>4. new.realm = r /\ new.epoch = epoch[r]
  OBVIOUS
<1> HIDE DEF new
<1>5. PICK L \in Nat : L = Len(mods) /\ DOMAIN mods = 1 .. L
  BY <1>2
<1>6. /\ mods' \in Seq(ModuleRecord) /\ DOMAIN mods' = 1 .. L + 1
      /\ mods'[L + 1] = new /\ \A m \in 1 .. L : mods'[m] = mods[m]
  BY <1>1, <1>2, <1>3, <1>5
<1>7. Grows
  <2>1. SameGraph(mods, mods')
    BY <1>5, <1>6 DEF SameGraph
  <2>2. Len(promises) \in Nat /\ Len(reports) \in Nat
    BY DEF IndInv, PromisesInv, CallsInv
  <2> QED BY <1>1, <1>6, <2>1, <2>2 DEF Grows
<1>8. ModsInv'
  <2>1. \A m \in 1 .. L + 1 : m = L + 1 \/ m \in 1 .. L
    OBVIOUS
  <2>2. \A m \in 1 .. L : mods[m].registered => mods[m].epoch = epoch[mods[m].realm]
    BY <1>5 DEF IndInv, ModsInv
  <2> QED BY <1>1, <1>2, <1>4, <1>6, <2>1, <2>2 DEF ModsInv
<1>9. StackInv' /\ LinkInv'
  BY <1>1, <1>7, StackStays, LinkKeeps
<1>10. PromisesInv' /\ CallsInv'
  BY <1>1, StayForgetsNone DEF IndInv, CallsInv
<1> QED BY <1>8, <1>9, <1>10 DEF IndInv

(* A module that is disposed of is no longer registered.                   *)
LEMMA DisposeModuleKeeps ==
  ASSUME IndInv, NEW m \in DOMAIN mods, DisposeModule(m)
  PROVE  IndInv'
<1>1. /\ mods' = [mods EXCEPT ![m].registered = FALSE]
      /\ UNCHANGED <<stack, instantiating, parked, parkedErr, epoch, promises,
                     terminated, reports, raised>>
  BY DEF DisposeModule
<1>2. Rewritten(mods')
  <2>1. mods' = [n \in DOMAIN mods |-> mods'[n]]
    BY <1>1
  <2>2. \A n \in DOMAIN mods : mods[n] \in ModuleRecord
    BY ModsAreRecords DEF IndInv
  <2>3. ASSUME NEW n \in DOMAIN mods
        PROVE  /\ mods'[n] \in ModuleRecord
               /\ mods'[n].realm = mods[n].realm /\ mods'[n].epoch = mods[n].epoch
               /\ mods'[n].registered => mods[n].registered
    <3>1. mods'[n] = IF n = m THEN [mods[n] EXCEPT !.registered = FALSE] ELSE mods[n]
      BY <1>1
    <3> QED BY <2>2, <3>1 DEF ModuleRecord
  <2>4. mods' \in Seq(ModuleRecord) /\ DOMAIN mods' = DOMAIN mods
    BY <2>1, <2>3, ModsMapped DEF IndInv
  <2> QED BY <2>3, <2>4 DEF Rewritten
<1>3. Grows /\ ModsInv'
  BY <1>1, <1>2, SameGrows
<1>4. StackInv' /\ LinkInv'
  BY <1>1, <1>3, StackStays, LinkKeeps
<1>5. PromisesInv' /\ CallsInv'
  BY <1>1, StayForgetsNone DEF IndInv, CallsInv
<1> QED BY <1>3, <1>4, <1>5 DEF IndInv

(* A reset spares the realms of requests on the stack.                     *)
LEMMA ResetKeeps ==
  ASSUME IndInv, NEW r \in Realms, Reset(r)
  PROVE  IndInv'
<1>1. /\ r \notin Active
      /\ epoch' = [epoch EXCEPT ![r] = @ + 1]
      /\ mods' = [m \in DOMAIN mods |->
                    IF mods[m].realm = r THEN [mods[m] EXCEPT !.registered = FALSE] ELSE mods[m]]
      /\ UNCHANGED <<stack, instantiating, parked, parkedErr, promises, terminated,
                     reports, raised>>
  BY DEF Reset
<1>2. \A m \in DOMAIN mods : mods[m] \in ModuleRecord
  BY ModsAreRecords DEF IndInv
<1>3. ASSUME NEW m \in DOMAIN mods
      PROVE  /\ mods'[m] \in ModuleRecord
             /\ mods'[m].realm = mods[m].realm /\ mods'[m].epoch = mods[m].epoch
             /\ mods'[m].registered => mods[m].registered /\ mods[m].realm # r
  <2>1. mods'[m] = IF mods[m].realm = r THEN [mods[m] EXCEPT !.registered = FALSE] ELSE mods[m]
    BY <1>1
  <2> QED BY <1>2, <2>1 DEF ModuleRecord
<1>4. mods' \in Seq(ModuleRecord) /\ DOMAIN mods' = DOMAIN mods
  <2>1. mods' = [m \in DOMAIN mods |-> mods'[m]]
    BY <1>1
  <2> QED BY <1>3, <2>1, ModsMapped DEF IndInv
<1>5. /\ epoch \in [Realms -> Nat] /\ epoch' \in [Realms -> Nat]
      /\ \A s \in Realms : s # r => epoch'[s] = epoch[s]
  BY <1>1 DEF IndInv, ModsInv
<1>6. ModsInv'
  <2>1. \A m \in DOMAIN mods : mods[m].realm \in Realms
    BY <1>2 DEF ModuleRecord
  <2> QED BY <1>3, <1>4, <1>5, <2>1 DEF IndInv, ModsInv
<1>7. ASSUME NEW k \in DOMAIN stack, stack[k].kind = "instantiate"
      PROVE  epoch'[stack[k].realm] = epoch[stack[k].realm]
  <2>1. stack[k].realm # r
    BY <1>1, <1>7 DEF Active, Request
  <2>2. stack[k].realm \in Realms
    <3>1. FrameOK(stack[k], mods, Len(promises), Len(reports), epoch)
      BY DEF IndInv, StackInv
    <3>2. stack[k].module \in DOMAIN mods /\ stack[k].realm = mods[stack[k].module].realm
      BY <1>7, <3>1 DEF FrameOK, Links
    <3> QED BY <1>2, <3>2 DEF ModuleRecord
  <2> QED BY <1>5, <2>1, <2>2
<1>8. Grows
  <2>1. Len(promises) \in Nat /\ Len(reports) \in Nat
    BY DEF IndInv, PromisesInv, CallsInv
  <2> QED BY <1>1, <1>3, <1>4, <1>7, <2>1 DEF Grows, SameGraph
<1>9. StackInv' /\ LinkInv'
  BY <1>1, <1>8, StackStays, LinkKeeps
<1>10. PromisesInv' /\ CallsInv'
  BY <1>1, StayForgetsNone DEF IndInv, CallsInv
<1> QED BY <1>6, <1>9, <1>10 DEF IndInv

-----------------------------------------------------------------------------
(* A frame with no promise and no module is in order.                      *)
LEMMA PlainFrame ==
  ASSUME IndInv, NEW kind \in {"eval", "callback"}, NEW r \in Realms \cup {NoRealm}, Grows
  PROVE  /\ Frame(kind, r, None, None) \in FrameRecord /\ FrameNow(Frame(kind, r, None, None))
         /\ Frame(kind, r, None, None).kind = kind
<1>1. PICK f : f = Frame(kind, r, None, None)
  OBVIOUS
<1>2. kind \in Ruby \cup Script \cup Links /\ None \in Nat
  BY DEF Ruby, Script, Links, None
<1>3. f \in FrameRecord /\ f.kind = kind /\ f.promise = None /\ f.call = None /\ f.saved = <<None, None>>
  BY <1>1, <1>2, NewFrame
<1>4. PICK nr \in Nat : nr = Len(reports')
  BY DEF Grows
<1>5. f.call \in 0 .. nr /\ f.saved \in (0 .. nr) \X (0 .. nr)
  BY <1>3 DEF None
<1>6. FrameNow(f)
  BY <1>3, <1>4, <1>5 DEF FrameNow, FrameOK, Importing, Links
<1> QED BY <1>1, <1>3, <1>6

(* JavaScript of a request, ...                                            *)
LEMMA EvalKeeps ==
  ASSUME IndInv, NEW r \in Realms, Eval(r)
  PROVE  IndInv'
<1>1. /\ stack' = Append(stack, Frame("eval", r, None, None))
      /\ UNCHANGED <<mods, instantiating, parked, parkedErr, epoch, promises,
                     terminated, reports, raised>>
  BY DEF Eval
<1>2. Grows /\ ModsInv'
  BY <1>1, SameGrows
<1>3. PICK f : f = Frame("eval", r, None, None)
  OBVIOUS
<1>4. f \in FrameRecord /\ FrameNow(f) /\ f.kind = "eval"
  BY <1>2, <1>3, PlainFrame
<1>5. f.kind \in Request /\ f.kind \notin Links /\ f.kind # "resolver"
  BY <1>4 DEF Request, Links
<1>6. /\ StackInv' /\ Becomes(Len(stack) + 1, f) /\ stack' # <<>> /\ LinksOnStack' = LinksOnStack
  BY <1>1, <1>2, <1>3, <1>4, <1>5, PushKeeps
<1>7. LinkInv' /\ PromisesInv'
  BY <1>1, <1>6, LinkKeeps, PushForgetsNone
<1>8. CallsInv'
  BY <1>1, <1>6 DEF IndInv, CallsInv
<1> QED BY <1>2, <1>6, <1>7, <1>8 DEF IndInv

(* ... a host function it calls, ...                                       *)
LEMMA CallHostKeeps ==
  ASSUME IndInv, CallHost
  PROVE  IndInv'
<1>1. /\ stack # <<>> /\ stack' = Append(stack, Frame("callback", NoRealm, None, None))
      /\ UNCHANGED <<mods, instantiating, parked, parkedErr, epoch, promises,
                     terminated, reports, raised>>
  BY DEF CallHost, ScriptRuns
<1>2. Grows /\ ModsInv'
  BY <1>1, SameGrows
<1>3. PICK f : f = Frame("callback", NoRealm, None, None)
  OBVIOUS
<1>4. f \in FrameRecord /\ FrameNow(f) /\ f.kind = "callback"
  BY <1>2, <1>3, PlainFrame
<1>5. f.kind \notin Links /\ f.kind # "resolver"
  BY <1>4 DEF Links
<1>6. /\ StackInv' /\ Becomes(Len(stack) + 1, f) /\ stack' # <<>> /\ LinksOnStack' = LinksOnStack
  BY <1>1, <1>2, <1>3, <1>4, <1>5, PushKeeps
<1>7. LinkInv' /\ PromisesInv'
  BY <1>1, <1>6, LinkKeeps, PushForgetsNone
<1>8. CallsInv'
  BY <1>1, <1>6 DEF IndInv, CallsInv
<1> QED BY <1>2, <1>6, <1>7, <1>8 DEF IndInv

(* ... and its return.                                                     *)
LEMMA ReturnHostKeeps ==
  ASSUME IndInv, ReturnHost
  PROVE  IndInv'
<1>1. /\ stack # <<>> /\ Top.kind = "callback" /\ stack' = Pop
      /\ UNCHANGED <<mods, instantiating, parked, parkedErr, epoch, promises,
                     terminated, reports, raised>>
  BY DEF ReturnHost
<1>2. Grows /\ ModsInv'
  BY <1>1, SameGrows
<1>3. Top.kind \notin Links /\ Top.kind \notin Request /\ Top.promise = None
  BY <1>1, TopHolds DEF Links, Request, FrameOK, Importing
<1>4. /\ StackInv' /\ Becomes(Len(stack) - 1, stack[Len(stack) - 1])
      /\ stack' # <<>> /\ LinksOnStack' = LinksOnStack
  BY <1>1, <1>2, <1>3, PopKeeps
<1>5. LinkInv' /\ PromisesInv'
  BY <1>1, <1>3, <1>4, LinkKeeps, PopForgetsNone
<1>6. CallsInv'
  BY <1>1, <1>4 DEF IndInv, CallsInv
<1> QED BY <1>2, <1>4, <1>5, <1>6 DEF IndInv

(* A termination leaves the unwinding to the frames.                       *)
LEMMA TerminateKeeps ==
  ASSUME IndInv, Terminate
  PROVE  IndInv'
<1>1. /\ stack # <<>> /\ terminated' = TRUE
      /\ UNCHANGED <<stack, mods, instantiating, parked, parkedErr, epoch, promises,
                     reports, raised>>
  BY DEF Terminate
<1>2. Grows /\ ModsInv'
  BY <1>1, SameGrows
<1>3. StackInv' /\ LinkInv'
  BY <1>1, <1>2, StackStays, LinkKeeps
<1>4. PromisesInv' /\ CallsInv'
  BY <1>1, StayForgetsNone DEF IndInv, CallsInv
<1> QED BY <1>2, <1>3, <1>4 DEF IndInv

(* An evaluate request runs a module of its realm.                         *)
LEMMA EvaluateKeeps ==
  ASSUME IndInv, NEW m \in DOMAIN mods, Evaluate(m)
  PROVE  IndInv'
<1>1. /\ stack' = Append(stack, Frame("evaluate", mods[m].realm, m, None))
      /\ mods' = IF mods[m].status = Linked THEN SetStatus({m}, Evaluating) ELSE mods
      /\ UNCHANGED <<instantiating, parked, parkedErr, epoch, promises, terminated,
                     reports, raised>>
  BY DEF Evaluate
<1>2. Rewritten(mods') \/ UNCHANGED mods
  BY <1>1, StatusRewrites DEF IndInv, Statuses
<1>3. Grows /\ ModsInv'
  BY <1>1, <1>2, SameGrows
<1>4. m \in DOMAIN mods' /\ m \in Nat /\ mods[m].realm \in Realms
  <2>1. mods[m] \in ModuleRecord /\ m \in Nat
    BY ModsAreRecords DEF IndInv
  <2> QED BY <1>3, <2>1 DEF ModuleRecord, Grows, SameGraph
<1>5. PICK f : f = Frame("evaluate", mods[m].realm, m, None)
  OBVIOUS
<1>6. /\ f \in FrameRecord /\ f.kind = "evaluate" /\ f.module = m
      /\ f.promise = None /\ f.call = None /\ f.saved = <<None, None>>
  BY <1>4, <1>5, NewFrame DEF Ruby, Script, Links, None
<1>7. FrameNow(f)
  <2>1. PICK nr \in Nat : nr = Len(reports')
    BY <1>3 DEF Grows
  <2>2. f.call \in 0 .. nr /\ f.saved \in (0 .. nr) \X (0 .. nr)
    BY <1>6 DEF None
  <2> QED BY <1>4, <1>6, <2>1, <2>2 DEF FrameNow, FrameOK, Importing, Links
<1>8. f.kind \in Request /\ f.kind \notin Links /\ f.kind # "resolver"
  BY <1>6 DEF Request, Links
<1>9. /\ StackInv' /\ Becomes(Len(stack) + 1, f) /\ stack' # <<>> /\ LinksOnStack' = LinksOnStack
  BY <1>1, <1>3, <1>5, <1>6, <1>7, <1>8, PushKeeps
<1>10. LinkInv' /\ PromisesInv'
  BY <1>1, <1>9, LinkKeeps, PushForgetsNone
<1>11. CallsInv'
  BY <1>1, <1>9 DEF IndInv, CallsInv
<1> QED BY <1>3, <1>9, <1>10, <1>11 DEF IndInv

-----------------------------------------------------------------------------
(* A sequence grows by one.                                                *)
LEMMA Longer ==
  ASSUME NEW S, NEW s \in Seq(S), NEW x \in S
  PROVE  /\ Append(s, x) \in Seq(S) /\ Len(s) \in Nat
         /\ Len(Append(s, x)) = Len(s) + 1 /\ Len(s) <= Len(Append(s, x))
         /\ Len(s) + 1 \in Nat \ {0}
         /\ \A k \in 1 .. Len(s) : Append(s, x)[k] = s[k]
         /\ Append(s, x)[Len(s) + 1] = x
         /\ DOMAIN Append(s, x) = 1 .. Len(s) + 1 /\ DOMAIN s = 1 .. Len(s)
         /\ Len(s) \in 0 .. Len(s) + 1 /\ Len(s) + 1 \in 0 .. Len(s) + 1
OBVIOUS

(* An instantiate that links pushes the one link there is.                 *)
LEMMA InstantiateKeeps ==
  ASSUME IndInv, NEW m \in DOMAIN mods, Instantiate(m)
  PROVE  IndInv'
<1>1. /\ ~instantiating /\ mods[m].registered
      /\ reports' = Append(reports, None)
      /\ parked' = Len(reports') /\ parkedErr' = None
      /\ stack' = Append(stack,
                [Frame("instantiate", mods[m].realm, m, None) EXCEPT
                   !.call = Len(reports'), !.at = Next_(m), !.epoch = mods[m].epoch,
                   !.saved = <<parked, parkedErr>>])
      /\ instantiating' = TRUE
      /\ mods' = SetStatus({m}, Linking)
      /\ UNCHANGED <<epoch, promises, terminated, raised>>
  BY DEF Instantiate, MayLink
<1>2. reports \in Seq(Nat \cup {Interrupted}) /\ None \in Nat \cup {Interrupted}
  BY DEF IndInv, CallsInv, None
<1>3. PICK nr \in Nat : nr = Len(reports)
  BY <1>2
<1>4. /\ Len(reports') = nr + 1 /\ nr + 1 \in Nat /\ reports' \in Seq(Nat \cup {Interrupted})
      /\ nr <= nr + 1
  BY <1>1, <1>2, <1>3, Longer
<1>5. Len(promises) \in Nat
  BY DEF IndInv, PromisesInv
<1>6. Rewritten(mods')
  BY <1>1, StatusRewrites DEF IndInv, Statuses
<1>7. Grows /\ ModsInv'
  BY <1>1, <1>3, <1>4, <1>5, <1>6, RewrittenGrows
<1>8. /\ mods[m] \in ModuleRecord /\ m \in Nat /\ m \in DOMAIN mods'
      /\ mods'[m].realm = mods[m].realm /\ mods'[m].epoch = mods[m].epoch
      /\ mods[m].epoch = epoch[mods[m].realm]
  <2>1. mods[m] \in ModuleRecord /\ m \in Nat
    BY ModsAreRecords DEF IndInv
  <2>2. /\ m \in DOMAIN mods'
        /\ mods'[m].realm = mods[m].realm /\ mods'[m].epoch = mods[m].epoch
    BY <1>6 DEF Rewritten
  <2>3. mods[m].epoch = epoch[mods[m].realm]
    BY <1>1 DEF IndInv, ModsInv
  <2> QED BY <2>1, <2>2, <2>3
<1>9. Next_(m) \in {m, None} /\ Next_(m) \in Nat
  BY <1>8 DEF Next_, None
<1>10. parked \in 0 .. nr /\ parkedErr \in 0 .. nr
  BY <1>3 DEF IndInv, CallsInv
<1>11. PICK g : g = Frame("instantiate", mods[m].realm, m, None)
  OBVIOUS
<1>12. /\ g \in FrameRecord /\ g.kind = "instantiate" /\ g.realm = mods[m].realm
       /\ g.module = m /\ g.promise = None
  BY SMTT(30), <1>8, <1>11, NewFrame DEF ModuleRecord, Ruby, Script, Links, None
<1>13. PICK f : f = [g EXCEPT !.call = Len(reports'), !.at = Next_(m), !.epoch = mods[m].epoch,
                               !.saved = <<parked, parkedErr>>]
  OBVIOUS
<1>14. /\ f \in FrameRecord /\ f.kind = "instantiate" /\ f.realm = mods[m].realm
       /\ f.module = m /\ f.promise = None
       /\ f.call = nr + 1 /\ f.at = Next_(m) /\ f.epoch = mods[m].epoch
       /\ f.saved = <<parked, parkedErr>>
  <2>1. parked \in Nat /\ parkedErr \in Nat /\ Next_(m) \in Nat \cup {Failed} /\ mods[m].epoch \in Nat
    BY <1>8, <1>9, <1>10 DEF ModuleRecord
  <2> QED BY <1>4, <1>12, <1>13, <2>1 DEF FrameRecord
<1>15. FrameNow(f)
  <2>1. f.call \in 0 .. nr + 1 /\ f.saved \in (0 .. nr + 1) \X (0 .. nr + 1) /\ f.call # None
    BY <1>10, <1>14 DEF None
  <2>2. f.at \in DOMAIN mods' \cup {None, Failed}
    BY <1>8, <1>9, <1>14
  <2>3. f.at \in DOMAIN mods' => f.at = m
    <3>1. None \notin DOMAIN mods'
      BY <1>6, ModsAreRecords DEF IndInv, Rewritten, None
    <3> QED BY <1>9, <1>14, <3>1
  <2>4. f.kind \notin Importing /\ f.kind # "link"
    BY <1>14 DEF Importing
  <2> QED BY <1>1, <1>4, <1>8, <1>14, <2>1, <2>2, <2>3, <2>4 DEF FrameNow, FrameOK
<1>16. f.kind \in Request /\ f.kind \in Links /\ f.kind # "resolver"
  BY <1>14 DEF Request, Links
<1>17. stack' = Append(stack, f)
  BY <1>1, <1>11, <1>13
<1>18. StackInv' /\ Becomes(Len(stack) + 1, f) /\ stack' # <<>>
  BY <1>7, <1>14, <1>15, <1>16, <1>17, PushKeeps
<1>19. LinkInv'
  <2>1. PICK L \in Nat : L = Len(stack)
    BY StackIsSequence DEF IndInv
  <2>2. L + 1 \in Nat \ {0} /\ L + 1 <= Len(stack) + 1 /\ Becomes(L + 1, f)
    BY <1>18, <2>1
  <2> QED BY <1>1, <1>16, <2>2, LinkBegins
<1>20. PromisesInv'
  BY <1>1, <1>18, PushForgetsNone
<1>21. CallsInv'
  <2>1. raised \subseteq 1 .. nr
    BY <1>3 DEF IndInv, CallsInv
  <2>2. raised' \subseteq 1 .. nr + 1 /\ parked' \in 0 .. nr + 1 /\ parkedErr' \in 0 .. nr + 1
    BY <1>1, <1>4, <2>1 DEF None
  <2> QED BY <1>1, <1>4, <1>18, <2>2 DEF IndInv, CallsInv
<1> QED BY <1>7, <1>18, <1>19, <1>20, <1>21 DEF IndInv

(* One that links nothing leaves the stack alone.                          *)
LEMMA InVainKeeps ==
  ASSUME IndInv, NEW m \in DOMAIN mods, InstantiateInVain(m)
  PROVE  IndInv'
<1>1. PICK x \in Nat \cup {Interrupted} : reports' = Append(reports, x)
  BY DEF InstantiateInVain, None
<1>2. /\ \/ parked' = Len(reports') /\ parkedErr' = None
         \/ UNCHANGED <<parked, parkedErr>>
      /\ UNCHANGED <<stack, mods, instantiating, epoch, promises, terminated, raised>>
  BY DEF InstantiateInVain
<1>3. reports \in Seq(Nat \cup {Interrupted})
  BY DEF IndInv, CallsInv
<1>4. PICK nr \in Nat : nr = Len(reports)
  BY <1>3
<1>5. /\ Len(reports') = nr + 1 /\ nr + 1 \in Nat /\ reports' \in Seq(Nat \cup {Interrupted})
      /\ nr <= nr + 1
  BY <1>1, <1>3, <1>4, Longer
<1>6. Rewritten(mods')
  BY <1>2 DEF IndInv, ModsInv, Rewritten
<1>7. Len(promises) \in Nat
  BY DEF IndInv, PromisesInv
<1>8. Grows /\ ModsInv'
  BY <1>2, <1>4, <1>5, <1>6, <1>7, RewrittenGrows
<1>9. StackInv' /\ LinkInv'
  BY <1>2, <1>8, StackStays, LinkKeeps
<1>10. PromisesInv'
  BY <1>2, StayForgetsNone
<1>11. CallsInv'
  <2>1. raised \subseteq 1 .. nr /\ parked \in 0 .. nr /\ parkedErr \in 0 .. nr
    BY <1>4 DEF IndInv, CallsInv
  <2>2. raised' \subseteq 1 .. nr + 1 /\ parked' \in 0 .. nr + 1 /\ parkedErr' \in 0 .. nr + 1
    BY <1>2, <1>5, <2>1 DEF None
  <2> QED BY <1>2, <1>5, <2>2 DEF IndInv, CallsInv
<1> QED BY <1>8, <1>9, <1>10, <1>11 DEF IndInv

(* A resolver is asked about the module its link is at.                    *)
LEMMA AskKeeps ==
  ASSUME IndInv, AskResolver
  PROVE  /\ IndInv' /\ Top.kind \in Links
         /\ \E f \in FrameRecord :
               stack' = Append(stack, f) /\ f.kind = "resolver" /\ f.call = parked
<1> DEFINE here == RealmOf(mods[Top.module].realm, Top.epoch)
<1>1. /\ stack # <<>> /\ Top.kind \in Links /\ Top.at > None
      /\ stack' = Append(stack, [Frame("resolver", here, Top.at, None) EXCEPT !.call = parked])
      /\ UNCHANGED <<mods, instantiating, parked, parkedErr, epoch, promises,
                     terminated, reports, raised>>
  BY DEF AskResolver
<1>2. Grows /\ ModsInv'
  BY <1>1, SameGrows
<1>3. /\ FrameOK(Top, mods, Len(promises), Len(reports), epoch)
  BY <1>1, TopHolds
<1>4. Top.at \in DOMAIN mods /\ Top.module \in DOMAIN mods
  BY <1>1, <1>3 DEF FrameOK, None, Failed
<1>5. Top.at \in Nat /\ mods[Top.module] \in ModuleRecord /\ here \in Realms \cup {NoRealm}
  BY <1>4, ModsAreRecords DEF IndInv, RealmOf, ModuleRecord
<1>6. Top.kind = "instantiate" => here = Top.realm
  BY <1>3, <1>4, <1>5 DEF FrameOK, RealmOf
<1>7. PICK g : g = Frame("resolver", here, Top.at, None)
  OBVIOUS
<1>8. /\ g \in FrameRecord /\ g.kind = "resolver" /\ g.realm = here
      /\ g.module = Top.at /\ g.promise = None /\ g.saved = <<None, None>>
  <2>1. "resolver" \in Ruby \cup Script \cup Links /\ None \in Nat
    BY DEF Ruby, None
  <2> HIDE DEF here
  <2> QED BY <1>5, <1>7, <2>1, NewFrame
<1>9. PICK f : f = [g EXCEPT !.call = parked]
  OBVIOUS
<1>10. parked \in Nat /\ parked \in 0 .. Len(reports)
  BY DEF IndInv, CallsInv
<1>11. /\ f \in FrameRecord /\ f.kind = "resolver" /\ f.realm = here
       /\ f.module = Top.at /\ f.promise = None /\ f.saved = <<None, None>> /\ f.call = parked
  BY <1>8, <1>9, <1>10 DEF FrameRecord
<1>12. FrameNow(f)
  <2>1. PICK nr \in Nat : nr = Len(reports)
    BY DEF IndInv, CallsInv
  <2>2. f.call \in 0 .. nr /\ f.saved \in (0 .. nr) \X (0 .. nr)
    BY <1>10, <1>11, <2>1 DEF None
  <2>3. f.kind \notin Importing /\ f.kind \notin Links /\ f.kind # "link" /\ f.kind # "instantiate"
    BY <1>11 DEF Importing, Links
  <2> QED BY <1>1, <1>4, <1>11, <2>1, <2>2, <2>3 DEF FrameNow, FrameOK
<1>13. stack' = Append(stack, f)
  BY <1>1, <1>7, <1>9
<1>14. Follows(Top, f) /\ f.kind \notin Links
  BY <1>1, <1>6, <1>11 DEF Follows, Links
<1>15. /\ StackInv' /\ Becomes(Len(stack) + 1, f) /\ stack' # <<>> /\ LinksOnStack' = LinksOnStack
  BY <1>1, <1>2, <1>11, <1>12, <1>13, <1>14, PushKeeps
<1>16. LinkInv' /\ PromisesInv'
  BY <1>1, <1>15, LinkKeeps, PushForgetsNone
<1>17. CallsInv'
  BY <1>1, <1>15 DEF IndInv, CallsInv
<1> QED BY <1>1, <1>2, <1>11, <1>13, <1>15, <1>16, <1>17 DEF IndInv

(* The link a resolver works for.                                          *)
LEMMA AskingHolds ==
  ASSUME IndInv, stack # <<>>, Top.kind = "resolver"
  PROVE  /\ Asking.kind \in Links /\ Asking \in FrameRecord
         /\ FrameOK(Asking, mods, Len(promises), Len(reports), epoch)
         /\ Len(stack) - 1 \in DOMAIN stack /\ Asking = stack[Len(stack) - 1]
         /\ Asking.kind = "instantiate" => Top.realm = Asking.realm /\ Top.module = Asking.at
         /\ Top.module \in DOMAIN mods /\ Top.promise = None
<1>1. /\ Len(stack) - 1 \in DOMAIN stack /\ Follows(stack[Len(stack) - 1], Top)
      /\ FrameOK(Top, mods, Len(promises), Len(reports), epoch)
  BY TopHolds DEF Request
<1>2. Asking = stack[Len(stack) - 1]
  BY DEF Asking
<1>3. FrameOK(Asking, mods, Len(promises), Len(reports), epoch)
  BY <1>1, <1>2 DEF IndInv, StackInv
<1> QED BY <1>1, <1>2, <1>3 DEF Follows, FrameOK, Importing

(* The link goes on at a module of its context, is done, or has failed.    *)
LEMMA AnswerKeeps ==
  ASSUME IndInv, Grows, stack # <<>>, Top.kind = "resolver", UNCHANGED <<instantiating, promises>>,
         NEW n \in DOMAIN mods \cup {None, Failed}, stack' = LinkGoesOn(n),
         Asking.kind = "instantiate" /\ n \in DOMAIN mods =>
            mods[n].realm = Asking.realm /\ mods[n].epoch = Asking.epoch
  PROVE  StackInv' /\ LinkInv' /\ PromisesInv' /\ stack' # <<>>
<1>1. /\ Asking.kind \in Links /\ Asking \in FrameRecord
      /\ FrameOK(Asking, mods, Len(promises), Len(reports), epoch)
      /\ Len(stack) - 1 \in DOMAIN stack /\ Asking = stack[Len(stack) - 1]
      /\ Top.promise = None
  BY AskingHolds
<1>2. n \in Nat \cup {Failed}
  BY ModsAreRecords DEF IndInv, None
<1>3. FrameNow(Asking)
  BY <1>1, FramesStay
<1>4. PICK f : f = [Asking EXCEPT !.at = n]
  OBVIOUS
<1>5. /\ f \in FrameRecord /\ f.kind = Asking.kind /\ f.realm = Asking.realm
      /\ f.module = Asking.module /\ f.promise = Asking.promise /\ f.call = Asking.call
      /\ f.epoch = Asking.epoch /\ f.saved = Asking.saved /\ f.at = n
  BY <1>1, <1>2, <1>4 DEF FrameRecord
<1>6. FrameNow(f)
  <2>1. \A k \in DOMAIN mods : /\ k \in DOMAIN mods'
                               /\ mods'[k].realm = mods[k].realm /\ mods'[k].epoch = mods[k].epoch
    BY DEF Grows, SameGraph
  <2>2. None \notin DOMAIN mods' /\ Failed \notin DOMAIN mods'
    BY DEF Grows, None, Failed
  <2>3. f.at \in DOMAIN mods' \cup {None, Failed}
    BY <1>5, <2>1
  <2>4. f.kind = "instantiate" /\ f.at \in DOMAIN mods' =>
           mods'[f.at].realm = f.realm /\ mods'[f.at].epoch = f.epoch
    BY <1>5, <2>1, <2>2
  <2> QED BY <1>3, <1>5, <2>3, <2>4 DEF FrameNow, FrameOK
<1>7. /\ StackInv' /\ LinksOnStack' = LinksOnStack /\ stack' # <<>>
      /\ Becomes(Len(stack) - 1, f)
  BY <1>2, <1>4, <1>6, GoOnKeeps
<1>8. LinkInv'
  BY <1>7, LinkKeeps
<1>9. PromisesInv'
  BY <1>1, <1>5, <1>7, PopForgetsNone
<1> QED BY <1>7, <1>8, <1>9

(* A usable answer is of the context that is linking.                      *)
LEMMA UsableIsHere ==
  ASSUME IndInv, stack # <<>>, Top.kind = "resolver", NEW a \in DOMAIN mods \cup {None},
         Usable(a, Top.realm)
  PROVE  /\ a \in DOMAIN mods
         /\ Asking.kind = "instantiate" =>
              mods[a].realm = Asking.realm /\ mods[a].epoch = Asking.epoch
<1>1. a \in DOMAIN mods /\ mods[a].registered /\ mods[a].realm = Top.realm
  BY DEF Usable
<1>2. mods[a].epoch = epoch[mods[a].realm]
  BY <1>1 DEF IndInv, ModsInv
<1>3. ASSUME Asking.kind = "instantiate"
      PROVE  Top.realm = Asking.realm /\ Asking.epoch = epoch[Asking.realm]
  BY <1>3, AskingHolds DEF FrameOK
<1> QED BY <1>1, <1>2, <1>3

(* The answer of a resolver.                                               *)
LEMMA ResolverAnswersKeeps ==
  ASSUME IndInv, NEW a \in DOMAIN mods \cup {None}, ResolverAnswers(a)
  PROVE  IndInv'
<1>1. /\ stack # <<>> /\ Top.kind = "resolver"
      /\ UNCHANGED <<instantiating, parked, parkedErr, epoch, promises, terminated,
                     reports, raised>>
  BY DEF ResolverAnswers
<1>2. Top.module \in DOMAIN mods
  BY <1>1, AskingHolds
<1>3. PICK n \in DOMAIN mods \cup {None, Failed} :
        /\ stack' = LinkGoesOn(n)
        /\ Asking.kind = "instantiate" /\ n \in DOMAIN mods =>
             mods[n].realm = Asking.realm /\ mods[n].epoch = Asking.epoch
        /\ Rewritten(mods') \/ UNCHANGED mods
  <2>0. None \notin DOMAIN mods /\ Failed \notin DOMAIN mods
    BY ModsAreRecords DEF IndInv, None, Failed
  <2>1. CASE Usable(a, Top.realm)
    <3>1. /\ a \in DOMAIN mods
          /\ Asking.kind = "instantiate" =>
               mods[a].realm = Asking.realm /\ mods[a].epoch = Asking.epoch
      BY <1>1, <2>1, UsableIsHere
    <3>2. /\ Rewritten([mods EXCEPT ![Top.module].dep = a])
          /\ Rewritten([mods EXCEPT ![Top.module].dep = a, ![a].status = Linking])
      BY <1>2, <3>1, DepRewrites DEF IndInv
    <3>3. Next_(a) \in {a, None}
      BY DEF Next_
    <3>4. CASE mods[a].status = Unlinked
      <4>1. /\ mods' = [mods EXCEPT ![Top.module].dep = a, ![a].status = Linking]
            /\ stack' = LinkGoesOn(Next_(a))
        BY <2>1, <3>4 DEF ResolverAnswers
      <4> QED BY <2>0, <3>1, <3>2, <3>3, <4>1
    <3>5. CASE mods[a].status # Unlinked
      <4>1. /\ mods' = [mods EXCEPT ![Top.module].dep = a]
            /\ stack' = LinkGoesOn(None)
        BY <2>1, <3>5 DEF ResolverAnswers
      <4> QED BY <2>0, <3>1, <3>2, <4>1
    <3> QED BY <3>4, <3>5
  <2>2. CASE ~Usable(a, Top.realm)
    <3>1. stack' = LinkGoesOn(Failed) /\ UNCHANGED mods
      BY <2>2 DEF ResolverAnswers
    <3> QED BY <2>0, <3>1
  <2> QED BY <2>1, <2>2
<1>4. Grows /\ ModsInv'
  BY <1>1, <1>3, SameGrows
<1>5. StackInv' /\ LinkInv' /\ PromisesInv' /\ stack' # <<>>
  BY <1>1, <1>3, <1>4, AnswerKeeps
<1>6. CallsInv'
  BY <1>1, <1>5 DEF IndInv, CallsInv
<1> QED BY <1>4, <1>5, <1>6 DEF IndInv

(* The block of a resolver raises.                                         *)
LEMMA ResolverRaisesKeeps ==
  ASSUME IndInv, ResolverRaises
  PROVE  IndInv'
<1>1. /\ stack # <<>> /\ Top.kind = "resolver" /\ stack' = LinkGoesOn(Failed)
      /\ parkedErr' = IF Top.call # None THEN Top.call ELSE parkedErr
      /\ raised' = raised \cup ({Asking.call} \ {None})
      /\ UNCHANGED <<mods, instantiating, parked, epoch, promises, terminated, reports>>
  BY DEF ResolverRaises
<1>2. Grows /\ ModsInv'
  BY <1>1, SameGrows
<1>3. Failed \notin DOMAIN mods
  BY ModsAreRecords DEF IndInv, Failed
<1>4. StackInv' /\ LinkInv' /\ PromisesInv' /\ stack' # <<>>
  BY <1>1, <1>2, <1>3, AnswerKeeps
<1>5. PICK nr \in Nat : nr = Len(reports)
  BY DEF IndInv, CallsInv
<1>6. Top.call \in 0 .. nr /\ Asking.call \in 0 .. nr
  BY <1>1, <1>5, TopHolds, AskingHolds DEF FrameOK
<1>7. CallsInv'
  <2>1. raised' \subseteq 1 .. nr
    <3>1. \A c \in 0 .. nr : c # None => c \in 1 .. nr
      BY DEF None
    <3>2. raised \subseteq 1 .. nr
      BY <1>5 DEF IndInv, CallsInv
    <3> QED BY <1>1, <1>6, <3>1, <3>2
  <2>2. parkedErr' \in 0 .. nr
    BY <1>1, <1>5, <1>6 DEF IndInv, CallsInv
  <2> QED BY <1>1, <1>4, <1>5, <2>1, <2>2 DEF IndInv, CallsInv
<1> QED BY <1>2, <1>4, <1>7 DEF IndInv

-----------------------------------------------------------------------------
(* The link on top is popped.                                              *)
LEMMA PopsLink ==
  ASSUME IndInv, stack # <<>>, Top.kind \in Links, instantiating' = FALSE,
         Becomes(Len(stack) - 1, stack[Len(stack) - 1])
  PROVE  LinkInv'
<1>1. PICK L \in Nat : L + 1 = Len(stack)
  <2>1. PICK K \in Nat \ {0} : K = Len(stack)
    BY StackIsSequence DEF IndInv
  <2>2. K - 1 \in Nat /\ (K - 1) + 1 = K
    BY <2>1
  <2> QED BY <2>1, <2>2
<1>2. L <= Len(stack) /\ L # Len(stack) /\ Becomes(L, stack[L])
  <2>1. Len(stack) - 1 = L /\ L <= Len(stack) /\ L # Len(stack)
    BY <1>1
  <2> QED BY <2>1
<1> QED BY <1>2, LinkEnded

(* instantiate_module returns.                                             *)
LEMMA EndInstantiateKeeps ==
  ASSUME IndInv, NEW ok \in BOOLEAN, EndInstantiate(ok)
  PROVE  IndInv'
<1>1. /\ stack # <<>> /\ Top.kind = "instantiate" /\ Top.kind \in Links
      /\ mods' = IF ok THEN SetStatus(InLink, Linked) ELSE ResetGraph
      /\ instantiating' = FALSE /\ terminated' = FALSE /\ stack' = Pop
      /\ UNCHANGED <<epoch, promises, raised>>
  BY DEF EndInstantiate, LinkEnds, Links
<1>2. /\ \/ UNCHANGED <<parked, parkedErr>>
         \/ parked' = Top.saved[1] /\ parkedErr' = Top.saved[2]
      /\ \E x \in {Interrupted, parkedErr} : reports' = [reports EXCEPT ![Top.call] = x]
  BY DEF EndInstantiate
<1>3. PICK nr \in Nat : nr = Len(reports) /\ DOMAIN reports = 1 .. nr
  BY DEF IndInv, CallsInv
<1>4. /\ reports \in Seq(Nat \cup {Interrupted}) /\ raised \subseteq 1 .. nr
      /\ parked \in 0 .. nr /\ parkedErr \in 0 .. nr
  BY <1>3 DEF IndInv, CallsInv
<1>5. reports' \in Seq(Nat \cup {Interrupted}) /\ Len(reports') = nr
  <2>0. parkedErr \in Nat
    BY <1>4
  <2>1. PICK x \in Nat \cup {Interrupted} : reports' = [reports EXCEPT ![Top.call] = x]
    BY <1>2, <2>0
  <2>2. reports' = [c \in 1 .. nr |-> IF c = Top.call THEN x ELSE reports[c]]
    BY <1>3, <2>1
  <2>3. reports' \in [1 .. nr -> Nat \cup {Interrupted}]
    BY <1>3, <1>4, <2>2
  <2> QED BY <2>3
<1>6. Rewritten(mods')
  <2>1. Rewritten(SetStatus(InLink, Linked)) /\ Rewritten(ResetGraph)
    BY StatusRewrites, ResetRewrites DEF IndInv, Statuses
  <2> QED BY <1>1, <2>1
<1>7. Grows /\ ModsInv'
  <2>1. Len(promises) \in Nat
    BY DEF IndInv, PromisesInv
  <2> QED BY <1>1, <1>3, <1>5, <1>6, <2>1, RewrittenGrows
<1>8. StackInv' /\ Becomes(Len(stack) - 1, stack[Len(stack) - 1])
  BY <1>1, <1>7, PopKeeps
<1>9. LinkInv'
  BY <1>1, <1>8, PopsLink
<1>10. FrameOK(Top, mods, Len(promises), Len(reports), epoch)
  BY <1>1, TopHolds
<1>11. PromisesInv'
  <2>1. Top.promise = None
    BY <1>1, <1>10 DEF FrameOK, Importing
  <2> QED BY <1>1, <1>8, <2>1, PopForgetsNone
<1>12. parked' \in 0 .. nr /\ parkedErr' \in 0 .. nr
  <2>1. Top.saved \in (0 .. nr) \X (0 .. nr)
    BY <1>3, <1>10 DEF FrameOK
  <2> QED BY <1>2, <1>4, <2>1
<1>13. CallsInv'
  BY <1>1, <1>4, <1>5, <1>12 DEF CallsInv
<1> QED BY <1>7, <1>8, <1>9, <1>11, <1>13 DEF IndInv

-----------------------------------------------------------------------------
(* import() has a promise and a frame that is to settle it.                *)
LEMMA ImportKeeps ==
  ASSUME IndInv, NEW r \in Realms, NEW e \in Nat, Import(r, e)
  PROVE  IndInv'
<1>1. /\ stack # <<>> /\ promises' = Append(promises, "pending")
      /\ stack' = Append(stack, [Frame("importer", r, None, Len(promises')) EXCEPT !.epoch = e])
      /\ UNCHANGED <<mods, instantiating, parked, parkedErr, epoch, terminated,
                     reports, raised>>
  BY DEF Import, ScriptRuns
<1>2. promises \in Seq({"pending", "rejected", "chained", "cut"})
  BY DEF IndInv, PromisesInv
<1>3. PICK np \in Nat : np = Len(promises)
  BY <1>2
<1>4. /\ promises' \in Seq({"pending", "rejected", "chained", "cut"})
      /\ Len(promises') = np + 1 /\ DOMAIN promises' = 1 .. np + 1 /\ DOMAIN promises = 1 .. np
      /\ \A p \in 1 .. np : promises'[p] = promises[p]
      /\ np + 1 \in Nat /\ np <= np + 1
  BY <1>1, <1>2, <1>3, Longer
<1>5. PICK nr \in Nat : nr = Len(reports)
  BY DEF IndInv, CallsInv
<1>6. Rewritten(mods')
  BY <1>1 DEF IndInv, ModsInv, Rewritten
<1>7. Grows /\ ModsInv'
  BY <1>1, <1>3, <1>4, <1>5, <1>6, RewrittenGrows
<1>8. PICK g : g = Frame("importer", r, None, Len(promises'))
  OBVIOUS
<1>9. /\ g \in FrameRecord /\ g.kind = "importer" /\ g.promise = np + 1
      /\ g.call = None /\ g.saved = <<None, None>>
  <2>1. "importer" \in Ruby \cup Script \cup Links /\ None \in Nat
    BY DEF Ruby, None
  <2> QED BY <1>4, <1>8, <2>1, NewFrame
<1>10. PICK f : f = [g EXCEPT !.epoch = e]
  OBVIOUS
<1>11. /\ f \in FrameRecord /\ f.kind = "importer" /\ f.promise = np + 1
       /\ f.call = None /\ f.saved = <<None, None>>
  BY <1>9, <1>10 DEF FrameRecord
<1>12. FrameNow(f)
  <2>1. f.call \in 0 .. nr /\ f.saved \in (0 .. nr) \X (0 .. nr) /\ f.promise \in 1 .. np + 1
    BY <1>11 DEF None
  <2>2. f.kind \in Importing /\ f.kind \notin Links /\ f.kind # "link" /\ f.kind # "instantiate"
    BY <1>11 DEF Importing, Links
  <2> QED BY <1>1, <1>4, <1>5, <1>11, <2>1, <2>2 DEF FrameNow, FrameOK
<1>13. stack' = Append(stack, f) /\ f.kind \notin Links /\ f.kind # "resolver"
  BY <1>1, <1>8, <1>10, <1>11 DEF Links
<1>14. /\ StackInv' /\ Becomes(Len(stack) + 1, f) /\ stack' # <<>> /\ LinksOnStack' = LinksOnStack
  BY <1>1, <1>7, <1>11, <1>12, <1>13, PushKeeps
<1>15. LinkInv'
  BY <1>1, <1>14, LinkKeeps
<1>16. PromisesInv'
  <2>1. PICK L \in Nat : L = Len(stack)
    BY StackIsSequence DEF IndInv
  <2>2. L + 1 \in Nat /\ L + 1 <= Len(stack) + 1 /\ Len(stack) <= (L + 1) + 1 /\ ~(L + 1 <= Len(stack))
        /\ ~(L + 1 < Len(stack)) /\ L + 1 # 0
    BY <2>1
  <2>3. Becomes(L + 1, f)
    BY <1>14, <2>1
  <2>4. \A p \in 1 .. np + 1 : p = np + 1 \/ p \in 1 .. np
    OBVIOUS
  <2>5. \A p \in DOMAIN promises' : promises'[p] = "pending" =>
           \/ f.promise = p
           \/ p \in DOMAIN promises /\ promises[p] = "pending"
    BY <1>4, <1>11, <2>4
  <2> QED BY <1>4, <2>2, <2>3, <2>5, PromisesKeep
<1>17. CallsInv'
  BY <1>1, <1>14 DEF IndInv, CallsInv
<1> QED BY <1>7, <1>14, <1>15, <1>16, <1>17 DEF IndInv

(* The frame on top settles its promise.                                   *)
LEMMA SettleKeeps ==
  ASSUME IndInv, stack # <<>>, Top.kind \in Importing,
         NEW how \in {"rejected", "chained", "cut"}, Settle(how),
         Rewritten(mods') \/ UNCHANGED mods, UNCHANGED <<epoch, reports>>
  PROVE  /\ StackInv' /\ ModsInv' /\ PromisesInv' /\ stack' # <<>>
         /\ Becomes(Len(stack) - 1, stack[Len(stack) - 1])
         /\ Top.kind \notin Links => LinksOnStack' = LinksOnStack
<1>1. promises' = [promises EXCEPT ![Top.promise] = how] /\ stack' = Pop
  BY DEF Settle
<1>2. Becomes(Len(stack) - 1, stack[Len(stack) - 1])
  BY <1>1, Popped DEF IndInv
<1>3. PromisesInv' /\ Len(promises') = Len(promises)
  BY <1>1, <1>2, PopForgetsNone
<1>4. Grows /\ ModsInv'
  BY <1>3, SameGrows
<1>5. Top.kind \notin Request
  BY DEF Importing, Request
<1> QED BY <1>1, <1>2, <1>3, <1>4, <1>5, PopKeeps

(* An import that is refused rejects its promise.                          *)
LEMMA ImportRefusedKeeps ==
  ASSUME IndInv, NEW a \in DOMAIN mods \cup {None}, ImportRefused(a)
  PROVE  IndInv'
<1>1. /\ stack # <<>> /\ Top.kind = "importer" /\ Settle("rejected")
      /\ UNCHANGED <<mods, instantiating, parked, parkedErr, epoch, terminated,
                     reports, raised>>
  BY DEF ImportRefused
<1>2. Top.kind \in Importing /\ Top.kind \notin Links
  BY <1>1 DEF Importing, Links
<1>3. StackInv' /\ ModsInv' /\ PromisesInv' /\ stack' # <<>> /\ LinksOnStack' = LinksOnStack
  BY <1>1, <1>2, SettleKeeps
<1>4. LinkInv'
  BY <1>1, <1>3, LinkKeeps
<1>5. CallsInv'
  BY <1>1, <1>3 DEF IndInv, CallsInv
<1> QED BY <1>3, <1>4, <1>5 DEF IndInv

(* The frame that runs a module for an import ...                          *)
LEMMA BodyHolds ==
  ASSUME IndInv, stack # <<>>, Top.kind \in Importing, Grows, promises' = promises,
         NEW a \in DOMAIN mods
  PROVE  \E f : /\ f = EvaluateBody(a, Top)
                /\ f \in FrameRecord /\ FrameNow(f) /\ f.promise = Top.promise
                /\ f.kind = "body"
<1>1. Top \in FrameRecord /\ FrameOK(Top, mods, Len(promises), Len(reports), epoch)
  BY TopHolds
<1>2. Top.promise \in 1 .. Len(promises) /\ Top.promise \in Nat /\ Top.epoch \in Nat
  BY <1>1 DEF FrameOK, FrameRecord
<1>3. a \in Nat /\ a \in DOMAIN mods'
  BY ModsAreRecords DEF IndInv, Grows, SameGraph
<1>4. PICK nr \in Nat : nr = Len(reports')
  BY DEF Grows
<1>5. PICK g : g = Frame("body", NoRealm, a, Top.promise)
  OBVIOUS
<1>6. /\ g \in FrameRecord /\ g.kind = "body" /\ g.module = a /\ g.promise = Top.promise
      /\ g.call = None /\ g.saved = <<None, None>>
  <2>1. "body" \in Ruby \cup Script \cup Links
    BY DEF Script
  <2> QED BY <1>2, <1>3, <1>5, <2>1 DEF Frame, FrameRecord, None
<1>7. PICK f : f = [g EXCEPT !.epoch = Top.epoch]
  OBVIOUS
<1>8. /\ f \in FrameRecord /\ f.kind = "body" /\ f.module = a /\ f.promise = Top.promise
      /\ f.call = None /\ f.saved = <<None, None>>
  BY <1>2, <1>6, <1>7 DEF FrameRecord
<1>9. f.call \in 0 .. nr /\ f.saved \in (0 .. nr) \X (0 .. nr)
  BY <1>8 DEF None
<1>10. f.kind \in Importing /\ f.kind \notin Links /\ f.kind # "link" /\ f.kind # "instantiate"
  BY <1>8 DEF Importing, Links
<1>11. FrameNow(f)
  BY <1>2, <1>3, <1>4, <1>8, <1>9, <1>10 DEF FrameNow, FrameOK
<1> QED BY <1>5, <1>7, <1>8, <1>11 DEF EvaluateBody

(* ... and the one that links it have its promise.                         *)
LEMMA LinkHolds ==
  ASSUME IndInv, stack # <<>>, Top.kind \in Importing, Grows, promises' = promises,
         NEW a \in DOMAIN mods
  PROVE  \E f : /\ f = [Frame("link", NoRealm, a, Top.promise) EXCEPT
                           !.at = Next_(a), !.epoch = Top.epoch]
                /\ f \in FrameRecord /\ FrameNow(f) /\ f.promise = Top.promise
                /\ f.kind = "link"
<1>1. Top \in FrameRecord /\ FrameOK(Top, mods, Len(promises), Len(reports), epoch)
  BY TopHolds
<1>2. Top.promise \in 1 .. Len(promises) /\ Top.promise \in Nat /\ Top.epoch \in Nat
  BY <1>1 DEF FrameOK, FrameRecord
<1>3. a \in Nat /\ a \in DOMAIN mods' /\ Next_(a) \in {a, None} /\ Next_(a) \in Nat
  BY ModsAreRecords DEF IndInv, Grows, SameGraph, Next_, None
<1>4. PICK nr \in Nat : nr = Len(reports')
  BY DEF Grows
<1>5. PICK g : g = Frame("link", NoRealm, a, Top.promise)
  OBVIOUS
<1>6. /\ g \in FrameRecord /\ g.kind = "link" /\ g.module = a /\ g.promise = Top.promise
      /\ g.call = None /\ g.saved = <<None, None>>
  <2>1. "link" \in Ruby \cup Script \cup Links
    BY DEF Links
  <2> QED BY <1>2, <1>3, <1>5, <2>1 DEF Frame, FrameRecord, None
<1>7. PICK f : f = [g EXCEPT !.at = Next_(a), !.epoch = Top.epoch]
  OBVIOUS
<1>8. /\ f \in FrameRecord /\ f.kind = "link" /\ f.module = a /\ f.promise = Top.promise
      /\ f.call = None /\ f.saved = <<None, None>> /\ f.at = Next_(a)
  BY <1>2, <1>3, <1>6, <1>7 DEF FrameRecord
<1>9. f.call \in 0 .. nr /\ f.saved \in (0 .. nr) \X (0 .. nr)
  BY <1>8 DEF None
<1>10. f.kind \in Importing /\ f.kind # "instantiate"
  BY <1>8 DEF Importing
<1>11. f.at \in DOMAIN mods' \cup {None, Failed}
  BY <1>3, <1>8
<1>12. FrameNow(f)
  BY <1>2, <1>3, <1>4, <1>8, <1>9, <1>10, <1>11 DEF FrameNow, FrameOK
<1> QED BY <1>5, <1>7, <1>8, <1>12

(* An import() that links.                                                 *)
LEMMA ImportLinksKeeps ==
  ASSUME IndInv, NEW a \in DOMAIN mods, ImportLinks(a)
  PROVE  IndInv'
<1> DEFINE link == [Frame("link", NoRealm, a, Top.promise) EXCEPT
                      !.at = Next_(a), !.epoch = Top.epoch]
<1>1. /\ stack # <<>> /\ Top.kind = "importer" /\ ~instantiating
      /\ instantiating' = TRUE /\ stack' = Replace(link)
      /\ mods' = SetStatus({a}, Linking)
      /\ UNCHANGED <<parked, parkedErr, epoch, promises, terminated, reports, raised>>
  BY DEF ImportLinks, Answered
<1>2. Rewritten(mods')
  BY <1>1, StatusRewrites DEF IndInv, Statuses
<1>3. Grows /\ ModsInv'
  BY <1>1, <1>2, SameGrows
<1>4. Top.kind \in Importing /\ Top.kind \notin Request
  BY <1>1 DEF Importing, Request
<1>5. PICK f : /\ f = link
               /\ f \in FrameRecord /\ FrameNow(f) /\ f.promise = Top.promise /\ f.kind = "link"
  BY <1>1, <1>3, <1>4, LinkHolds
<1>6. /\ f \in FrameRecord /\ FrameNow(f) /\ f.promise = Top.promise
      /\ f.kind = "link"
  BY <1>5
<1>7. f.kind \in Links /\ f.kind # "resolver" /\ stack' = Replace(f)
  BY <1>1, <1>5, <1>6 DEF Links
<1> HIDE DEF link
<1>8. StackInv' /\ Becomes(Len(stack), f) /\ stack' # <<>>
  BY <1>1, <1>3, <1>4, <1>6, <1>7, ReplaceKeeps
<1>9. LinkInv'
  <2>1. PICK L \in Nat \ {0} : L = Len(stack)
    BY <1>1, StackIsSequence DEF IndInv
  <2>2. L \in Nat \ {0} /\ L <= Len(stack) + 1 /\ Becomes(L, f)
    BY <1>8, <2>1
  <2> QED BY <1>1, <1>7, <2>2, LinkBegins
<1>10. PromisesInv'
  BY <1>1, <1>6, <1>8, ReplaceForgetsNone
<1>11. CallsInv'
  BY <1>1, <1>8 DEF IndInv, CallsInv
<1> QED BY <1>3, <1>8, <1>9, <1>10, <1>11 DEF IndInv

(* One whose module is linked, or has run.                                 *)
LEMMA ImportEvaluatesKeeps ==
  ASSUME IndInv, NEW a \in DOMAIN mods, ImportEvaluates(a)
  PROVE  IndInv'
<1>1. /\ stack # <<>> /\ Top.kind = "importer"
      /\ UNCHANGED <<instantiating, parked, parkedErr, epoch, terminated, reports, raised>>
  BY DEF ImportEvaluates, Answered
<1>2. Top.kind \in Importing /\ Top.kind \notin Request /\ Top.kind \notin Links
  BY <1>1 DEF Importing, Request, Links
<1>3. StackInv' /\ ModsInv' /\ PromisesInv' /\ stack' # <<>> /\ LinksOnStack' = LinksOnStack
  <2>1. CASE stack' = Replace(EvaluateBody(a, Top)) /\ mods' = SetStatus({a}, Evaluating)
             /\ UNCHANGED promises
    <3>1. Rewritten(mods')
      BY <2>1, StatusRewrites DEF IndInv, Statuses
    <3>2. Grows /\ ModsInv'
      BY <1>1, <2>1, <3>1, SameGrows
    <3>3. PICK f : /\ f = EvaluateBody(a, Top)
                   /\ f \in FrameRecord /\ FrameNow(f) /\ f.promise = Top.promise /\ f.kind = "body"
      BY <1>1, <1>2, <2>1, <3>2, BodyHolds
    <3>4. f \in FrameRecord /\ FrameNow(f) /\ f.promise = Top.promise /\ f.kind = "body"
      BY <3>3
    <3>5. f.kind \notin Links /\ f.kind # "resolver"
      BY <3>4 DEF Links
    <3>6. /\ StackInv' /\ Becomes(Len(stack), f) /\ stack' # <<>> /\ LinksOnStack' = LinksOnStack
      BY <1>1, <1>2, <2>1, <3>2, <3>3, <3>4, <3>5, ReplaceKeeps
    <3> QED BY <1>1, <2>1, <3>2, <3>4, <3>6, ReplaceForgetsNone
  <2>2. CASE Settle("chained") /\ UNCHANGED mods
    BY <1>1, <1>2, <2>2, SettleKeeps
  <2> QED BY <2>1, <2>2 DEF ImportEvaluates
<1>4. LinkInv'
  BY <1>1, <1>3, LinkKeeps
<1>5. CallsInv'
  BY <1>1, <1>3 DEF IndInv, CallsInv
<1> QED BY <1>3, <1>4, <1>5 DEF IndInv

(* The link of an import ends.                                             *)
LEMMA EndLinkKeeps ==
  ASSUME IndInv, NEW ok \in BOOLEAN, EndLink(ok)
  PROVE  IndInv'
<1>1. /\ stack # <<>> /\ Top.kind = "link" /\ instantiating' = FALSE
      /\ UNCHANGED <<parked, parkedErr, epoch, terminated, reports, raised>>
  BY DEF EndLink, LinkEnds
<1>2. Top.kind \in Importing /\ Top.kind \notin Request /\ Top.kind \in Links
  BY <1>1 DEF Importing, Request, Links
<1>3. StackInv' /\ ModsInv' /\ PromisesInv' /\ stack' # <<>> /\ LinkInv'
  <2>1. ASSUME /\ mods' = [SetStatus(InLink, Linked) EXCEPT ![Top.module].status = Evaluating]
               /\ stack' = Replace(EvaluateBody(Top.module, Top))
               /\ UNCHANGED promises
        PROVE  StackInv' /\ ModsInv' /\ PromisesInv' /\ stack' # <<>> /\ LinkInv'
    <3>1. PICK a \in DOMAIN mods : a = Top.module
      BY <1>1, <1>2, TopHolds DEF FrameOK
    <3>2. Rewritten(mods')
      <4>1. PICK ms : ms = SetStatus(InLink, Linked)
        OBVIOUS
      <4>2. Rewritten(ms)
        BY <4>1, StatusRewrites DEF IndInv, Statuses
      <4>3. mods' = [ms EXCEPT ![a].status = Evaluating]
        BY <2>1, <3>1, <4>1
      <4>4. /\ DOMAIN ms = DOMAIN mods /\ ms \in Seq(ModuleRecord)
            /\ \A m \in DOMAIN mods :
                 /\ ms[m].realm = mods[m].realm /\ ms[m].epoch = mods[m].epoch
                 /\ ms[m].registered => mods[m].registered
        BY <4>2 DEF Rewritten
      <4>5. \A m \in DOMAIN mods : ms[m] \in ModuleRecord
        BY <4>4
      <4>6. mods' = [m \in DOMAIN mods |-> mods'[m]]
        BY <4>3, <4>4
      <4>7. ASSUME NEW m \in DOMAIN mods
            PROVE  /\ mods'[m] \in ModuleRecord
                   /\ mods'[m].realm = mods[m].realm /\ mods'[m].epoch = mods[m].epoch
                   /\ mods'[m].registered => mods[m].registered
        <5>1. mods'[m] = IF m = a THEN [ms[m] EXCEPT !.status = Evaluating] ELSE ms[m]
          BY <4>3, <4>4
        <5>2. ms[m] \in ModuleRecord
          BY <4>5
        <5>3. [ms[m] EXCEPT !.status = Evaluating] \in ModuleRecord
          BY <5>2 DEF ModuleRecord
        <5> QED BY <4>4, <5>1, <5>2, <5>3 DEF ModuleRecord
      <4>8. mods' \in Seq(ModuleRecord) /\ DOMAIN mods' = DOMAIN mods
        BY <4>6, <4>7, ModsMapped DEF IndInv
      <4> QED BY <4>7, <4>8 DEF Rewritten
    <3>3. Grows /\ ModsInv'
      BY <1>1, <2>1, <3>2, SameGrows
    <3>4. PICK f : /\ f = EvaluateBody(a, Top)
                   /\ f \in FrameRecord /\ FrameNow(f) /\ f.promise = Top.promise /\ f.kind = "body"
      BY <1>1, <1>2, <2>1, <3>3, BodyHolds
    <3>5. f \in FrameRecord /\ FrameNow(f) /\ f.promise = Top.promise /\ f.kind = "body"
      BY <3>4
    <3>6. f.kind \notin Links /\ f.kind # "resolver" /\ stack' = Replace(f)
      BY <2>1, <3>1, <3>4, <3>5 DEF Links
    <3>7. /\ StackInv' /\ Becomes(Len(stack), f) /\ stack' # <<>>
      BY <1>1, <1>2, <3>3, <3>5, <3>6, ReplaceKeeps
    <3>8. LinkInv'
      <4>1. PICK L \in Nat : L = Len(stack)
        BY <1>1, StackIsSequence DEF IndInv
      <4>2. L <= Len(stack) /\ Becomes(L, f)
        BY <3>7, <4>1
      <4> QED BY <1>1, <1>2, <3>6, <4>1, <4>2, LinkEnded
    <3> QED BY <1>1, <2>1, <3>3, <3>5, <3>7, <3>8, ReplaceForgetsNone
  <2>2. ASSUME mods' = ResetGraph, Settle(IF terminated THEN "cut" ELSE "rejected")
        PROVE  StackInv' /\ ModsInv' /\ PromisesInv' /\ stack' # <<>> /\ LinkInv'
    <3>1. PICK how \in {"rejected", "chained", "cut"} : Settle(how)
      BY <2>2
    <3>2. Rewritten(mods')
      BY <2>2, ResetRewrites DEF IndInv
    <3>3. /\ StackInv' /\ ModsInv' /\ PromisesInv' /\ stack' # <<>>
          /\ Becomes(Len(stack) - 1, stack[Len(stack) - 1])
      BY <1>1, <1>2, <3>1, <3>2, SettleKeeps
    <3> QED BY <1>1, <1>2, <3>3, PopsLink
  <2> QED BY <2>1, <2>2 DEF EndLink
<1>4. CallsInv'
  BY <1>1, <1>3 DEF IndInv, CallsInv
<1> QED BY <1>3, <1>4 DEF IndInv

(* JavaScript ends.                                                        *)
LEMMA EndScriptKeeps ==
  ASSUME IndInv, NEW ok \in BOOLEAN, EndScript(ok)
  PROVE  IndInv'
<1>1. /\ stack # <<>> /\ Top.kind \in Script
      /\ UNCHANGED <<instantiating, parked, parkedErr, epoch, reports, raised>>
  BY DEF EndScript
<1>2. Rewritten(mods') \/ UNCHANGED mods
  <2>1. \A S : Rewritten(SetStatus(S, Evaluated)) /\ Rewritten(SetStatus(S, Errored))
    BY StatusRewrites DEF IndInv, Statuses
  <2>2. \/ mods' = mods
        \/ \E S : mods' = SetStatus(S, Evaluated)
        \/ \E S : mods' = SetStatus(S, Errored)
    BY DEF EndScript
  <2> QED BY <2>1, <2>2
<1>3. Top.kind \notin Links
  BY <1>1 DEF Script, Links
<1>4. /\ StackInv' /\ ModsInv' /\ PromisesInv' /\ LinksOnStack' = LinksOnStack
      /\ terminated' \in BOOLEAN /\ (terminated' => stack' # <<>>)
  <2>1. CASE Top.kind = "body"
    <3>1. UNCHANGED terminated /\ \E how \in {"rejected", "chained", "cut"} : Settle(how)
      BY <2>1 DEF EndScript
    <3>2. Top.kind \in Importing
      BY <2>1 DEF Importing
    <3>3. StackInv' /\ ModsInv' /\ PromisesInv' /\ stack' # <<>> /\ LinksOnStack' = LinksOnStack
      BY <1>1, <1>2, <1>3, <3>1, <3>2, SettleKeeps
    <3> QED BY <3>1, <3>3 DEF IndInv, CallsInv
  <2>2. CASE Top.kind # "body"
    <3>1. stack' = Pop /\ terminated' = FALSE /\ UNCHANGED promises
      BY <2>2 DEF EndScript
    <3>2. Grows /\ ModsInv'
      BY <1>1, <1>2, <3>1, SameGrows
    <3>3. Top.promise = None
      BY <1>1, <2>2, TopHolds DEF FrameOK, Importing, Script
    <3>4. /\ StackInv' /\ Becomes(Len(stack) - 1, stack[Len(stack) - 1])
          /\ LinksOnStack' = LinksOnStack
      BY <1>1, <1>3, <3>1, <3>2, PopKeeps
    <3> QED BY <1>1, <3>1, <3>2, <3>3, <3>4, PopForgetsNone
  <2> QED BY <2>1, <2>2
<1>5. LinkInv'
  BY <1>1, <1>4, LinkKeeps
<1>6. CallsInv'
  BY <1>1, <1>4 DEF IndInv, CallsInv
<1> QED BY <1>4, <1>5, <1>6 DEF IndInv

-----------------------------------------------------------------------------
(* At first there is nothing.                                              *)
LEMMA IndInvInit ==
  ASSUME Init
  PROVE  IndInv
<1>1. /\ stack = <<>> /\ mods = <<>> /\ promises = <<>> /\ reports = <<>>
      /\ epoch = [r \in Realms |-> 0] /\ raised = {} /\ parked = 0 /\ parkedErr = 0
      /\ instantiating = FALSE /\ terminated = FALSE
  BY DEF Init, None
<1>2. StackInv
  BY <1>1 DEF StackInv
<1>3. ModsInv
  BY <1>1 DEF ModsInv
<1>4. LinkInv
  <2>1. DOMAIN stack = {}
    BY <1>1
  <2>2. LinksOnStack = {}
    BY <2>1 DEF LinksOnStack
  <2> QED BY <1>1, <2>2 DEF LinkInv
<1>5. PromisesInv
  BY <1>1 DEF PromisesInv, NoLostImport
<1>6. CallsInv
  <2>1. Len(reports) = 0 /\ reports \in Seq(Nat \cup {Interrupted})
    BY <1>1
  <2>2. parked \in 0 .. Len(reports) /\ parkedErr \in 0 .. Len(reports)
    BY <1>1, <2>1
  <2>3. raised \subseteq 1 .. Len(reports)
    BY <1>1
  <2> QED BY <1>1, <2>1, <2>2, <2>3 DEF CallsInv
<1> QED BY <1>2, <1>3, <1>4, <1>5, <1>6 DEF IndInv

(* Every step keeps the invariant.                                         *)
LEMMA IndInvStep ==
  ASSUME IndInv, [Next]_vars
  PROVE  IndInv'
<1>1. ASSUME NEW r \in Realms, NEW imports \in BOOLEAN, Compile(r, imports) PROVE IndInv'
  BY <1>1, CompileKeeps
<1>2. ASSUME NEW r \in Realms, Reset(r) PROVE IndInv'
  BY <1>2, ResetKeeps
<1>3. ASSUME NEW r \in Realms, Eval(r) PROVE IndInv'
  BY <1>3, EvalKeeps
<1>4. ASSUME NEW r \in Realms, NEW e \in 0 .. MaxResets, Import(r, e) PROVE IndInv'
  <2>1. e \in Nat
    BY BoundsAssumption
  <2> QED BY <1>4, <2>1, ImportKeeps
<1>5. ASSUME NEW m \in DOMAIN mods, DisposeModule(m) PROVE IndInv'
  BY <1>5, DisposeModuleKeeps
<1>6. ASSUME NEW m \in DOMAIN mods, Instantiate(m) PROVE IndInv'
  BY <1>6, InstantiateKeeps
<1>7. ASSUME NEW m \in DOMAIN mods, InstantiateInVain(m) PROVE IndInv'
  BY <1>7, InVainKeeps
<1>8. ASSUME NEW m \in DOMAIN mods, Evaluate(m) PROVE IndInv'
  BY <1>8, EvaluateKeeps
<1>9. ASSUME NEW a \in DOMAIN mods \cup {None}, ResolverAnswers(a) PROVE IndInv'
  BY <1>9, ResolverAnswersKeeps
<1>10. ASSUME NEW a \in DOMAIN mods \cup {None}, ImportRefused(a) PROVE IndInv'
  BY <1>10, ImportRefusedKeeps
<1>11. ASSUME NEW a \in DOMAIN mods, ImportLinks(a) PROVE IndInv'
  BY <1>11, ImportLinksKeeps
<1>12. ASSUME NEW a \in DOMAIN mods, ImportEvaluates(a) PROVE IndInv'
  BY <1>12, ImportEvaluatesKeeps
<1>13. ASSUME NEW ok \in BOOLEAN, EndInstantiate(ok) PROVE IndInv'
  BY <1>13, EndInstantiateKeeps
<1>14. ASSUME NEW ok \in BOOLEAN, EndLink(ok) PROVE IndInv'
  BY <1>14, EndLinkKeeps
<1>15. ASSUME NEW ok \in BOOLEAN, EndScript(ok) PROVE IndInv'
  BY <1>15, EndScriptKeeps
<1>16. CASE AskResolver
  BY <1>16, AskKeeps
<1>17. CASE ResolverRaises
  BY <1>17, ResolverRaisesKeeps
<1>18. CASE CallHost \/ ReturnHost \/ Terminate
  BY <1>18, CallHostKeeps, ReturnHostKeeps, TerminateKeeps
<1>19. CASE UNCHANGED vars
  <2>1. UNCHANGED <<stack, mods, instantiating, parked, parkedErr, epoch, promises,
                    terminated, reports, raised>>
    BY <1>19 DEF vars
  <2>2. Grows /\ ModsInv'
    BY <2>1, SameGrows
  <2>3. StackInv' /\ LinkInv' /\ PromisesInv'
    BY <2>1, <2>2, StackStays, LinkKeeps, StayForgetsNone
  <2> QED BY <2>1, <2>2, <2>3 DEF IndInv, CallsInv
<1> QED BY <1>1, <1>2, <1>3, <1>4, <1>5, <1>6, <1>7, <1>8, <1>9, <1>10, <1>11, <1>12,
           <1>13, <1>14, <1>15, <1>16, <1>17, <1>18, <1>19 DEF Next

(* The invariant of every behaviour.                                       *)
THEOREM ModulesInvariant == Spec => []IndInv
<1>1. Init => IndInv
  BY IndInvInit
<1>2. IndInv /\ [Next]_vars => IndInv'
  BY IndInvStep
<1> QED BY <1>1, <1>2, PTL DEF Spec

(* Types; what is parked belongs to a call there was.                      *)
THEOREM ModulesTypes == Spec => []TypeOK
<1>1. IndInv => TypeOK
  BY DEF IndInv, StackInv, ModsInv, LinkInv, PromisesInv, CallsInv, TypeOK
<1> QED BY <1>1, ModulesInvariant, PTL

(* At most one link is on the stack, whatever the resolvers do, and the    *)
(* flag instantiating says whether there is one.                           *)
THEOREM LinkIsAlone == Spec => []OneLink
<1>1. ASSUME IndInv PROVE OneLink
  <2>1. (\A j, k \in LinksOnStack : j = k) /\ (instantiating <=> LinksOnStack # {})
    BY <1>1 DEF IndInv, LinkInv
  <2>2. CASE LinksOnStack = {}
    <3>1. Cardinality(LinksOnStack) = 0
      BY <2>2, FS_EmptySet
    <3> QED BY <2>1, <3>1 DEF OneLink
  <2>3. CASE LinksOnStack # {}
    <3>1. PICK k : LinksOnStack = {k}
      BY <2>1, <2>3
    <3>2. Cardinality(LinksOnStack) = 1
      BY <3>1, FS_Singleton
    <3> QED BY <2>1, <3>2 DEF OneLink
  <2> QED BY <2>2, <2>3
<1>2. IndInv => OneLink
  BY <1>1
<1> QED BY <1>2, ModulesInvariant, PTL

(* No path through the callback of import() forgets its promise: while it  *)
(* is pending a frame on the stack is there to settle it.                  *)
THEOREM ImportsAreKept == Spec => []NoLostImport
<1>1. IndInv => NoLostImport
  BY DEF IndInv, PromisesInv
<1> QED BY <1>1, ModulesInvariant, PTL

-----------------------------------------------------------------------------
\* What the modules import does not change, or is forgotten.
DepsStay == \A m \in DOMAIN mods : mods'[m].dep \in {None, mods[m].dep}

(* Setting a status keeps what the modules import ...                      *)
LEMMA StatusKeepsDeps ==
  ASSUME ModsInv, NEW S, NEW status, mods' = SetStatus(S, status)
  PROVE  DepsStay
<1>1. \A m \in DOMAIN mods : mods[m] \in ModuleRecord
  BY ModsAreRecords
<1>2. ASSUME NEW m \in DOMAIN mods PROVE mods'[m].dep = mods[m].dep
  <2>1. mods'[m] = IF m \in S THEN [mods[m] EXCEPT !.status = status] ELSE mods[m]
    BY DEF SetStatus
  <2> QED BY <1>1, <2>1 DEF ModuleRecord
<1> QED BY <1>2 DEF DepsStay

(* ... as the answer of a resolver that is used for what an instantiate    *)
(* request links names a module of its context.                            *)
LEMMA AnswerIsHere ==
  ASSUME IndInv, NEW a \in DOMAIN mods \cup {None}, ResolverAnswers(a),
         Asking.kind = "instantiate", NEW m \in DOMAIN mods,
         mods'[m].dep \notin {None, mods[m].dep}
  PROVE  SameContext(m, mods'[m].dep)
<1>1. stack # <<>> /\ Top.kind = "resolver"
  BY DEF ResolverAnswers
<1>2. \A n \in DOMAIN mods : mods[n] \in ModuleRecord
  BY ModsAreRecords DEF IndInv
<1>3. PICK x \in DOMAIN mods : x = Top.module
  BY <1>1, AskingHolds
<1>4. Usable(a, Top.realm)
  BY DEF ResolverAnswers
<1>5. /\ a \in DOMAIN mods
      /\ mods[a].realm = Asking.realm /\ mods[a].epoch = Asking.epoch
  BY <1>1, <1>4, UsableIsHere
<1>6. \/ mods' = [mods EXCEPT ![x].dep = a]
      \/ mods' = [mods EXCEPT ![x].dep = a, ![a].status = Linking]
  BY <1>3, <1>4 DEF ResolverAnswers
<1>7. m = x /\ mods'[m].dep = a
  <2>1. CASE mods' = [mods EXCEPT ![x].dep = a]
    <3>1. mods'[m] = IF m = x THEN [mods[m] EXCEPT !.dep = a] ELSE mods[m]
      BY <2>1
    <3> QED BY <1>2, <3>1 DEF ModuleRecord
  <2>2. CASE mods' = [mods EXCEPT ![x].dep = a, ![a].status = Linking]
    <3>1. PICK y : y = IF m = x THEN [mods[m] EXCEPT !.dep = a] ELSE mods[m]
      OBVIOUS
    <3>2. mods'[m] = IF m = a THEN [y EXCEPT !.status = Linking] ELSE y
      BY <2>2, <3>1
    <3>3. y.dep = IF m = x THEN a ELSE mods[m].dep
      BY <1>2, <3>1 DEF ModuleRecord
    <3>4. mods'[m].dep = y.dep
      BY <1>2, <3>1, <3>2 DEF ModuleRecord
    <3> QED BY <3>3, <3>4
  <2> QED BY <1>6, <2>1, <2>2
<1>8. Asking.module \in DOMAIN mods /\ Top.module = Asking.at
      /\ FrameOK(Asking, mods, Len(promises), Len(reports), epoch)
  BY <1>1, AskingHolds DEF FrameOK, Links
<1>9. mods[x].realm = Asking.realm /\ mods[x].epoch = Asking.epoch
  BY <1>3, <1>8 DEF FrameOK
<1> QED BY <1>5, <1>7, <1>9 DEF SameContext

(* A module that an instantiate request links is linked with modules of    *)
(* its own v8::Context only: the realm is not reset while the request is   *)
(* on the stack, and an answer from elsewhere is refused.                  *)
THEOREM ImportsStayInContext == Spec => StaticImportsHere
<1> DEFINE Here == stack # <<>> /\ Top.kind = "resolver" /\ Asking.kind = "instantiate" =>
                     \A m \in DOMAIN mods : mods'[m].dep \notin {None, mods[m].dep} =>
                                               SameContext(m, mods'[m].dep)
<1>1. ASSUME IndInv, [Next]_vars, stack # <<>>, Top.kind = "resolver", Asking.kind = "instantiate",
             NEW m \in DOMAIN mods, mods'[m].dep \notin {None, mods[m].dep}
      PROVE  SameContext(m, mods'[m].dep)
  <2>0. ~DepsStay
    BY <1>1 DEF DepsStay
  <2>1. mods' # mods
    BY <1>1
  <2>2. Top.kind \notin Script /\ Top.kind \notin Links
    BY <1>1 DEF Script, Links
  <2>3. ASSUME NEW r \in Realms, NEW imports \in BOOLEAN, Compile(r, imports) PROVE FALSE
    <3>1. PICK new : mods' = Append(mods, new)
      BY <2>3 DEF Compile
    <3>2. mods'[m] = mods[m]
      BY <1>1, <3>1, ModsAreRecords DEF IndInv
    <3> QED BY <1>1, <3>2
  <2>4. ASSUME NEW r \in Realms, Reset(r) PROVE FALSE
    <3>1. mods'[m] = IF mods[m].realm = r THEN [mods[m] EXCEPT !.registered = FALSE] ELSE mods[m]
      BY <1>1, <2>4 DEF Reset
    <3>2. mods[m] \in ModuleRecord
      BY <1>1, ModsAreRecords DEF IndInv
    <3> QED BY <1>1, <3>1, <3>2 DEF ModuleRecord
  <2>5. ASSUME NEW n \in DOMAIN mods, DisposeModule(n) PROVE FALSE
    <3>1. mods'[m] = IF m = n THEN [mods[m] EXCEPT !.registered = FALSE] ELSE mods[m]
      BY <1>1, <2>5 DEF DisposeModule
    <3>2. mods[m] \in ModuleRecord
      BY <1>1, ModsAreRecords DEF IndInv
    <3> QED BY <1>1, <3>1, <3>2 DEF ModuleRecord
  <2>6. ASSUME NEW n \in DOMAIN mods, Instantiate(n) \/ Evaluate(n) PROVE FALSE
    BY <1>1, <2>0, <2>1, <2>6, StatusKeepsDeps DEF IndInv, Instantiate, Evaluate
  <2>7. ASSUME NEW a \in DOMAIN mods, ImportLinks(a) \/ ImportEvaluates(a) PROVE FALSE
    BY <1>1, <2>7 DEF ImportLinks, ImportEvaluates, Answered
  <2>8. ASSUME NEW ok \in BOOLEAN, EndInstantiate(ok) \/ EndLink(ok) \/ EndScript(ok) PROVE FALSE
    BY <2>2, <2>8 DEF EndInstantiate, EndLink, EndScript, LinkEnds
  <2>9. ASSUME NEW a \in DOMAIN mods \cup {None}, ResolverAnswers(a)
        PROVE  SameContext(m, mods'[m].dep)
    BY <1>1, <2>9, AnswerIsHere
  <2>10. ASSUME NEW r \in Realms, NEW e, Import(r, e) \/ Eval(r) PROVE FALSE
    BY <2>1, <2>10 DEF Import, Eval
  <2>11. ASSUME NEW a, InstantiateInVain(a) \/ ImportRefused(a) PROVE FALSE
    BY <2>1, <2>11 DEF InstantiateInVain, ImportRefused
  <2>12. CASE AskResolver \/ ResolverRaises \/ CallHost \/ ReturnHost \/ Terminate
    BY <2>1, <2>12 DEF AskResolver, ResolverRaises, CallHost, ReturnHost, Terminate
  <2>13. CASE UNCHANGED vars
    BY <2>1, <2>13 DEF vars
  <2> QED BY <1>1, <2>3, <2>4, <2>5, <2>6, <2>7, <2>8, <2>9, <2>10, <2>11, <2>12, <2>13 DEF Next
<1>2. IndInv /\ [Next]_vars => [Here]_vars
  BY <1>1
<1>3. Spec => [][Here]_vars
  <2> HIDE DEF Here
  <2> QED BY <1>2, ModulesInvariant, PTL DEF Spec
<1> QED BY <1>3 DEF StaticImportsHere

-----------------------------------------------------------------------------
\* The instantiate requests on the stack are those there were.
SameCalls ==
  /\ \A k \in DOMAIN stack' : stack'[k].kind = "instantiate" =>
       \E j \in DOMAIN stack : /\ stack[j].kind = "instantiate"
                               /\ stack'[k].call = stack[j].call /\ stack'[k].saved = stack[j].saved
  /\ \A j \in DOMAIN stack : stack[j].kind = "instantiate" =>
       \E k \in DOMAIN stack' : stack'[k].kind = "instantiate" /\ stack'[k].call = stack[j].call

(* A step that cuts the stack to N frames and keeps instantiate requests.  *)
LEMMA CallsStay ==
  ASSUME IndInv, OwnInv, NEW N \in Nat, N <= Len(stack) + 1, NEW f, Becomes(N, f),
         N # 0 /\ f.kind = "instantiate" =>
            /\ N \in DOMAIN stack /\ stack[N].kind = "instantiate"
            /\ f.call = stack[N].call /\ f.saved = stack[N].saved,
         \A k \in DOMAIN stack : stack[k].kind = "instantiate" =>
            k < N \/ (k = N /\ f.kind = "instantiate"),
         N > 1 /\ f.kind = "resolver" => f.call = stack[N - 1].call
  PROVE  SameCalls /\ (StackInv' => ResolverIsOwn')
<1>1. /\ Len(stack) \in Nat /\ DOMAIN stack = 1 .. Len(stack)
      /\ DOMAIN stack' = 1 .. N
      /\ \A k \in 1 .. N - 1 : stack'[k] = stack[k]
      /\ N # 0 => stack'[N] = f
  BY StackIsSequence DEF IndInv, Becomes
<1>2. \A k \in 1 .. N : k = N \/ k \in 1 .. N - 1
  OBVIOUS
<1>3. \A k \in 1 .. N - 1 : k \in DOMAIN stack
  BY <1>1
<1>4. ASSUME NEW k \in DOMAIN stack', stack'[k].kind = "instantiate"
      PROVE  \E j \in DOMAIN stack :
               /\ stack[j].kind = "instantiate"
               /\ stack'[k].call = stack[j].call /\ stack'[k].saved = stack[j].saved
  <2>1. k \in 1 .. N /\ N # 0
    BY <1>1
  <2>2. CASE k = N
    BY <1>1, <1>4, <2>1, <2>2
  <2>3. CASE k \in 1 .. N - 1
    BY <1>1, <1>3, <1>4, <2>3
  <2> QED BY <1>2, <2>1, <2>2, <2>3
<1>5. ASSUME NEW j \in DOMAIN stack, stack[j].kind = "instantiate"
      PROVE  \E k \in DOMAIN stack' : stack'[k].kind = "instantiate" /\ stack'[k].call = stack[j].call
  <2>1. CASE j < N
    <3>1. j \in 1 .. N - 1 /\ j \in 1 .. N
      BY <1>1, <2>1
    <3> QED BY <1>1, <1>5, <3>1
  <2>2. CASE j = N /\ f.kind = "instantiate"
    <3>1. N # 0 /\ N \in 1 .. N
      BY <1>1, <2>2
    <3> QED BY <1>1, <1>5, <2>2, <3>1
  <2> QED BY <1>5, <2>1, <2>2
<1>6. ASSUME StackInv', NEW k \in DOMAIN stack', stack'[k].kind = "resolver"
      PROVE  stack'[k].call = stack'[k - 1].call
  <2>1. k # 1 /\ k \in 1 .. N
    <3>1. IF k = 1 THEN stack'[k].kind \in Request ELSE Follows(stack'[k - 1], stack'[k])
      BY <1>6 DEF StackInv
    <3> QED BY <1>1, <1>6, <3>1 DEF Request
  <2>2. k - 1 \in 1 .. N - 1 /\ N > 1 /\ stack'[k - 1] = stack[k - 1]
    BY <1>1, <2>1
  <2>3. CASE k = N
    BY <1>1, <1>6, <2>2, <2>3
  <2>4. CASE k \in 1 .. N - 1
    <3>1. k \in DOMAIN stack /\ stack'[k] = stack[k]
      BY <1>1, <1>3, <2>4
    <3> QED BY <1>6, <2>2, <3>1 DEF OwnInv, LinksAreOwn, ResolverIsOwn
  <2> QED BY <1>2, <2>1, <2>3, <2>4
<1> QED BY <1>4, <1>5, <1>6 DEF SameCalls, ResolverIsOwn

(* A step that keeps them and what is parked.                              *)
LEMMA OwnStays ==
  ASSUME OwnInv, SameCalls, ResolverIsOwn', UNCHANGED <<parked, parkedErr, reports, raised>>
  PROVE  OwnInv'
<1>1. ParkedInv'
  <2>1. ASSUME NEW k \in DOMAIN stack', stack'[k].kind = "instantiate"
        PROVE  /\ stack'[k].call = parked' /\ stack'[k].saved = <<None, None>>
               /\ parkedErr' = IF parked' \in raised' THEN parked' ELSE None
    <3>1. PICK j \in DOMAIN stack : /\ stack[j].kind = "instantiate"
                                    /\ stack'[k].call = stack[j].call
                                    /\ stack'[k].saved = stack[j].saved
      BY <2>1 DEF SameCalls
    <3> QED BY <3>1 DEF OwnInv, ParkedInv
  <2>2. ASSUME \A k \in DOMAIN stack' : stack'[k].kind # "instantiate"
        PROVE  parked' = None /\ parkedErr' = None
    <3>1. \A j \in DOMAIN stack : stack[j].kind # "instantiate"
      BY <2>2 DEF SameCalls
    <3> QED BY <3>1 DEF OwnInv, ParkedInv
  <2> QED BY <2>1, <2>2 DEF ParkedInv
<1>2. ErrorsAreOwn'
  <2>1. ASSUME NEW c \in DOMAIN reports,
               \A k \in DOMAIN stack' : stack'[k].kind = "instantiate" => stack'[k].call # c
        PROVE  reports[c] = IF c \in raised THEN c ELSE None
    <3>1. \A j \in DOMAIN stack : stack[j].kind = "instantiate" => stack[j].call # c
      BY <2>1 DEF SameCalls
    <3> QED BY <3>1 DEF OwnInv, LinksAreOwn, ErrorsAreOwn
  <2> QED BY <2>1 DEF ErrorsAreOwn
<1> QED BY <1>1, <1>2 DEF OwnInv, LinksAreOwn

(* A push of anything but an instantiate request, ...                      *)
LEMMA OwnPush ==
  ASSUME IndInv, OwnInv, StackInv', NEW f \in FrameRecord, stack' = Append(stack, f),
         f.kind # "instantiate", f.kind = "resolver" => f.call = Top.call,
         UNCHANGED <<parked, parkedErr, reports, raised>>
  PROVE  OwnInv'
<1>1. PICK L \in Nat : L = Len(stack) /\ DOMAIN stack = 1 .. L
  BY StackIsSequence DEF IndInv
<1>2. L + 1 \in Nat /\ L + 1 <= Len(stack) + 1 /\ Becomes(L + 1, f) /\ (L + 1) - 1 = L
  <2>1. Becomes(L + 1, f)
    BY <1>1, Pushed DEF IndInv
  <2>2. L + 1 \in Nat /\ L + 1 <= Len(stack) + 1 /\ (L + 1) - 1 = L
    BY <1>1
  <2> QED BY <2>1, <2>2
<1>3. \A k \in DOMAIN stack : k < L + 1
  BY <1>1
<1>4. Top = stack[L]
  BY <1>1 DEF Top
<1> QED BY <1>2, <1>3, <1>4, CallsStay, OwnStays

(* ... a pop of anything but one, ...                                      *)
LEMMA OwnPop ==
  ASSUME IndInv, OwnInv, StackInv', stack # <<>>, Top.kind # "instantiate", stack' = Pop,
         UNCHANGED <<parked, parkedErr, reports, raised>>
  PROVE  OwnInv'
<1>1. PICK L \in Nat : L + 1 = Len(stack) /\ DOMAIN stack = 1 .. L + 1
  <2>1. PICK K \in Nat \ {0} : K = Len(stack) /\ DOMAIN stack = 1 .. K
    BY StackIsSequence DEF IndInv
  <2>2. K - 1 \in Nat /\ (K - 1) + 1 = K
    BY <2>1
  <2> QED BY <2>1, <2>2
<1>2. L <= Len(stack) + 1 /\ Len(stack) - 1 = L
  BY <1>1
<1>3. Becomes(L, stack[L])
  BY <1>2, Popped DEF IndInv
<1>4. L # 0 => L \in DOMAIN stack
  BY <1>1
<1>5. \A k \in DOMAIN stack : stack[k].kind = "instantiate" =>
         k < L \/ (k = L /\ stack[L].kind = "instantiate")
  <2>1. \A k \in 1 .. L + 1 : k = L + 1 \/ k = L \/ k < L
    OBVIOUS
  <2>2. stack[L + 1].kind # "instantiate"
    BY <1>1 DEF Top
  <2> QED BY <1>1, <2>1, <2>2
<1>6. L > 1 /\ stack[L].kind = "resolver" => stack[L].call = stack[L - 1].call
  <2>1. L > 1 => L \in DOMAIN stack
    BY <1>1
  <2> QED BY <2>1 DEF OwnInv, LinksAreOwn, ResolverIsOwn
<1>7. SameCalls /\ ResolverIsOwn'
  BY <1>2, <1>3, <1>4, <1>5, <1>6, CallsStay
<1> QED BY <1>7, OwnStays

(* ... and a frame that makes way leave all that to the instantiate.       *)
LEMMA OwnReplace ==
  ASSUME IndInv, OwnInv, StackInv', stack # <<>>, Top.kind # "instantiate",
         NEW f \in FrameRecord, f.kind \notin {"instantiate", "resolver"}, stack' = Replace(f),
         UNCHANGED <<parked, parkedErr, reports, raised>>
  PROVE  OwnInv'
<1>1. PICK L \in Nat \ {0} : L = Len(stack) /\ DOMAIN stack = 1 .. L
  BY StackIsSequence DEF IndInv
<1>2. L \in Nat /\ L <= Len(stack) + 1
  BY <1>1
<1>3. Becomes(L, f)
  BY <1>1, Replaced DEF IndInv
<1>4. \A k \in DOMAIN stack : stack[k].kind = "instantiate" => k < L
  <2>1. stack[L].kind # "instantiate"
    BY <1>1 DEF Top
  <2>2. \A k \in 1 .. L : k = L \/ k < L
    OBVIOUS
  <2> QED BY <1>1, <2>1, <2>2
<1>5. SameCalls /\ ResolverIsOwn'
  BY <1>2, <1>3, <1>4, CallsStay
<1> QED BY <1>5, OwnStays

(* A step that leaves the stack alone, too.                                *)
LEMMA OwnStay ==
  ASSUME OwnInv, UNCHANGED <<stack, parked, parkedErr, reports, raised>>
  PROVE  OwnInv'
BY DEF OwnInv, ParkedInv, LinksAreOwn, ResolverIsOwn, ErrorsAreOwn

(* The block parked is that of the link there is.                          *)
LEMMA LinkParks ==
  ASSUME IndInv, OwnInv, NEW k \in DOMAIN stack, stack[k].kind \in Links
  PROVE  stack[k].call = parked
<1>1. CASE stack[k].kind = "instantiate"
  BY <1>1 DEF OwnInv, ParkedInv
<1>2. CASE stack[k].kind = "link"
  <2>1. stack[k].call = None
    BY <1>2 DEF IndInv, StackInv, FrameOK
  <2>2. ASSUME NEW j \in DOMAIN stack, stack[j].kind = "instantiate" PROVE FALSE
    <3>1. j \in LinksOnStack /\ k \in LinksOnStack
      BY <2>2 DEF LinksOnStack, Links
    <3> QED BY <1>2, <2>2, <3>1 DEF IndInv, LinkInv
  <2>3. parked = None
    BY <2>2 DEF OwnInv, ParkedInv
  <2> QED BY <2>1, <2>3
<1> QED BY <1>1, <1>2 DEF Links

(* An instantiate parks its block where none is parked.                    *)
LEMMA InstantiateOwns ==
  ASSUME IndInv, OwnInv, IndInv', NEW m \in DOMAIN mods, Instantiate(m)
  PROVE  OwnInv'
<1>1. /\ ~instantiating /\ reports' = Append(reports, None)
      /\ parked' = Len(reports') /\ parkedErr' = None /\ UNCHANGED raised
      /\ stack' = Append(stack,
                [Frame("instantiate", mods[m].realm, m, None) EXCEPT
                   !.call = Len(reports'), !.at = Next_(m), !.epoch = mods[m].epoch,
                   !.saved = <<parked, parkedErr>>])
  BY DEF Instantiate, MayLink
<1>2. \A k \in DOMAIN stack : stack[k].kind \notin Links
  BY <1>1 DEF IndInv, LinkInv, LinksOnStack
<1>3. parked = None /\ parkedErr = None
  <2>1. \A k \in DOMAIN stack : stack[k].kind # "instantiate"
    BY <1>2 DEF Links
  <2> QED BY <2>1 DEF OwnInv, ParkedInv
<1>4. PICK f : f = [Frame("instantiate", mods[m].realm, m, None) EXCEPT
                      !.call = Len(reports'), !.at = Next_(m), !.epoch = mods[m].epoch,
                      !.saved = <<parked, parkedErr>>]
  OBVIOUS
<1>5. f.kind = "instantiate" /\ f.call = Len(reports') /\ f.saved = <<parked, parkedErr>>
  BY <1>4 DEF Frame
<1>6. /\ reports \in Seq(Nat \cup {Interrupted}) /\ None \in Nat \cup {Interrupted}
      /\ raised \subseteq 1 .. Len(reports)
  BY DEF IndInv, CallsInv, None
<1>7. PICK nr \in Nat : nr = Len(reports)
  BY <1>6
<1>8. /\ Len(reports') = nr + 1 /\ DOMAIN reports' = 1 .. nr + 1 /\ DOMAIN reports = 1 .. nr
      /\ \A c \in 1 .. nr : reports'[c] = reports[c]
  BY <1>1, <1>6, <1>7, Longer
<1>9. PICK L \in Nat : L = Len(stack) /\ DOMAIN stack = 1 .. L
  BY StackIsSequence DEF IndInv
<1>10. /\ DOMAIN stack' = 1 .. L + 1 /\ stack'[L + 1] = f
       /\ \A k \in 1 .. L : stack'[k] = stack[k]
  <2>1. stack \in Seq(FrameRecord) /\ stack' = Append(stack, f)
    BY <1>1, <1>4, StackIsSequence DEF IndInv
  <2> QED BY <1>9, <2>1
<1>11. \A k \in 1 .. L + 1 : k = L + 1 \/ k \in 1 .. L
  OBVIOUS
<1>12. \A k \in DOMAIN stack' : stack'[k].kind = "instantiate" => k = L + 1
  BY <1>2, <1>9, <1>10, <1>11 DEF Links
<1>13. nr + 1 \notin raised
  BY <1>6, <1>7
<1>14. ParkedInv'
  <2>1. L + 1 \in DOMAIN stack'
    BY <1>10
  <2>2. parked' = nr + 1 /\ parkedErr' = None /\ raised' = raised
    BY <1>1, <1>8
  <2> QED BY <1>3, <1>5, <1>8, <1>10, <1>12, <1>13, <2>1, <2>2 DEF ParkedInv
<1>15. ErrorsAreOwn'
  <2>1. ASSUME NEW c \in 1 .. nr + 1,
               \A k \in DOMAIN stack' : stack'[k].kind = "instantiate" => stack'[k].call # c
        PROVE  reports'[c] = IF c \in raised THEN c ELSE None
    <3>1. L + 1 \in DOMAIN stack'
      BY <1>10
    <3>2. c # nr + 1
      BY <1>5, <1>8, <1>10, <2>1, <3>1
    <3>3. c \in 1 .. nr
      BY <3>2
    <3>4. reports[c] = IF c \in raised THEN c ELSE None
      BY <1>2, <1>8, <3>3 DEF OwnInv, LinksAreOwn, ErrorsAreOwn, Links
    <3> QED BY <1>8, <3>3, <3>4
  <2> QED BY <1>1, <1>8, <2>1 DEF ErrorsAreOwn
<1>16. ResolverIsOwn'
  <2>1. ASSUME NEW k \in DOMAIN stack', stack'[k].kind = "resolver"
        PROVE  stack'[k].call = stack'[k - 1].call
    <3>1. k \in 1 .. L /\ stack'[k] = stack[k]
      BY <1>5, <1>10, <1>11, <2>1
    <3>2. Follows(stack[k - 1], stack[k])
      BY <1>9, <2>1, <3>1 DEF IndInv, StackInv, Request
    <3>3. k # 1
      BY <1>9, <2>1, <3>1 DEF IndInv, StackInv, Request
    <3>4. k - 1 \in 1 .. L /\ stack'[k - 1] = stack[k - 1]
      BY <1>10, <3>1, <3>3
    <3> QED BY <1>9, <2>1, <3>1, <3>4 DEF OwnInv, LinksAreOwn, ResolverIsOwn
  <2> QED BY <2>1 DEF ResolverIsOwn
<1> QED BY <1>14, <1>15, <1>16 DEF OwnInv, LinksAreOwn

(* One that links nothing has nothing to raise.                            *)
LEMMA InVainOwns ==
  ASSUME IndInv, OwnInv, Interrupts \subseteq {FALSE}, NEW m \in DOMAIN mods, InstantiateInVain(m)
  PROVE  OwnInv'
<1>1. /\ reports' = Append(reports, None)
      /\ UNCHANGED <<stack, parked, parkedErr, raised>>
  BY DEF InstantiateInVain
<1>2. /\ reports \in Seq(Nat \cup {Interrupted}) /\ None \in Nat \cup {Interrupted}
      /\ raised \subseteq 1 .. Len(reports)
  BY DEF IndInv, CallsInv, None
<1>3. PICK nr \in Nat : nr = Len(reports)
  BY <1>2
<1>4. /\ DOMAIN reports' = 1 .. nr + 1 /\ DOMAIN reports = 1 .. nr /\ reports'[nr + 1] = None
      /\ \A c \in 1 .. nr : reports'[c] = reports[c]
  BY <1>1, <1>2, <1>3, Longer
<1>5. nr + 1 \notin raised
  BY <1>2, <1>3
<1>6. \A c \in 1 .. nr + 1 : c = nr + 1 \/ c \in 1 .. nr
  OBVIOUS
<1>7. ErrorsAreOwn'
  <2>1. ASSUME NEW c \in 1 .. nr + 1,
               \A k \in DOMAIN stack : stack[k].kind = "instantiate" => stack[k].call # c
        PROVE  reports'[c] = IF c \in raised THEN c ELSE None
    <3>1. CASE c = nr + 1
      BY <1>4, <1>5, <3>1
    <3>2. CASE c \in 1 .. nr
      <4>1. reports[c] = IF c \in raised THEN c ELSE None
        BY <1>4, <2>1, <3>2 DEF OwnInv, LinksAreOwn, ErrorsAreOwn
      <4> QED BY <1>4, <3>2, <4>1
    <3> QED BY <1>6, <3>1, <3>2
  <2> QED BY <1>1, <1>4, <2>1 DEF ErrorsAreOwn
<1>8. ParkedInv' /\ ResolverIsOwn'
  BY <1>1 DEF OwnInv, ParkedInv, LinksAreOwn, ResolverIsOwn
<1> QED BY <1>7, <1>8 DEF OwnInv, LinksAreOwn

(* The end of one raises its own, and parks nothing again.                 *)
LEMMA EndInstantiateOwns ==
  ASSUME IndInv, OwnInv, IndInv', Interrupts \subseteq {FALSE}, NEW ok \in BOOLEAN, EndInstantiate(ok)
  PROVE  OwnInv'
<1>1. /\ stack # <<>> /\ Top.kind = "instantiate" /\ stack' = Pop /\ UNCHANGED raised
      /\ reports' = [reports EXCEPT ![Top.call] = parkedErr]
      /\ parked' = Top.saved[1] /\ parkedErr' = Top.saved[2]
  BY DEF EndInstantiate, LinkEnds
<1>2. PICK L \in Nat : L + 1 = Len(stack) /\ DOMAIN stack = 1 .. L + 1
  <2>1. PICK K \in Nat \ {0} : K = Len(stack) /\ DOMAIN stack = 1 .. K
    BY <1>1, StackIsSequence DEF IndInv
  <2>2. K - 1 \in Nat /\ (K - 1) + 1 = K
    BY <2>1
  <2> QED BY <2>1, <2>2
<1>3. L + 1 \in DOMAIN stack /\ Top = stack[L + 1]
  BY <1>2 DEF Top
<1>4. \A k \in DOMAIN stack : stack[k].kind \in Links => k = L + 1
  BY <1>1, <1>3 DEF IndInv, LinkInv, LinksOnStack, Links
<1>5. /\ Top.call = parked /\ Top.saved = <<None, None>>
      /\ parkedErr = IF parked \in raised THEN parked ELSE None
  BY <1>1, <1>3 DEF OwnInv, ParkedInv
<1>6. Becomes(L, stack[L])
  <2>1. Len(stack) - 1 = L
    BY <1>2
  <2> QED BY <1>1, <2>1, Popped DEF IndInv
<1>7. /\ DOMAIN stack' = 1 .. L /\ \A k \in 1 .. L : stack'[k] = stack[k]
  <2>1. /\ stack' \in Seq(FrameRecord) /\ Len(stack') = L
        /\ \A k \in 1 .. L - 1 : stack'[k] = stack[k]
        /\ L # 0 => stack'[L] = stack[L]
    BY <1>6 DEF Becomes
  <2>2. \A k \in 1 .. L : (k = L /\ L # 0) \/ k \in 1 .. L - 1
    OBVIOUS
  <2> QED BY <2>1, <2>2
<1>8. \A k \in DOMAIN stack' : k \in DOMAIN stack /\ k # L + 1
  BY <1>2, <1>7
<1>9. \A k \in DOMAIN stack' : stack'[k].kind \notin Links
  BY <1>4, <1>7, <1>8
<1>10. ParkedInv'
  <2>1. parked' = None /\ parkedErr' = None
    BY <1>1, <1>5
  <2> QED BY <1>9, <2>1 DEF ParkedInv, Links
<1>11. ResolverIsOwn'
  <2>1. ASSUME NEW k \in DOMAIN stack', stack'[k].kind = "resolver" PROVE FALSE
    <3>1. k \in DOMAIN stack /\ stack[k].kind = "resolver" /\ k \in 1 .. L
      BY <1>7, <1>8, <2>1
    <3>2. k # 1 /\ Follows(stack[k - 1], stack[k])
      BY <3>1 DEF IndInv, StackInv, Request
    <3>3. k - 1 \in 1 .. L
      BY <3>1, <3>2
    <3>4. stack[k - 1].kind \in Links
      BY <3>1, <3>2 DEF Follows
    <3> QED BY <1>7, <1>9, <3>3, <3>4
  <2> QED BY <2>1 DEF ResolverIsOwn
<1>12. ErrorsAreOwn'
  <2>1. DOMAIN reports' = DOMAIN reports
    BY <1>1
  <2>2. ASSUME NEW c \in DOMAIN reports
        PROVE  reports'[c] = IF c \in raised THEN c ELSE None
    <3>1. reports'[c] = IF c = parked THEN parkedErr ELSE reports[c]
      BY <1>1, <1>5, <2>1
    <3>2. ASSUME c # parked PROVE reports[c] = IF c \in raised THEN c ELSE None
      <4>1. \A k \in DOMAIN stack : stack[k].kind = "instantiate" => stack[k].call # c
        BY <1>3, <1>4, <1>5, <3>2 DEF Links
      <4> QED BY <4>1 DEF OwnInv, LinksAreOwn, ErrorsAreOwn
    <3> QED BY <1>5, <3>1, <3>2
  <2> QED BY <1>1, <2>1, <2>2 DEF ErrorsAreOwn
<1> QED BY <1>10, <1>11, <1>12 DEF OwnInv, LinksAreOwn

(* The calls of the links stay as a resolver is done with.                 *)
LEMMA GoOnOwns ==
  ASSUME IndInv, OwnInv, IndInv', stack # <<>>, Top.kind = "resolver", NEW n \in Nat \cup {Failed},
         stack' = LinkGoesOn(n)
  PROVE  SameCalls /\ ResolverIsOwn'
<1>1. PICK L \in Nat : L # 0 /\ L + 1 = Len(stack) /\ DOMAIN stack = 1 .. L + 1
  <2>1. PICK K \in Nat : K = Len(stack) /\ DOMAIN stack = 1 .. K
    BY StackIsSequence DEF IndInv
  <2>2. K > 1
    BY <2>1, TopHolds DEF Request
  <2>3. K - 1 \in Nat /\ (K - 1) + 1 = K /\ K - 1 # 0
    BY <2>1, <2>2
  <2> QED BY <2>1, <2>3
<1>2. Len(stack) - 1 = L /\ L \in 1 .. L + 1 /\ Len(stack) > 1 /\ L <= Len(stack) + 1
  BY <1>1
<1>3. /\ Asking.kind \in Links /\ Asking \in FrameRecord /\ Asking = stack[L]
  BY <1>2, AskingHolds
<1>4. PICK f : f = [Asking EXCEPT !.at = n]
  OBVIOUS
<1>5. Becomes(L, f)
  BY <1>2, <1>4, GoneOn DEF IndInv, Asking
<1>6. f.kind = stack[L].kind /\ f.call = stack[L].call /\ f.saved = stack[L].saved /\ f.kind # "resolver"
  BY <1>3, <1>4 DEF FrameRecord, Links
<1>7. \A k \in DOMAIN stack : stack[k].kind = "instantiate" =>
         k < L \/ (k = L /\ f.kind = "instantiate")
  <2>1. \A k \in 1 .. L + 1 : k = L + 1 \/ k = L \/ k < L
    OBVIOUS
  <2>2. stack[L + 1].kind # "instantiate"
    BY <1>1 DEF Top
  <2> QED BY <1>1, <1>6, <2>1, <2>2
<1>8. L \in DOMAIN stack /\ StackInv'
  BY <1>1, <1>2 DEF IndInv
<1> QED BY <1>2, <1>5, <1>6, <1>7, <1>8, CallsStay

(* The exception of a block goes to the instantiate that was given it.     *)
LEMMA RaisesOwns ==
  ASSUME IndInv, OwnInv, IndInv', ResolverRaises
  PROVE  OwnInv'
<1>1. /\ stack # <<>> /\ Top.kind = "resolver" /\ stack' = LinkGoesOn(Failed)
      /\ parkedErr' = IF Top.call # None THEN Top.call ELSE parkedErr
      /\ raised' = raised \cup ({Asking.call} \ {None})
      /\ UNCHANGED <<parked, reports>>
  BY DEF ResolverRaises
<1>2. SameCalls /\ ResolverIsOwn'
  BY <1>1, GoOnOwns
<1>3. PICK q \in DOMAIN stack : Asking = stack[q] /\ stack[q].kind \in Links
  BY <1>1, AskingHolds
<1>4. Top.call = Asking.call
  <2>1. Len(stack) \in DOMAIN stack /\ Top = stack[Len(stack)]
    BY <1>1, TopHolds
  <2> QED BY <1>1, <2>1 DEF OwnInv, LinksAreOwn, ResolverIsOwn, Asking
<1>5. Asking.call = parked
  BY <1>3, LinkParks
<1>6. raised' = raised \cup ({parked} \ {None})
      /\ parkedErr' = IF parked # None THEN parked ELSE parkedErr
  BY <1>1, <1>4, <1>5
<1>7. \A k \in DOMAIN stack : stack[k].kind = "instantiate" =>
         stack[k].call = parked /\ parked # None /\ stack[k].saved = <<None, None>>
  BY DEF OwnInv, ParkedInv, IndInv, StackInv, FrameOK
<1>8. ParkedInv'
  <2>1. ASSUME NEW k \in DOMAIN stack', stack'[k].kind = "instantiate"
        PROVE  /\ stack'[k].call = parked' /\ stack'[k].saved = <<None, None>>
               /\ parkedErr' = IF parked' \in raised' THEN parked' ELSE None
    <3>1. PICK j \in DOMAIN stack : /\ stack[j].kind = "instantiate"
                                    /\ stack'[k].call = stack[j].call
                                    /\ stack'[k].saved = stack[j].saved
      BY <1>2, <2>1 DEF SameCalls
    <3> QED BY <1>1, <1>6, <1>7, <3>1
  <2>2. ASSUME \A k \in DOMAIN stack' : stack'[k].kind # "instantiate"
        PROVE  parked' = None /\ parkedErr' = None
    <3>1. \A j \in DOMAIN stack : stack[j].kind # "instantiate"
      BY <1>2, <2>2 DEF SameCalls
    <3>2. parked = None /\ parkedErr = None
      BY <3>1 DEF OwnInv, ParkedInv
    <3> QED BY <1>1, <1>6, <3>2
  <2> QED BY <2>1, <2>2 DEF ParkedInv
<1>9. ErrorsAreOwn'
  <2>1. ASSUME NEW c \in DOMAIN reports,
               \A k \in DOMAIN stack' : stack'[k].kind = "instantiate" => stack'[k].call # c
        PROVE  reports[c] = IF c \in raised' THEN c ELSE None
    <3>1. \A j \in DOMAIN stack : stack[j].kind = "instantiate" => stack[j].call # c
      BY <1>2, <2>1 DEF SameCalls
    <3>2. reports[c] = IF c \in raised THEN c ELSE None
      BY <3>1 DEF OwnInv, LinksAreOwn, ErrorsAreOwn
    <3>3. parked # None => parked # c
      <4>1. ASSUME parked # None PROVE \E j \in DOMAIN stack : stack[j].kind = "instantiate"
        BY <4>1 DEF OwnInv, ParkedInv
      <4> QED BY <1>7, <3>1, <4>1
    <3> QED BY <1>6, <3>2, <3>3
  <2> QED BY <1>1, <2>1 DEF ErrorsAreOwn
<1> QED BY <1>2, <1>8, <1>9 DEF OwnInv, LinksAreOwn

(* Every step keeps them apart.                                            *)
LEMMA OwnInvStep ==
  ASSUME IndInv, OwnInv, IndInv', Interrupts \subseteq {FALSE}, [Next]_vars
  PROVE  OwnInv'
<1>1. StackInv'
  BY DEF IndInv
<1>2. ASSUME NEW r \in Realms, NEW imports \in BOOLEAN, Compile(r, imports) PROVE OwnInv'
  BY <1>2, OwnStay DEF Compile
<1>3. ASSUME NEW r \in Realms, Reset(r) PROVE OwnInv'
  BY <1>3, OwnStay DEF Reset
<1>4. ASSUME NEW r \in Realms, Eval(r) PROVE OwnInv'
  <2>1. PICK f : f = Frame("eval", r, None, None)
    OBVIOUS
  <2>2. f.kind = "eval" /\ f \in FrameRecord
    <3>1. "eval" \in Ruby \cup Script \cup Links /\ None \in Nat
      BY DEF Script, None
    <3> QED BY <2>1, <3>1, NewFrame
  <2>3. stack' = Append(stack, f) /\ UNCHANGED <<parked, parkedErr, reports, raised>>
    BY <1>4, <2>1 DEF Eval
  <2> QED BY <1>1, <2>2, <2>3, OwnPush
<1>5. ASSUME NEW r \in Realms, NEW e \in Nat, Import(r, e) PROVE OwnInv'
  <2>1. PICK g : g = Frame("importer", r, None, Len(promises'))
    OBVIOUS
  <2>2. Len(promises') \in Nat
    BY DEF IndInv, PromisesInv
  <2>3. g.kind = "importer" /\ g \in FrameRecord
    <3>1. "importer" \in Ruby \cup Script \cup Links /\ None \in Nat
      BY DEF Ruby, None
    <3> QED BY <2>1, <2>2, <3>1, NewFrame
  <2>4. PICK f : f = [g EXCEPT !.epoch = e]
    OBVIOUS
  <2>5. f \in FrameRecord /\ f.kind = "importer"
    BY <2>3, <2>4 DEF FrameRecord
  <2>6. stack' = Append(stack, f) /\ UNCHANGED <<parked, parkedErr, reports, raised>>
    BY <1>5, <2>1, <2>4 DEF Import
  <2> QED BY <1>1, <2>5, <2>6, OwnPush
<1>6. ASSUME NEW m \in DOMAIN mods, DisposeModule(m) PROVE OwnInv'
  BY <1>6, OwnStay DEF DisposeModule
<1>7. ASSUME NEW m \in DOMAIN mods, Instantiate(m) PROVE OwnInv'
  BY <1>7, InstantiateOwns
<1>8. ASSUME NEW m \in DOMAIN mods, InstantiateInVain(m) PROVE OwnInv'
  BY <1>8, InVainOwns
<1>9. ASSUME NEW m \in DOMAIN mods, Evaluate(m) PROVE OwnInv'
  <2>1. PICK f : f = Frame("evaluate", mods[m].realm, m, None)
    OBVIOUS
  <2>2. mods[m].realm \in Realms /\ m \in Nat
    <3>1. mods[m] \in ModuleRecord /\ m \in Nat
      BY ModsAreRecords DEF IndInv
    <3> QED BY <3>1 DEF ModuleRecord
  <2>3. f.kind = "evaluate" /\ f \in FrameRecord
    <3>1. "evaluate" \in Ruby \cup Script \cup Links /\ None \in Nat
      BY DEF Script, None
    <3> QED BY <2>1, <2>2, <3>1, NewFrame
  <2>4. stack' = Append(stack, f) /\ UNCHANGED <<parked, parkedErr, reports, raised>>
    BY <1>9, <2>1 DEF Evaluate
  <2> QED BY <1>1, <2>3, <2>4, OwnPush
<1>10. ASSUME NEW a \in DOMAIN mods \cup {None}, ResolverAnswers(a) PROVE OwnInv'
  <2>1. stack # <<>> /\ Top.kind = "resolver" /\ UNCHANGED <<parked, parkedErr, reports, raised>>
    BY <1>10 DEF ResolverAnswers
  <2>2. PICK n \in Nat \cup {Failed} : stack' = LinkGoesOn(n)
    <3>1. a \in Nat /\ None \in Nat
      BY ModsAreRecords DEF IndInv, None
    <3> QED BY <1>10, <3>1 DEF ResolverAnswers, Next_
  <2> QED BY <2>1, <2>2, GoOnOwns, OwnStays
<1>11. ASSUME NEW a \in DOMAIN mods \cup {None}, ImportRefused(a) PROVE OwnInv'
  BY <1>1, <1>11, OwnPop DEF ImportRefused, Settle
<1>12. ASSUME NEW a \in DOMAIN mods, ImportLinks(a) PROVE OwnInv'
  <2>1. /\ stack # <<>> /\ Top.kind = "importer" /\ UNCHANGED <<parked, parkedErr, reports, raised>>
        /\ stack' = Replace([Frame("link", NoRealm, a, Top.promise) EXCEPT
                               !.at = Next_(a), !.epoch = Top.epoch])
        /\ mods' = SetStatus({a}, Linking) /\ UNCHANGED <<epoch, promises>>
    BY <1>12 DEF ImportLinks, Answered
  <2>2. Top.kind \in Importing
    BY <2>1 DEF Importing
  <2>3. Grows
    <3>1. Rewritten(mods')
      BY <2>1, StatusRewrites DEF IndInv, Statuses
    <3> QED BY <2>1, <3>1, SameGrows
  <2>4. PICK f : stack' = Replace(f) /\ f \in FrameRecord /\ f.kind = "link"
    BY <2>1, <2>2, <2>3, LinkHolds
  <2> QED BY <1>1, <2>1, <2>4, OwnReplace
<1>13. ASSUME NEW a \in DOMAIN mods, ImportEvaluates(a) PROVE OwnInv'
  <2>1. /\ stack # <<>> /\ Top.kind = "importer"
        /\ UNCHANGED <<parked, parkedErr, reports, raised, epoch>>
    BY <1>13 DEF ImportEvaluates, Answered
  <2>2. Top.kind \in Importing
    BY <2>1 DEF Importing
  <2>3. CASE stack' = Replace(EvaluateBody(a, Top)) /\ mods' = SetStatus({a}, Evaluating)
             /\ UNCHANGED promises
    <3>1. Rewritten(mods')
      BY <2>3, StatusRewrites DEF IndInv, Statuses
    <3>2. Grows
      BY <2>1, <2>3, <3>1, SameGrows
    <3>3. PICK f : stack' = Replace(f) /\ f \in FrameRecord /\ f.kind = "body"
      BY <2>1, <2>2, <2>3, <3>2, BodyHolds
    <3> QED BY <1>1, <2>1, <3>3, OwnReplace
  <2>4. CASE Settle("chained")
    BY <1>1, <2>1, <2>4, OwnPop DEF Settle
  <2> QED BY <1>13, <2>3, <2>4 DEF ImportEvaluates
<1>14. ASSUME NEW ok \in BOOLEAN, EndInstantiate(ok) PROVE OwnInv'
  BY <1>14, EndInstantiateOwns
<1>15. ASSUME NEW ok \in BOOLEAN, EndLink(ok) PROVE OwnInv'
  <2>1. /\ stack # <<>> /\ Top.kind = "link"
        /\ UNCHANGED <<parked, parkedErr, reports, raised>>
    BY <1>15 DEF EndLink, LinkEnds
  <2>2. /\ Top.module \in Nat /\ Top.promise \in Nat /\ Top.epoch \in Nat
    BY <2>1, TopHolds DEF FrameRecord
  <2>3. CASE stack' = Replace(EvaluateBody(Top.module, Top))
    <3>1. PICK g : g = Frame("body", NoRealm, Top.module, Top.promise)
      OBVIOUS
    <3>2. g \in FrameRecord /\ g.kind = "body"
      BY <2>2, <3>1 DEF Frame, FrameRecord, Script, None
    <3>3. PICK f : f = [g EXCEPT !.epoch = Top.epoch]
      OBVIOUS
    <3>4. f \in FrameRecord /\ f.kind = "body" /\ stack' = Replace(f)
      BY <2>2, <2>3, <3>1, <3>2, <3>3 DEF FrameRecord, EvaluateBody
    <3> QED BY <1>1, <2>1, <3>4, OwnReplace
  <2>4. CASE stack' = Pop
    BY <1>1, <2>1, <2>4, OwnPop
  <2> QED BY <1>15, <2>3, <2>4 DEF EndLink, Settle
<1>16. ASSUME NEW ok \in BOOLEAN, EndScript(ok) PROVE OwnInv'
  <2>1. /\ stack # <<>> /\ Top.kind # "instantiate" /\ stack' = Pop
        /\ UNCHANGED <<parked, parkedErr, reports, raised>>
    BY <1>16 DEF EndScript, Settle, Script
  <2> QED BY <1>1, <2>1, OwnPop
<1>17. CASE AskResolver
  <2>1. /\ Top.kind \in Links /\ stack # <<>> /\ UNCHANGED <<parked, parkedErr, reports, raised>>
    BY <1>17 DEF AskResolver
  <2>2. PICK f \in FrameRecord : stack' = Append(stack, f) /\ f.kind = "resolver" /\ f.call = parked
    BY <1>17, AskKeeps
  <2>3. Top.call = parked
    BY <2>1, TopHolds, LinkParks
  <2> QED BY <1>1, <2>1, <2>2, <2>3, OwnPush
<1>18. CASE ResolverRaises
  BY <1>18, RaisesOwns
<1>19. CASE CallHost
  <2>1. PICK f : f = Frame("callback", NoRealm, None, None)
    OBVIOUS
  <2>2. f.kind = "callback" /\ f \in FrameRecord
    BY <2>1 DEF Frame, FrameRecord, Ruby, None
  <2>3. stack' = Append(stack, f) /\ UNCHANGED <<parked, parkedErr, reports, raised>>
    BY <1>19, <2>1 DEF CallHost
  <2> QED BY <1>1, <2>2, <2>3, OwnPush
<1>20. CASE ReturnHost
  BY <1>1, <1>20, OwnPop DEF ReturnHost
<1>21. CASE Terminate
  BY <1>21, OwnStay DEF Terminate
<1>22. CASE UNCHANGED vars
  BY <1>22, OwnStay DEF vars
<1>23. \A e \in 0 .. MaxResets : e \in Nat
  BY BoundsAssumption
<1> QED BY <1>2, <1>3, <1>4, <1>5, <1>6, <1>7, <1>8, <1>9, <1>10, <1>11, <1>12, <1>13, <1>14,
           <1>15, <1>16, <1>17, <1>18, <1>19, <1>20, <1>21, <1>22, <1>23 DEF Next

(* Where no interrupt arrives as instantiate_module returns, every import  *)
(* met while linking goes to the block given to that instantiate, and that *)
(* block's exception, no other, is what the instantiate raises: a nested,  *)
(* refused or failed one leaves nothing of its own behind.  With interrupts*)
(* the pair that was parked is not put back.                               *)
THEOREM LinksKeepApart ==
  ASSUME Interrupts \subseteq {FALSE}
  PROVE  Spec => []LinksAreOwn
<1>1. Init => OwnInv
  <2>1. ASSUME Init PROVE OwnInv
    <3>1. stack = <<>> /\ reports = <<>> /\ parked = None /\ parkedErr = None
      BY <2>1 DEF Init
    <3>2. DOMAIN stack = {} /\ DOMAIN reports = {}
      BY <3>1
    <3> QED BY <3>1, <3>2 DEF OwnInv, ParkedInv, LinksAreOwn, ResolverIsOwn, ErrorsAreOwn
  <2> QED BY <2>1
<1>2. IndInv /\ OwnInv /\ IndInv' /\ [Next]_vars => OwnInv'
  BY OwnInvStep
<1>3. OwnInv => LinksAreOwn
  BY DEF OwnInv
<1> QED BY <1>1, <1>2, <1>3, ModulesInvariant, PTL DEF Spec
=============================================================================
