--------------------------- MODULE OpStackProofs ---------------------------
(***************************************************************************)
(* OpStack for every set of isolates and Fibers: the operation whose       *)
(* JavaScript runs is the innermost one of its isolate, and that isolate   *)
(* is current on the thread unless a Fiber was suspended in a callback;    *)
(* the operations of an isolate end in the reverse of their order, and     *)
(* every isolate that cannot be destroyed is counted.                      *)
(***************************************************************************)
EXTENDS OpStack, SequenceTheorems, FiniteSetTheorems, TLAPS

(* The part of TypeOK the nesting argument rests on.                       *)
NestTypeOK ==
  /\ stack \in [Fibers -> Seq(Frame)]
  /\ running \in Fibers
  /\ resumer \in [Fibers -> Fibers \cup {NoFiber}]
  /\ depth \in [Isolates -> Nat]

\* Operations and callbacks alternate, and a callback notes a depth of one more
\* than its operation started at: nothing else is between them on the isolate.
Alternation ==
  \A f \in Fibers : \A k \in DOMAIN stack[f] :
     /\ stack[f][k].kind = "callback" =>
          /\ k > 1
          /\ OpOn(stack[f][k].iso, f, k - 1)
          /\ stack[f][k].depth = stack[f][k-1].depth + 1
     /\ stack[f][k].kind = "op" /\ k > 1 => stack[f][k-1].kind = "callback"

\* A Fiber switches only while it is in Ruby.
OthersInRuby == \A f \in Fibers \ {running} : InRuby(f)

\* Where JavaScript runs, no operation of its isolate started after its own.
TopIsLast == ~InRuby(running) => Top(running).depth + 1 = depth[Top(running).iso]

\* The depths of an isolate's operations are below its count, and all different.
DepthsBelow ==
  \A f \in Fibers : \A k \in DOMAIN stack[f] :
     stack[f][k].kind = "op" => stack[f][k].depth < depth[stack[f][k].iso]

\* No two operations of an isolate have the same depth.
DepthsDiffer ==
  \A f, g \in Fibers : \A k \in DOMAIN stack[f], l \in DOMAIN stack[g] :
     /\ stack[f][k].kind = "op" /\ OpOn(stack[f][k].iso, g, l)
     /\ stack[f][k].depth = stack[g][l].depth
     => f = g /\ k = l

\* Only the Fibers on the chain of resumes have a resumer: the chain ends in the
\* root Fiber, does not branch, and the running Fiber is its other end.
ResumeChain ==
  /\ resumer[MainFiber] = NoFiber
  /\ running = MainFiber \/ resumer[running] # NoFiber
  /\ \A f \in Fibers : resumer[f] # NoFiber =>
        /\ resumer[f] # running
        /\ resumer[f] = MainFiber \/ resumer[resumer[f]] # NoFiber
        /\ \A g \in Fibers : resumer[g] = resumer[f] => g = f

\* All of it: the operations of every isolate stand in their order on the chain of
\* Fibers that control can go back along.
NestInv ==
  /\ Alternation /\ OthersInRuby /\ TopIsLast
  /\ DepthsBelow /\ DepthsDiffer /\ ResumeChain

IndInv == NestTypeOK /\ NestInv

-----------------------------------------------------------------------------
(* Pushing a frame keeps the frames below it.                              *)
LEMMA Push ==
  ASSUME NEW S, NEW s \in Seq(S), NEW x \in S
  PROVE  /\ Append(s, x) \in Seq(S)
         /\ Len(Append(s, x)) = Len(s) + 1
         /\ Append(s, x)[Len(s) + 1] = x
         /\ \A k \in 1 .. Len(s) : Append(s, x)[k] = s[k]
BY AppendProperties

(* Popping a frame keeps the frames below it.                              *)
LEMMA Popped ==
  ASSUME NEW S, NEW s \in Seq(S), s # <<>>
  PROVE  LET t == SubSeq(s, 1, Len(s) - 1)
         IN /\ t \in Seq(S)
            /\ Len(t) = Len(s) - 1
            /\ \A k \in 1 .. Len(s) - 1 : t[k] = s[k]
<1> DEFINE n == Len(s) - 1
           t == SubSeq(s, 1, n)
<1>1. Len(s) \in Nat /\ Len(s) > 0 /\ \A k \in 1 .. Len(s) : s[k] \in S
  BY EmptySeq, LenProperties, ElementOfSeq
<1>2. n \in Int /\ n >= 0 /\ \A k \in 1 .. n : s[k] \in S
  BY <1>1
<1>3. /\ t \in Seq(S)
      /\ Len(t) = IF 1 <= n THEN n - 1 + 1 ELSE 0
      /\ \A k \in 1 .. n - 1 + 1 : t[k] = s[1 + k - 1]
  <2> HIDE DEF n
  <2> QED BY <1>2, SubSeqProperties
<1> HIDE DEF n
<1>4. Len(t) = n
  <2> HIDE DEF t
  <2> QED BY <1>2, <1>3
<1>5. \A k \in 1 .. n : t[k] = s[k]
  <2> HIDE DEF t
  <2> QED BY <1>2, <1>3
<1>6. n = Len(s) - 1
  BY DEF n
<1> QED
  BY <1>3, <1>4, <1>5, <1>6 DEF n

(* What an action that pushes the frame fr on the running Fiber's stack    *)
(* leaves there.                                                           *)
LEMMA Pushing ==
  ASSUME NestTypeOK, NEW fr \in Frame,
         stack' = [stack EXCEPT ![running] = Append(@, fr)]
  PROVE  /\ stack' \in [Fibers -> Seq(Frame)]
         /\ \A f \in Fibers \ {running} : stack'[f] = stack[f]
         /\ DOMAIN stack'[running] = 1 .. Len(stack[running]) + 1
         /\ Len(stack'[running]) = Len(stack[running]) + 1
         /\ Len(stack[running]) \in Nat
         /\ stack'[running][Len(stack[running]) + 1] = fr
         /\ \A k \in 1 .. Len(stack[running]) : stack'[running][k] = stack[running][k]
<1>1. stack[running] \in Seq(Frame) /\ running \in Fibers /\ stack \in [Fibers -> Seq(Frame)]
  BY DEF NestTypeOK
<1>2. /\ stack'[running] = Append(stack[running], fr)
      /\ \A f \in Fibers \ {running} : stack'[f] = stack[f]
  BY <1>1
<1>3. /\ Append(stack[running], fr) \in Seq(Frame)
      /\ Len(Append(stack[running], fr)) = Len(stack[running]) + 1
      /\ Append(stack[running], fr)[Len(stack[running]) + 1] = fr
      /\ \A k \in 1 .. Len(stack[running]) :
            Append(stack[running], fr)[k] = stack[running][k]
  BY <1>1, Push
<1>4. DOMAIN stack'[running] = 1 .. Len(stack'[running]) /\ Len(stack[running]) \in Nat
  BY <1>1, <1>2, <1>3, LenProperties
<1> QED
  BY <1>1, <1>2, <1>3, <1>4

(* What an action that pops the running Fiber's stack leaves there.        *)
LEMMA Popping ==
  ASSUME NestTypeOK, stack[running] # <<>>,
         stack' = [stack EXCEPT ![running] = Pop(running)]
  PROVE  /\ stack' \in [Fibers -> Seq(Frame)]
         /\ \A f \in Fibers \ {running} : stack'[f] = stack[f]
         /\ Len(stack[running]) \in Nat /\ Len(stack[running]) > 0
         /\ DOMAIN stack[running] = 1 .. Len(stack[running])
         /\ DOMAIN stack'[running] = 1 .. Len(stack[running]) - 1
         /\ Len(stack'[running]) = Len(stack[running]) - 1
         /\ \A k \in 1 .. Len(stack[running]) - 1 : stack'[running][k] = stack[running][k]
<1>1. stack[running] \in Seq(Frame) /\ running \in Fibers /\ stack \in [Fibers -> Seq(Frame)]
  BY DEF NestTypeOK
<1>2. /\ stack'[running] = SubSeq(stack[running], 1, Len(stack[running]) - 1)
      /\ \A f \in Fibers \ {running} : stack'[f] = stack[f]
  BY <1>1 DEF Pop
<1>3. /\ stack'[running] \in Seq(Frame)
      /\ Len(stack'[running]) = Len(stack[running]) - 1
      /\ \A k \in 1 .. Len(stack[running]) - 1 : stack'[running][k] = stack[running][k]
  BY <1>1, <1>2, Popped
<1>4. /\ DOMAIN stack'[running] = 1 .. Len(stack'[running])
      /\ DOMAIN stack[running] = 1 .. Len(stack[running])
      /\ Len(stack[running]) \in Nat /\ Len(stack[running]) > 0
  BY <1>1, <1>3, LenProperties, EmptySeq
<1>5. stack' \in [Fibers -> Seq(Frame)]
  BY <1>1, <1>2, <1>3
<1> QED
  BY <1>2, <1>3, <1>4, <1>5

(* What the type says of the frames of a stack.                            *)
LEMMA Frames ==
  ASSUME NestTypeOK
  PROVE  \A f \in Fibers :
            /\ Len(stack[f]) \in Nat
            /\ DOMAIN stack[f] = 1 .. Len(stack[f])
            /\ stack[f] = <<>> <=> Len(stack[f]) = 0
            /\ \A k \in DOMAIN stack[f] :
                  /\ stack[f][k].kind \in {"op", "callback"}
                  /\ stack[f][k].iso \in Isolates
                  /\ stack[f][k].depth \in Nat
<1> SUFFICES ASSUME NEW f \in Fibers
             PROVE  /\ Len(stack[f]) \in Nat
                    /\ DOMAIN stack[f] = 1 .. Len(stack[f])
                    /\ stack[f] = <<>> <=> Len(stack[f]) = 0
                    /\ \A k \in DOMAIN stack[f] : stack[f][k] \in Frame
  BY DEF Frame
<1>1. stack[f] \in Seq(Frame)
  BY DEF NestTypeOK
<1> QED
  BY <1>1, LenProperties, ElementOfSeq, EmptySeq

-----------------------------------------------------------------------------
(* Core::run pushes an operation deeper than every other one of its        *)
(* isolate.                                                                *)
LEMMA StartKeeps ==
  ASSUME IndInv, NEW i \in Isolates, Start(i)
  PROVE  IndInv'
<1> DEFINE fr == [kind |-> "op", iso |-> i, depth |-> depth[i],
                  entered |-> depth[i] = 0 \/ current # i]
           n == Len(stack[running])
<1> USE DEF IndInv
<1>1. fr \in Frame /\ fr.kind = "op" /\ fr.iso = i /\ fr.depth = depth[i] /\ depth[i] \in Nat
  BY DEF Frame, NestTypeOK
<1>2. /\ stack' = [stack EXCEPT ![running] = Append(@, fr)]
      /\ depth' = [depth EXCEPT ![i] = @ + 1]
      /\ UNCHANGED <<running, resumer>>
      /\ InRuby(running)
  BY DEF Start, fiberVars, RubyRuns
<1>3. running \in Fibers /\ depth \in [Isolates -> Nat]
  BY DEF NestTypeOK
<1> HIDE DEF fr
<1>4. /\ stack' \in [Fibers -> Seq(Frame)]
      /\ \A f \in Fibers \ {running} : stack'[f] = stack[f]
      /\ DOMAIN stack'[running] = 1 .. n + 1
      /\ Len(stack'[running]) = n + 1
      /\ n \in Nat
      /\ stack'[running][n + 1] = fr
      /\ \A k \in 1 .. n : stack'[running][k] = stack[running][k]
  BY <1>1, <1>2, Pushing
<1>5. NestTypeOK'
  BY <1>2, <1>3, <1>4 DEF NestTypeOK
<1>6. /\ n = 0 => stack[running] = <<>>
      /\ n > 0 => stack[running][n].kind = "callback"
      /\ DOMAIN stack[running] = 1 .. n
  BY <1>2, <1>3, Frames DEF InRuby, Top
<1>7. Alternation'
  <2> SUFFICES ASSUME NEW f \in Fibers, NEW k \in DOMAIN stack'[f]
               PROVE  /\ stack'[f][k].kind = "callback" =>
                           /\ k > 1
                           /\ stack'[f][k-1].kind = "op"
                           /\ stack'[f][k-1].iso = stack'[f][k].iso
                           /\ stack'[f][k].depth = stack'[f][k-1].depth + 1
                      /\ stack'[f][k].kind = "op" /\ k > 1 =>
                           stack'[f][k-1].kind = "callback"
    BY DEF Alternation, OpOn
  <2>1. CASE f # running
    BY <1>4, <2>1 DEF Alternation, OpOn, NestInv
  <2>2. CASE f = running /\ k \in 1 .. n
    <3>1. k > 1 => k - 1 \in 1 .. n
      BY <2>2, <1>4
    <3> QED
      BY <1>4, <1>6, <2>2, <3>1 DEF Alternation, OpOn, NestInv
  <2>3. CASE f = running /\ k = n + 1
    BY <1>1, <1>4, <1>6, <2>3
  <2> QED
    BY <1>4, <2>1, <2>2, <2>3
<1>8. OthersInRuby'
  BY <1>2, <1>4 DEF OthersInRuby, InRuby, Top, NestInv
<1>9. TopIsLast'
  BY <1>1, <1>2, <1>3, <1>4 DEF TopIsLast, Top
<1>10. DepthsBelow'
  BY <1>1, <1>2, <1>3, <1>4, <1>6, Frames DEF DepthsBelow, NestInv
<1>11. DepthsDiffer'
  <2> SUFFICES ASSUME NEW f \in Fibers, NEW g \in Fibers,
                      NEW k \in DOMAIN stack'[f], NEW l \in DOMAIN stack'[g],
                      stack'[f][k].kind = "op", stack'[g][l].kind = "op",
                      stack'[g][l].iso = stack'[f][k].iso,
                      stack'[f][k].depth = stack'[g][l].depth
               PROVE  f = g /\ k = l
    BY DEF DepthsDiffer, OpOn
  <2>1. \A h \in Fibers : \A m \in DOMAIN stack'[h] :
           \/ h = running /\ m = n + 1
           \/ m \in DOMAIN stack[h] /\ stack'[h][m] = stack[h][m]
    BY <1>4, <1>6
  <2>2. \A h \in Fibers : \A m \in DOMAIN stack[h] :
           stack[h][m].kind = "op" /\ stack[h][m].iso = i => stack[h][m].depth < depth[i]
    BY DEF DepthsBelow, NestInv
  <2>3. CASE f = running /\ k = n + 1
    BY <1>1, <1>4, <2>1, <2>2, <2>3, Frames
  <2>4. CASE g = running /\ l = n + 1
    BY SMTT(30), <1>1, <1>4, <2>1, <2>2, <2>4, Frames
  <2>5. CASE ~(f = running /\ k = n + 1) /\ ~(g = running /\ l = n + 1)
    BY <2>1, <2>5 DEF DepthsDiffer, OpOn, NestInv
  <2> QED
    BY <2>3, <2>4, <2>5
<1>12. ResumeChain'
  BY <1>2 DEF ResumeChain, NestInv
<1> QED
  BY <1>5, <1>7, <1>8, <1>9, <1>10, <1>11, <1>12 DEF NestInv

(* with_gvl pushes a callback that notes the depth of its operation, plus  *)
(* one.                                                                    *)
LEMMA CallRubyKeeps ==
  ASSUME IndInv, CallRuby
  PROVE  IndInv'
<1> DEFINE op == Top(running)
           fr == [kind |-> "callback", iso |-> op.iso, depth |-> depth[op.iso],
                  entered |-> FALSE]
           n == Len(stack[running])
<1> USE DEF IndInv
<1>1. /\ stack' = [stack EXCEPT ![running] = Append(@, fr)]
      /\ UNCHANGED <<running, resumer, depth>>
      /\ ~InRuby(running)
  BY DEF CallRuby, fiberVars, ScriptRuns
<1>2. running \in Fibers /\ depth \in [Isolates -> Nat]
  BY DEF NestTypeOK
<1>3. /\ n \in Nat /\ n > 0 /\ DOMAIN stack[running] = 1 .. n
      /\ op = stack[running][n] /\ op.kind = "op" /\ op.iso \in Isolates
  BY <1>1, <1>2, Frames DEF InRuby, Top
<1>4. /\ fr \in Frame /\ fr.kind = "callback" /\ fr.iso = op.iso
      /\ fr.depth = op.depth + 1
  <2>1. op.depth + 1 = depth[op.iso]
    BY <1>1 DEF TopIsLast, NestInv
  <2> QED
    BY <1>2, <1>3, <2>1 DEF Frame
<1> HIDE DEF fr
<1>5. /\ stack' \in [Fibers -> Seq(Frame)]
      /\ \A f \in Fibers \ {running} : stack'[f] = stack[f]
      /\ DOMAIN stack'[running] = 1 .. n + 1
      /\ Len(stack'[running]) = n + 1
      /\ stack'[running][n + 1] = fr
      /\ \A k \in 1 .. n : stack'[running][k] = stack[running][k]
  BY <1>1, <1>4, Pushing
<1>6. NestTypeOK'
  BY <1>1, <1>5 DEF NestTypeOK
<1>7. Alternation'
  <2> SUFFICES ASSUME NEW f \in Fibers, NEW k \in DOMAIN stack'[f]
               PROVE  /\ stack'[f][k].kind = "callback" =>
                           /\ k > 1
                           /\ stack'[f][k-1].kind = "op"
                           /\ stack'[f][k-1].iso = stack'[f][k].iso
                           /\ stack'[f][k].depth = stack'[f][k-1].depth + 1
                      /\ stack'[f][k].kind = "op" /\ k > 1 =>
                           stack'[f][k-1].kind = "callback"
    BY DEF Alternation, OpOn
  <2>1. CASE f # running
    BY <1>5, <2>1 DEF Alternation, OpOn, NestInv
  <2>2. CASE f = running /\ k \in 1 .. n
    <3>1. k > 1 => k - 1 \in 1 .. n
      BY <2>2, <1>3
    <3> QED
      BY <1>3, <1>5, <2>2, <3>1 DEF Alternation, OpOn, NestInv
  <2>3. CASE f = running /\ k = n + 1
    <3>1. /\ k > 1 /\ k - 1 = n /\ n \in 1 .. n
          /\ stack'[f][k] = fr /\ stack'[f][n] = stack[running][n]
      BY <1>3, <1>5, <2>3
    <3> HIDE DEF op
    <3> QED
      BY <1>3, <1>4, <3>1
  <2> QED
    BY <1>3, <1>5, <2>1, <2>2, <2>3
<1>8. OthersInRuby'
  BY <1>1, <1>5 DEF OthersInRuby, InRuby, Top, NestInv
<1>9. TopIsLast'
  BY <1>1, <1>2, <1>4, <1>5 DEF TopIsLast, InRuby, Top
<1>10. \A h \in Fibers : \A m \in DOMAIN stack'[h] :
          stack'[h][m].kind = "op" =>
             m \in DOMAIN stack[h] /\ stack'[h][m] = stack[h][m]
  BY <1>3, <1>4, <1>5
<1>11. DepthsBelow'
  BY <1>1, <1>10 DEF DepthsBelow, NestInv
<1>12. DepthsDiffer'
  BY <1>10 DEF DepthsDiffer, OpOn, NestInv
<1>13. ResumeChain'
  BY <1>1 DEF ResumeChain, NestInv
<1> QED
  BY <1>6, <1>7, <1>8, <1>9, <1>11, <1>12, <1>13 DEF NestInv

(* A pop disturbs nothing but the top: what remains was there before.      *)
LEMMA PopKeeps ==
  ASSUME IndInv, stack[running] # <<>>,
         stack' = [stack EXCEPT ![running] = Pop(running)],
         UNCHANGED running
  PROVE  /\ stack' \in [Fibers -> Seq(Frame)]
         /\ \A f \in Fibers \ {running} : stack'[f] = stack[f]
         /\ \A f \in Fibers : \A k \in DOMAIN stack'[f] :
               /\ k \in DOMAIN stack[f] /\ stack'[f][k] = stack[f][k]
               /\ f = running => k < Len(stack[f])
         /\ Alternation' /\ OthersInRuby' /\ DepthsDiffer'
<1> DEFINE n == Len(stack[running])
<1> USE DEF IndInv
<1>1. running \in Fibers
  BY DEF NestTypeOK
<1>2. /\ stack' \in [Fibers -> Seq(Frame)]
      /\ \A f \in Fibers \ {running} : stack'[f] = stack[f]
      /\ n \in Nat /\ n > 0
      /\ DOMAIN stack[running] = 1 .. n
      /\ DOMAIN stack'[running] = 1 .. n - 1
      /\ \A k \in 1 .. n - 1 : stack'[running][k] = stack[running][k]
  BY Popping
<1>3. \A f \in Fibers : \A k \in DOMAIN stack'[f] :
         /\ k \in DOMAIN stack[f] /\ stack'[f][k] = stack[f][k]
         /\ f = running => k < Len(stack[f])
  BY <1>2
<1>4. \A f \in Fibers : \A k \in DOMAIN stack'[f] :
         k > 1 => k - 1 \in DOMAIN stack'[f] /\ stack'[f][k-1] = stack[f][k-1]
  BY <1>2, Frames
<1>5. Alternation'
  BY <1>3, <1>4 DEF Alternation, OpOn, NestInv
<1>6. OthersInRuby'
  BY <1>2 DEF OthersInRuby, InRuby, Top, NestInv
<1>7. DepthsDiffer'
  BY <1>3 DEF DepthsDiffer, OpOn, NestInv
<1> QED
  BY <1>2, <1>3, <1>5, <1>6, <1>7

(* Back in JavaScript after the check of the depth, the operation is the   *)
(* innermost of its isolate; without it, this lemma fails.                 *)
LEMMA ReturnRubyKeeps ==
  ASSUME IndInv, ReturnRuby
  PROVE  IndInv'
<1> DEFINE n == Len(stack[running])
<1> USE DEF IndInv
<1>1. /\ UNCHANGED <<running, resumer, depth>>
      /\ stack[running] # <<>> /\ InRuby(running) /\ running \in Fibers
  BY DEF ReturnRuby, RubyRuns, fiberVars, NestTypeOK
<1>2. CASE UNCHANGED stack
  BY <1>1, <1>2 DEF NestTypeOK, NestInv, Alternation, OthersInRuby, TopIsLast,
     DepthsBelow, DepthsDiffer, ResumeChain, OpOn, InRuby, Top
<1>3. CASE /\ depth[Top(running).iso] = Top(running).depth
           /\ stack' = [stack EXCEPT ![running] = Pop(running)]
  <2>1. /\ stack' \in [Fibers -> Seq(Frame)]
        /\ \A f \in Fibers : \A k \in DOMAIN stack'[f] :
              k \in DOMAIN stack[f] /\ stack'[f][k] = stack[f][k]
        /\ Alternation' /\ OthersInRuby' /\ DepthsDiffer'
    BY <1>1, <1>3, PopKeeps
  <2>2. /\ n \in Nat /\ n > 0 /\ Len(stack'[running]) = n - 1
        /\ DOMAIN stack[running] = 1 .. n
        /\ \A k \in 1 .. n - 1 : stack'[running][k] = stack[running][k]
    BY <1>1, <1>3, Popping
  <2>3. /\ Top(running) = stack[running][n] /\ stack[running][n].kind = "callback"
        /\ n > 1 /\ stack[running][n-1].iso = stack[running][n].iso
        /\ stack[running][n].depth = stack[running][n-1].depth + 1
    <3>1. /\ Top(running) = stack[running][n] /\ stack[running][n].kind = "callback"
          /\ n \in DOMAIN stack[running]
      BY <1>1, <2>2 DEF InRuby, Top
    <3> QED
      BY <1>1, <3>1 DEF Alternation, OpOn, NestInv
  <2>4. TopIsLast'
    BY <1>1, <1>3, <2>2, <2>3 DEF TopIsLast, Top
  <2>5. DepthsBelow'
    BY <1>1, <2>1 DEF DepthsBelow, NestInv
  <2>6. ResumeChain'
    BY <1>1 DEF ResumeChain, NestInv
  <2> QED
    BY <1>1, <2>1, <2>4, <2>5, <2>6 DEF NestTypeOK, NestInv
<1> QED
  BY <1>2, <1>3 DEF ReturnRuby

(* The operation that ends is the last of its isolate, so the depths left  *)
(* stay below the count.                                                   *)
LEMMA FinishKeeps ==
  ASSUME IndInv, NEW outcome, Finish(outcome)
  PROVE  IndInv'
<1> DEFINE op == Top(running)
           n == Len(stack[running])
<1> USE DEF IndInv
<1>1. /\ stack' = [stack EXCEPT ![running] = Pop(running)]
      /\ depth' = [depth EXCEPT ![op.iso] = @ - 1]
      /\ UNCHANGED <<running, resumer>>
      /\ ~InRuby(running)
      /\ stack[running] # <<>>
      /\ running \in Fibers
      /\ depth \in [Isolates -> Nat]
  BY DEF Finish, ScriptRuns, InRuby, fiberVars, NestTypeOK
<1>2. /\ stack' \in [Fibers -> Seq(Frame)]
      /\ \A f \in Fibers : \A k \in DOMAIN stack'[f] :
            /\ k \in DOMAIN stack[f] /\ stack'[f][k] = stack[f][k]
            /\ f = running => k < n
      /\ Alternation' /\ OthersInRuby' /\ DepthsDiffer'
  BY <1>1, PopKeeps
<1>3. /\ n \in Nat /\ n > 0 /\ DOMAIN stack[running] = 1 .. n
      /\ DOMAIN stack'[running] = 1 .. n - 1 /\ Len(stack'[running]) = n - 1
      /\ \A k \in 1 .. n - 1 : stack'[running][k] = stack[running][k]
  BY <1>1, Popping
<1>4. /\ op = stack[running][n] /\ op.kind = "op" /\ op.iso \in Isolates
      /\ op.depth \in Nat /\ op.depth + 1 = depth[op.iso]
  BY <1>1, <1>3, Frames DEF InRuby, Top, TopIsLast, NestInv
<1>5. depth' \in [Isolates -> Nat] /\ depth'[op.iso] = op.depth
  BY <1>1, <1>4
<1>6. NestTypeOK'
  BY <1>1, <1>2, <1>5 DEF NestTypeOK
<1>7. InRuby(running)'
  <2>1. n > 1 => stack[running][n-1].kind = "callback"
    BY <1>1, <1>3, <1>4 DEF Alternation, NestInv
  <2>2. n = 1 => stack'[running] = <<>>
    BY <1>1, <1>2, <1>3, EmptySeq
  <2> QED
    BY <1>1, <1>3, <2>1, <2>2 DEF InRuby, Top
<1>8. TopIsLast'
  BY <1>7 DEF TopIsLast
<1>9. DepthsBelow'
  <2> SUFFICES ASSUME NEW f \in Fibers, NEW k \in DOMAIN stack'[f], stack'[f][k].kind = "op"
               PROVE  stack'[f][k].depth < depth'[stack'[f][k].iso]
    BY DEF DepthsBelow
  <2>1. /\ k \in DOMAIN stack[f] /\ stack'[f][k] = stack[f][k]
        /\ f = running => k < n
        /\ stack[f][k].depth < depth[stack[f][k].iso]
    BY <1>2 DEF DepthsBelow, NestInv
  <2>2. CASE stack[f][k].iso = op.iso
    <3>1. stack[f][k].depth # op.depth
      BY <1>1, <1>3, <1>4, <2>1, <2>2 DEF DepthsDiffer, OpOn, NestInv
    <3> QED
      BY <1>4, <1>5, <2>1, <2>2, <3>1, Frames
  <2>3. CASE stack[f][k].iso # op.iso
    BY <1>1, <2>1, <2>3, Frames
  <2> QED
    BY <2>2, <2>3
<1>10. ResumeChain'
  BY <1>1 DEF ResumeChain, NestInv
<1> QED
  BY <1>2, <1>6, <1>8, <1>9, <1>10 DEF NestInv

(* A step that changes neither the stacks, the depths nor the Fibers.      *)
LEMMA OthersKeep ==
  ASSUME IndInv, UNCHANGED <<stack, running, resumer, depth>>
  PROVE  IndInv'
BY DEF IndInv, NestTypeOK, NestInv, Alternation, OthersInRuby, TopIsLast,
   DepthsBelow, DepthsDiffer, ResumeChain, OpOn, InRuby, Top

(* A resume extends the chain of resumes at its running end.               *)
LEMMA ResumeKeeps ==
  ASSUME IndInv, NEW g \in Fibers, Resume(g)
  PROVE  IndInv'
<1> USE DEF IndInv
<1>1. /\ UNCHANGED <<stack, depth>>
      /\ running' = g /\ resumer' = [resumer EXCEPT ![g] = running]
      /\ InRuby(running) /\ g \notin {MainFiber, running} /\ resumer[g] = NoFiber
  BY DEF Resume, RubyRuns
<1>2. running \in Fibers /\ resumer \in [Fibers -> Fibers \cup {NoFiber}]
  BY DEF NestTypeOK
<1>3. NestTypeOK'
  BY <1>1, <1>2 DEF NestTypeOK
<1>4. \A f \in Fibers : InRuby(f)'
  BY <1>1 DEF OthersInRuby, InRuby, Top, NestInv
<1>5. OthersInRuby' /\ TopIsLast'
  BY <1>3, <1>4 DEF OthersInRuby, TopIsLast, NestTypeOK
<1>6. Alternation' /\ DepthsBelow' /\ DepthsDiffer'
  BY <1>1 DEF Alternation, DepthsBelow, DepthsDiffer, OpOn, NestInv
<1>7. ResumeChain'
  BY <1>1, <1>2, Distinct, MainIsFiber DEF ResumeChain, NestInv
<1> QED
  BY <1>3, <1>5, <1>6, <1>7 DEF NestInv

(* A yield shortens the chain by its running end.                          *)
LEMMA YieldKeeps ==
  ASSUME IndInv, Yield
  PROVE  IndInv'
<1> USE DEF IndInv
<1>1. /\ UNCHANGED <<stack, depth>>
      /\ running' = resumer[running]
      /\ resumer' = [resumer EXCEPT ![running] = NoFiber]
      /\ InRuby(running) /\ running # MainFiber
  BY DEF Yield, RubyRuns
<1>2. running \in Fibers /\ resumer \in [Fibers -> Fibers \cup {NoFiber}]
  BY DEF NestTypeOK
<1>3. resumer[running] # NoFiber
  BY <1>1 DEF ResumeChain, NestInv
<1>4. NestTypeOK'
  BY <1>1, <1>2, <1>3 DEF NestTypeOK
<1>5. \A f \in Fibers : InRuby(f)'
  BY <1>1 DEF OthersInRuby, InRuby, Top, NestInv
<1>6. OthersInRuby' /\ TopIsLast'
  BY <1>4, <1>5 DEF OthersInRuby, TopIsLast, NestTypeOK
<1>7. Alternation' /\ DepthsBelow' /\ DepthsDiffer'
  BY <1>1 DEF Alternation, DepthsBelow, DepthsDiffer, OpOn, NestInv
<1>8. ResumeChain'
  BY <1>1, <1>2, <1>3, Distinct, MainIsFiber DEF ResumeChain, NestInv
<1> QED
  BY <1>4, <1>6, <1>7, <1>8 DEF NestInv

-----------------------------------------------------------------------------
(* Every step keeps the invariant.                                         *)
LEMMA IndInvInductive == IndInv /\ [Next]_vars => IndInv'
<1> SUFFICES ASSUME IndInv, [Next]_vars
             PROVE  IndInv'
  OBVIOUS
<1>1. ASSUME NEW i \in Isolates, IsolateStep(i)
      PROVE  IndInv'
  <2>1. CASE Start(i)
    BY <2>1, StartKeeps
  <2>2. CASE New(i) \/ Dispose(i) \/ Release(i)
    BY <2>2, OthersKeep DEF New, Dispose, Release, fiberVars
  <2>3. CASE DropDisposed(i) \/ DropForeign(i) \/ DropOnOwner(i)
    BY <2>3, OthersKeep DEF DropDisposed, DropForeign, DropOnOwner, Collected, fiberVars
  <2> QED
    BY <1>1, <2>1, <2>2, <2>3 DEF IsolateStep
<1>2. ASSUME NEW g \in Fibers, FiberStep(g)
      PROVE  IndInv'
  BY <1>2, ResumeKeeps, OthersKeep DEF FiberStep, Abandon
<1>3. ASSUME NEW outcome \in Outcomes, Finish(outcome)
      PROVE  IndInv'
  BY <1>3, FinishKeeps
<1>4. CASE CallRuby \/ ReturnRuby \/ Yield
  BY <1>4, CallRubyKeeps, ReturnRubyKeeps, YieldKeeps
<1>5. CASE UNCHANGED vars
  BY <1>5, OthersKeep DEF vars, fiberVars
<1> QED
  BY <1>1, <1>2, <1>3, <1>4, <1>5 DEF Next

(* The invariant holds before any isolate exists.                          *)
LEMMA IndInvInit == Init => IndInv
<1> SUFFICES ASSUME Init
             PROVE  IndInv
  OBVIOUS
<1>1. /\ \A f \in Fibers : stack[f] = <<>> /\ resumer[f] = NoFiber
      /\ running = MainFiber /\ running \in Fibers
  BY MainIsFiber DEF Init
<1>2. NestTypeOK
  BY <1>1, EmptySeq DEF Init, NestTypeOK
<1>3. \A f \in Fibers : DOMAIN stack[f] = {}
  BY <1>1
<1> QED
  BY <1>1, <1>2, <1>3 DEF IndInv, NestInv, Alternation, OthersInRuby, TopIsLast,
     DepthsBelow, DepthsDiffer, ResumeChain, InRuby

(* The nesting invariant holds whatever the isolates and Fibers are, and   *)
(* whatever they do: with_gvl stops the process before control reaches     *)
(* JavaScript on an isolate whose operations no longer nest.               *)
THEOREM NestingInvariant == Spec => [](NestTypeOK /\ NestInv)
<1> QED
  BY IndInvInit, IndInvInductive, PTL DEF Spec, IndInv

(* Core::run and with_gvl: the operation whose JavaScript runs was started *)
(* after every other operation in flight on its isolate.                   *)
THEOREM InnermostAlwaysRuns == Spec => []InnermostRuns
<1>1. IndInv => InnermostRuns
  <2> SUFFICES ASSUME IndInv, ~InRuby(running),
                      NEW f \in Fibers, NEW k \in DOMAIN stack[f],
                      OpOn(Top(running).iso, f, k),
                      f = running => k < Len(stack[f])
               PROVE  stack[f][k].depth < Top(running).depth
    BY DEF InnermostRuns
  <2> DEFINE n == Len(stack[running])
  <2>1. /\ running \in Fibers /\ n \in DOMAIN stack[running]
        /\ Top(running) = stack[running][n] /\ stack[running][n].kind = "op"
    BY Frames DEF IndInv, NestTypeOK, InRuby, Top
  <2>2. Top(running).depth + 1 = depth[Top(running).iso]
    BY DEF IndInv, NestInv, TopIsLast
  <2>3. stack[f][k].depth < depth[Top(running).iso]
    BY DEF IndInv, NestInv, DepthsBelow, OpOn
  <2>4. stack[f][k].depth # Top(running).depth
    <3>1. f = running => k # n
      BY Frames DEF IndInv, NestTypeOK
    <3> QED
      BY <2>1, <3>1 DEF IndInv, NestInv, DepthsDiffer, OpOn
  <2> QED
    BY <2>1, <2>2, <2>3, <2>4, Frames DEF IndInv, NestTypeOK
<1> QED
  BY <1>1, NestingInvariant, PTL DEF IndInv
-----------------------------------------------------------------------------
(* The life of isolates.                                                   *)

\* A Fiber that was abandoned is off the chain of resumes.
AbandonedAreOff ==
  \A f \in abandoned : f # running /\ f # MainFiber /\ resumer[f] = NoFiber

\* Ruby still refers to an isolate that a stack somebody can return to is using.
UsersKeepIsolates ==
  \A f \in Fibers \ abandoned : \A k \in DOMAIN stack[f] :
     stack[f][k].iso \in created \ dropped

LifeTypeOK ==
  /\ abandoned \subseteq Fibers /\ created \subseteq Isolates
  /\ held \subseteq created /\ registry \subseteq created /\ watchdog \subseteq registry
  /\ dropped \subseteq created /\ disposed \subseteq created
  /\ leaked \in Nat

\* Every isolate that was not torn down is in the registry.
LifeInv ==
  /\ LifeTypeOK /\ AbandonedAreOff /\ UsersKeepIsolates
  /\ held \cap dropped = {}
  /\ created \ disposed \subseteq registry
  /\ IsFiniteSet(created)

Stuck == (dropped \cap registry) \ disposed

\* The isolates that were dropped and not destroyed, and whether they are counted.
LEMMA CountedStays ==
  ASSUME LeaksCounted, UNCHANGED leaked, Stuck' = Stuck, watchdog' \cap Stuck \subseteq watchdog
  PROVE  LeaksCounted'
BY DEF LeaksCounted, Stuck

(* One more isolate leaks, and its watchdog is stopped.                    *)
LEMMA LeakCounts ==
  ASSUME LifeInv, LeaksCounted, NEW i \in created \ (dropped \cup disposed),
         dropped' = dropped \cup {i}, LeakIt(i)
  PROVE  LeaksCounted'
<1>1. Stuck' = Stuck \cup {i} /\ i \notin Stuck
  BY DEF Stuck, LeakIt, LifeInv
<1>2. IsFiniteSet(Stuck)
  <2>1. Stuck \subseteq created
    BY DEF Stuck, LifeInv, LifeTypeOK
  <2> QED BY <2>1, FS_Subset DEF LifeInv
<1>3. Cardinality(Stuck') = Cardinality(Stuck) + 1
  BY <1>1, <1>2, FS_AddElement
<1>4. leaked' = Cardinality(Stuck') /\ Stuck' \cap watchdog' = {}
  BY <1>1, <1>3 DEF LeaksCounted, Stuck, LeakIt
<1> QED BY <1>4 DEF LeaksCounted, Stuck

(* An isolate is created.                                                  *)
LEMMA NewLives ==
  ASSUME IndInv, LifeInv, LeaksCounted, NEW i \in Isolates, New(i)
  PROVE  LifeInv' /\ LeaksCounted'
<1> USE DEF New, fiberVars, LifeInv, LifeTypeOK
<1>1. IsFiniteSet(created')
  BY FS_AddElement
<1>2. AbandonedAreOff' /\ UsersKeepIsolates'
  BY DEF AbandonedAreOff, UsersKeepIsolates
<1>3. LeaksCounted'
  BY CountedStays DEF Stuck
<1> QED BY <1>1, <1>2, <1>3

(* An operation starts: Ruby holds its isolate.                            *)
LEMMA StartLives ==
  ASSUME IndInv, LifeInv, LeaksCounted, NEW i \in Isolates, Start(i)
  PROVE  LifeInv' /\ LeaksCounted'
<1> DEFINE fr == [kind |-> "op", iso |-> i, depth |-> depth[i],
                  entered |-> depth[i] = 0 \/ current # i]
           n == Len(stack[running])
<1>1. /\ stack' = [stack EXCEPT ![running] = Append(@, fr)]
      /\ UNCHANGED <<running, resumer, abandoned, lifeVars>>
      /\ i \in held
  BY DEF Start, fiberVars
<1>2. fr \in Frame /\ fr.iso = i
  BY DEF Frame, IndInv, NestTypeOK
<1> HIDE DEF fr
<1>3. /\ \A f \in Fibers \ {running} : stack'[f] = stack[f]
      /\ DOMAIN stack'[running] = 1 .. n + 1 /\ n \in Nat
      /\ stack'[running][n + 1] = fr
      /\ \A k \in 1 .. n : stack'[running][k] = stack[running][k]
      /\ DOMAIN stack[running] = 1 .. n
  BY <1>1, <1>2, Pushing, Frames DEF IndInv, NestTypeOK
<1>4. UsersKeepIsolates'
  BY <1>1, <1>2, <1>3 DEF UsersKeepIsolates, lifeVars, LifeInv, LifeTypeOK
<1>5. AbandonedAreOff' /\ LeaksCounted'
  BY <1>1 DEF AbandonedAreOff, LeaksCounted, lifeVars, LifeInv
<1> QED BY <1>1, <1>4, <1>5 DEF lifeVars, LifeInv, LifeTypeOK

(* A callback is on the isolate of its operation.                          *)
LEMMA CallLives ==
  ASSUME IndInv, LifeInv, LeaksCounted, CallRuby
  PROVE  LifeInv' /\ LeaksCounted'
<1> DEFINE op == Top(running)
           fr == [kind |-> "callback", iso |-> op.iso, depth |-> depth[op.iso],
                  entered |-> FALSE]
           n == Len(stack[running])
<1>1. /\ stack' = [stack EXCEPT ![running] = Append(@, fr)]
      /\ UNCHANGED <<running, resumer, abandoned, lifeVars>>
      /\ ~InRuby(running)
  BY DEF CallRuby, ScriptRuns, fiberVars
<1>2. /\ n \in Nat /\ n > 0 /\ DOMAIN stack[running] = 1 .. n
      /\ op = stack[running][n] /\ op.iso \in Isolates /\ running \in Fibers
  BY <1>1, Frames DEF InRuby, Top, IndInv, NestTypeOK
<1>3. fr \in Frame /\ fr.iso = op.iso
  BY <1>2 DEF Frame, IndInv, NestTypeOK
<1> HIDE DEF fr
<1>4. /\ \A f \in Fibers \ {running} : stack'[f] = stack[f]
      /\ DOMAIN stack'[running] = 1 .. n + 1
      /\ stack'[running][n + 1] = fr
      /\ \A k \in 1 .. n : stack'[running][k] = stack[running][k]
  BY <1>1, <1>3, Pushing DEF IndInv
<1>5. running \notin abandoned /\ op.iso \in created \ dropped
  BY <1>2 DEF AbandonedAreOff, UsersKeepIsolates, LifeInv
<1>6. UsersKeepIsolates'
  BY <1>1, <1>2, <1>3, <1>4, <1>5 DEF UsersKeepIsolates, lifeVars, LifeInv
<1>7. AbandonedAreOff' /\ LeaksCounted'
  BY <1>1 DEF AbandonedAreOff, LeaksCounted, lifeVars, LifeInv
<1> QED BY <1>1, <1>6, <1>7 DEF lifeVars, LifeInv, LifeTypeOK

(* A frame is popped; what a panic poisons is in use, so not dropped.      *)
LEMMA PopLives ==
  ASSUME IndInv, LifeInv, LeaksCounted, stack[running] # <<>>,
         stack' = [stack EXCEPT ![running] = Pop(running)],
         UNCHANGED <<running, resumer, abandoned, created, held, dropped, registry,
                     watchdog, leaked>>,
         disposed' \in {disposed, disposed \cup {Top(running).iso}}
  PROVE  LifeInv' /\ LeaksCounted'
<1> DEFINE n == Len(stack[running])
<1>1. /\ \A f \in Fibers : \A k \in DOMAIN stack'[f] :
           k \in DOMAIN stack[f] /\ stack'[f][k] = stack[f][k]
      /\ n \in DOMAIN stack[running] /\ running \in Fibers
      /\ Top(running) = stack[running][n]
  BY PopKeeps, Popping DEF Top, IndInv, NestTypeOK
<1>2. Top(running).iso \in created \ dropped
  BY <1>1 DEF AbandonedAreOff, UsersKeepIsolates, LifeInv
<1>3. UsersKeepIsolates' /\ AbandonedAreOff'
  BY <1>1 DEF UsersKeepIsolates, AbandonedAreOff, LifeInv
<1>4. Stuck' = Stuck
  BY <1>2 DEF Stuck
<1>5. LeaksCounted'
  BY <1>4, CountedStays
<1> QED BY <1>2, <1>3, <1>5 DEF LifeInv, LifeTypeOK

(* Fibers switch.                                                          *)
LEMMA SwitchLives ==
  ASSUME IndInv, LifeInv, LeaksCounted, UNCHANGED <<stack, lifeVars>>,
         \/ \E g \in Fibers : FiberStep(g)
         \/ Yield
  PROVE  LifeInv' /\ LeaksCounted'
<1>1. abandoned' \subseteq Fibers /\ abandoned \subseteq abandoned'
  BY DEF FiberStep, Resume, Abandon, Yield, LifeInv, LifeTypeOK
<1>2. UsersKeepIsolates' /\ LeaksCounted'
  BY <1>1 DEF UsersKeepIsolates, LeaksCounted, lifeVars, LifeInv
<1>3. AbandonedAreOff'
  <2>1. ASSUME NEW g \in Fibers, Resume(g)
        PROVE  AbandonedAreOff'
    BY <2>1 DEF Resume, AbandonedAreOff, LifeInv, LifeTypeOK, IndInv, NestTypeOK
  <2>2. ASSUME NEW g \in Fibers, Abandon(g)
        PROVE  AbandonedAreOff'
    BY <2>2 DEF Abandon, AbandonedAreOff, LifeInv
  <2>3. CASE Yield
    BY <2>3 DEF Yield, AbandonedAreOff, LifeInv, LifeTypeOK, IndInv, NestTypeOK,
       NestInv, ResumeChain
  <2> QED BY <2>1, <2>2, <2>3 DEF FiberStep
<1> QED BY <1>1, <1>2, <1>3 DEF lifeVars, LifeInv, LifeTypeOK

(* Ruby lets go of an isolate, or the GC drops one.                        *)
LEMMA EndLives ==
  ASSUME IndInv, LifeInv, LeaksCounted, NEW i \in Isolates,
         \/ Dispose(i) \/ Release(i)
         \/ DropDisposed(i) \/ DropForeign(i) \/ DropOnOwner(i)
  PROVE  LifeInv' /\ LeaksCounted'
<1> USE DEF LifeInv
<1>1. UNCHANGED <<stack, running, resumer, abandoned, created>>
  BY DEF Dispose, Release, DropDisposed, DropForeign, DropOnOwner, Collected, fiberVars
<1>2. AbandonedAreOff'
  BY <1>1 DEF AbandonedAreOff
<1>3. CASE Dispose(i)
  <2>1. LeaksCounted'
    BY <1>3, CountedStays DEF Dispose, Teardown, Stuck, LifeTypeOK
  <2> QED BY <1>1, <1>2, <1>3, <2>1 DEF Dispose, Teardown, UsersKeepIsolates, LifeTypeOK
<1>4. CASE Release(i)
  <2>1. LeaksCounted'
    BY <1>4, CountedStays DEF Release, Stuck
  <2> QED BY <1>1, <1>2, <1>4, <2>1 DEF Release, UsersKeepIsolates, LifeTypeOK
<1>5. ASSUME Collected(i)
      PROVE  /\ UsersKeepIsolates' /\ held' \cap dropped' = {}
             /\ i \in created \ dropped /\ dropped' = dropped \cup {i}
             /\ dropped' \subseteq created' /\ held' \subseteq created'
  BY <1>1, <1>5 DEF Collected, OnReachableStack, UsersKeepIsolates, LifeTypeOK
<1>6. CASE DropDisposed(i)
  <2>1. LeaksCounted'
    BY <1>5, <1>6, CountedStays DEF DropDisposed, Stuck
  <2> QED BY <1>1, <1>2, <1>5, <1>6, <2>1 DEF DropDisposed, LifeTypeOK
<1>7. ASSUME Collected(i), LeakIt(i), i \notin disposed
      PROVE  LifeInv' /\ LeaksCounted'
  <2>1. LeaksCounted'
    BY <1>5, <1>7, LeakCounts
  <2> QED BY <1>1, <1>2, <1>5, <1>7, <2>1 DEF LeakIt, LifeTypeOK
<1>8. CASE DropForeign(i)
  BY <1>7, <1>8 DEF DropForeign
<1>9. CASE DropOnOwner(i)
  <2>1. CASE depth[i] # 0
    BY <1>7, <1>9, <2>1 DEF DropOnOwner
  <2>2. CASE depth[i] = 0
    <3>1. LeaksCounted'
      BY <1>5, <1>9, <2>2, CountedStays DEF DropOnOwner, Teardown, Stuck
    <3> QED BY <1>1, <1>2, <1>5, <1>9, <2>2, <3>1 DEF DropOnOwner, Teardown, LifeTypeOK
  <2> QED BY <2>1, <2>2
<1> QED BY <1>3, <1>4, <1>6, <1>8, <1>9

(* Every step keeps the books.                                             *)
LEMMA LifeInductive == IndInv /\ LifeInv /\ LeaksCounted /\ [Next]_vars => LifeInv' /\ LeaksCounted'
<1> SUFFICES ASSUME IndInv, LifeInv, LeaksCounted, [Next]_vars
             PROVE  LifeInv' /\ LeaksCounted'
  OBVIOUS
<1>1. ASSUME NEW i \in Isolates, IsolateStep(i)
      PROVE  LifeInv' /\ LeaksCounted'
  BY <1>1, NewLives, StartLives, EndLives DEF IsolateStep
<1>2. ASSUME NEW g \in Fibers, FiberStep(g)
      PROVE  LifeInv' /\ LeaksCounted'
  BY <1>2, SwitchLives DEF FiberStep, Resume, Abandon
<1>3. ASSUME NEW outcome \in Outcomes, Finish(outcome)
      PROVE  LifeInv' /\ LeaksCounted'
  <2>1. stack[running] # <<>>
    BY <1>3 DEF Finish, ScriptRuns, InRuby
  <2> QED BY <1>3, <2>1, PopLives DEF Finish, fiberVars
<1>4. CASE CallRuby
  BY <1>4, CallLives
<1>5. CASE ReturnRuby
  <2>1. CASE UNCHANGED stack
    BY <1>5, <2>1 DEF ReturnRuby, fiberVars, lifeVars, LifeInv, LifeTypeOK, LeaksCounted,
       AbandonedAreOff, UsersKeepIsolates
  <2>2. CASE stack' = [stack EXCEPT ![running] = Pop(running)]
    BY <1>5, <2>2, PopLives DEF ReturnRuby, fiberVars, lifeVars
  <2> QED BY <1>5, <2>1, <2>2 DEF ReturnRuby
<1>6. CASE Yield
  BY <1>6, SwitchLives DEF Yield
<1>7. CASE UNCHANGED vars
  BY <1>7 DEF vars, fiberVars, lifeVars, LifeInv, LifeTypeOK, LeaksCounted,
     AbandonedAreOff, UsersKeepIsolates
<1> QED BY <1>1, <1>2, <1>3, <1>4, <1>5, <1>6, <1>7 DEF Next

(* Drop for Core: leaked_isolate_count is the number of isolates whose     *)
(* last wrapper is gone and that could not be destroyed, and the watchdog  *)
(* threads of these were told to stop.                                     *)
THEOREM LeaksAreCounted == Spec => []LeaksCounted
<1>1. Init => LifeInv /\ LeaksCounted
  BY FS_EmptySet, MainIsFiber DEF Init, LifeInv, LifeTypeOK, AbandonedAreOff,
     UsersKeepIsolates, LeaksCounted
<1> QED
  BY <1>1, LifeInductive, NestingInvariant, PTL DEF Spec, IndInv
-----------------------------------------------------------------------------
(* The operations of an isolate, one below the other: OpNesting.           *)

\* An operation of i that started at depth e is on Fiber f.
HasOp(f, i, e) == \E k \in DOMAIN stack[f] : OpOn(i, f, k) /\ stack[f][k].depth = e

\* The Fibers of the operations in flight on i, oldest first.
Line(i) == [d \in 1 .. depth[i] |-> FiberOf(i, d)]

(* One more element, as a function.                                        *)
LEMMA AppendIs ==
  ASSUME NEW S, NEW n \in Nat, NEW s \in [1 .. n -> S], NEW x \in S
  PROVE  Append(s, x) = [d \in 1 .. n + 1 |-> IF d = n + 1 THEN x ELSE s[d]]
<1> DEFINE t == [d \in 1 .. n + 1 |-> IF d = n + 1 THEN x ELSE s[d]]
<1>1. s \in Seq(S) /\ Len(s) = n
  OBVIOUS
<1>2. t \in [1 .. n + 1 -> S] /\ \A d \in 1 .. n + 1 : t[d] = IF d = n + 1 THEN x ELSE s[d]
  OBVIOUS
<1> HIDE DEF t
<1>3. /\ Append(s, x) \in Seq(S) /\ Len(Append(s, x)) = n + 1
      /\ Append(s, x)[n + 1] = x /\ \A d \in 1 .. n : Append(s, x)[d] = s[d]
  BY <1>1, Push
<1>4. Append(s, x) \in [1 .. n + 1 -> S]
  BY <1>3, LenProperties
<1>5. \A d \in 1 .. n + 1 : Append(s, x)[d] = t[d]
  BY <1>2, <1>3
<1>6. Append(s, x) = t
  BY <1>2, <1>4, <1>5
<1> QED BY <1>6 DEF t

(* All but the last element, as a function.                                *)
LEMMA CutIs ==
  ASSUME NEW S, NEW n \in Nat, n > 0, NEW s \in [1 .. n -> S]
  PROVE  SubSeq(s, 1, Len(s) - 1) = [d \in 1 .. n - 1 |-> s[d]]
<1> DEFINE t == [d \in 1 .. n - 1 |-> s[d]]
           u == SubSeq(s, 1, Len(s) - 1)
<1>1. s \in Seq(S) /\ Len(s) = n /\ s # <<>>
  OBVIOUS
<1>2. t \in [1 .. n - 1 -> S] /\ \A d \in 1 .. n - 1 : t[d] = s[d]
  OBVIOUS
<1> HIDE DEF t
<1>3. u \in Seq(S) /\ Len(u) = n - 1 /\ \A d \in 1 .. n - 1 : u[d] = s[d]
  BY <1>1, Popped
<1> HIDE DEF u
<1>4. u \in [1 .. n - 1 -> S]
  BY <1>3, LenProperties
<1>5. u = t
  BY <1>2, <1>3, <1>4
<1> QED BY <1>5 DEF t, u

(* A Fiber of the line stays while the operations of that depth do.        *)
LEMMA FiberStays ==
  ASSUME NEW i, NEW d,
         \A f \in Fibers : HasOp(f, i, d - 1)' <=> HasOp(f, i, d - 1)
  PROVE  FiberOf(i, d)' = FiberOf(i, d)
BY DEF FiberOf, HasOp, OpOn

(* The Fiber of the only operation of that depth.                          *)
LEMMA FiberIs ==
  ASSUME NEW i, NEW d, NEW g \in Fibers,
         \A f \in Fibers : HasOp(f, i, d - 1)' <=> f = g
  PROVE  FiberOf(i, d)' = g
BY DEF FiberOf, HasOp, OpOn

\* The line of an isolate none of whose operations starts or ends.
LEMMA LineStays ==
  ASSUME NEW i, UNCHANGED depth,
         \A f \in Fibers : \A d \in 1 .. depth[i] : HasOp(f, i, d - 1)' <=> HasOp(f, i, d - 1)
  PROVE  Line(i)' = Line(i)
<1>1. \A d \in 1 .. depth[i] : FiberOf(i, d)' = FiberOf(i, d)
  BY FiberStays
<1> QED BY <1>1 DEF Line

(* An operation starts at the end of its line.                             *)
LEMMA StartBegins ==
  ASSUME IndInv, LifeInv, NEW i \in Isolates, Start(i)
  PROVE  Nesting!Begin(i, running)
<1> DEFINE fr == [kind |-> "op", iso |-> i, depth |-> depth[i],
                  entered |-> depth[i] = 0 \/ current # i]
           n == Len(stack[running])
           S == {FiberOf(i, d) : d \in 1 .. depth[i]} \cup {running}
<1> USE DEF IndInv
<1>1. fr \in Frame /\ fr.kind = "op" /\ fr.iso = i /\ fr.depth = depth[i] /\ depth[i] \in Nat
  BY DEF Frame, NestTypeOK
<1>2. /\ stack' = [stack EXCEPT ![running] = Append(@, fr)]
      /\ depth' = [depth EXCEPT ![i] = @ + 1]
      /\ UNCHANGED <<registry, running>>
      /\ i \in registry
  BY DEF Start, fiberVars, lifeVars, LifeInv, LifeTypeOK
<1>3. running \in Fibers /\ depth \in [Isolates -> Nat]
  BY DEF NestTypeOK
<1> HIDE DEF fr
<1>4. /\ \A f \in Fibers \ {running} : stack'[f] = stack[f]
      /\ DOMAIN stack'[running] = 1 .. n + 1 /\ n \in Nat
      /\ DOMAIN stack[running] = 1 .. n
      /\ stack'[running][n + 1] = fr
      /\ \A k \in 1 .. n : stack'[running][k] = stack[running][k]
  BY <1>1, <1>2, <1>3, Pushing, Frames
<1>5. \A f \in Fibers, j \in Isolates, e \in Nat :
         HasOp(f, j, e)' <=> \/ HasOp(f, j, e)
                             \/ f = running /\ j = i /\ e = depth[i]
  <2> SUFFICES ASSUME NEW f \in Fibers, NEW j \in Isolates, NEW e \in Nat
               PROVE  HasOp(f, j, e)' <=> \/ HasOp(f, j, e)
                                          \/ f = running /\ j = i /\ e = depth[i]
    OBVIOUS
  <2>1. CASE f # running
    BY <1>4, <2>1 DEF HasOp, OpOn
  <2>2. CASE f = running
    <3>1. ASSUME NEW k \in DOMAIN stack[running]
          PROVE  k \in DOMAIN stack'[running] /\ stack'[running][k] = stack[running][k]
      BY <1>4, <3>1
    <3>2. ASSUME NEW k \in DOMAIN stack'[running]
          PROVE  \/ k \in DOMAIN stack[running] /\ stack'[running][k] = stack[running][k]
                 \/ stack'[running][k] = fr
      BY <1>4, <3>2
    <3>3. \E k \in DOMAIN stack'[running] : stack'[running][k] = fr
      BY <1>4
    <3>4. HasOp(f, j, e) => HasOp(f, j, e)'
      BY <2>2, <1>4, <3>1 DEF HasOp, OpOn
    <3>5. HasOp(f, j, e)' => HasOp(f, j, e) \/ (j = i /\ e = depth[i])
      BY <2>2, <1>1, <1>2, <3>2 DEF HasOp, OpOn
    <3>6. j = i /\ e = depth[i] => HasOp(f, j, e)'
      BY <2>2, <1>1, <1>2, <3>3 DEF HasOp, OpOn
    <3> QED BY <2>2, <3>4, <3>5, <3>6
  <2> QED BY <2>1, <2>2
<1>6. PICK D \in Nat : D = depth[i] /\ fr.depth = D
  BY <1>1
<1>7. \A f \in Fibers : ~HasOp(f, i, D)
  BY <1>3, <1>6, Frames DEF HasOp, OpOn, NestInv, DepthsBelow
<1>8. \A j \in Isolates : \A d \in 1 .. depth[j] : FiberOf(j, d)' = FiberOf(j, d)
  <2> SUFFICES ASSUME NEW j \in Isolates, NEW d \in 1 .. depth[j]
               PROVE  FiberOf(j, d)' = FiberOf(j, d)
    OBVIOUS
  <2>1. d - 1 \in Nat /\ ~(j = i /\ d - 1 = depth[i])
    BY <1>3
  <2>2. \A f \in Fibers : HasOp(f, j, d - 1)' <=> HasOp(f, j, d - 1)
    BY <1>5, <2>1
  <2> QED BY <2>2, FiberStays
<1>9. FiberOf(i, D + 1)' = running
  <2>1. \A f \in Fibers : HasOp(f, i, D)' <=> f = running
    BY <1>3, <1>5, <1>6, <1>7
  <2>2. D + 1 - 1 = D
    OBVIOUS
  <2>3. \A f \in Fibers : HasOp(f, i, (D + 1) - 1)' <=> f = running
    BY <2>1, <2>2
  <2> QED BY <1>3, <2>3, FiberIs
<1>10. Line(i)' = Append(Line(i), running)
  <2>1. Line(i) \in [1 .. D -> S] /\ running \in S
    BY <1>6 DEF Line
  <2>2. \A d \in 1 .. D : Line(i)[d] = FiberOf(i, d)
    BY <1>6 DEF Line
  <2> HIDE DEF S
  <2>3. Append(Line(i), running)
          = [d \in 1 .. D + 1 |-> IF d = D + 1 THEN running ELSE Line(i)[d]]
    <3>1. \A s \in [1 .. D -> S], x \in S :
             Append(s, x) = [d \in 1 .. D + 1 |-> IF d = D + 1 THEN x ELSE s[d]]
      BY AppendIs
    <3> QED BY <2>1, <3>1
  <2>4. depth'[i] = D + 1
    BY <1>2, <1>3, <1>6
  <2>5. Line(i)' = [d \in 1 .. D + 1 |-> FiberOf(i, d)']
    BY <2>4 DEF Line
  <2>6. \A d \in 1 .. D + 1 :
           FiberOf(i, d)' = IF d = D + 1 THEN running ELSE Line(i)[d]
    BY <1>6, <1>8, <1>9, <2>2
  <2> QED BY <2>3, <2>5, <2>6
<1>11. \A j \in Isolates \ {i} : Line(j)' = Line(j)
  BY <1>2, <1>3, <1>8 DEF Line
<1> QED BY <1>2, <1>3, <1>10, <1>11 DEF Nesting!Begin, Line

(* A callback comes or goes: no line changes.                              *)
LEMMA CallbacksStay ==
  ASSUME NestTypeOK, UNCHANGED <<running, depth>>,
         \A f \in Fibers \ {running} : stack'[f] = stack[f],
         \A k \in DOMAIN stack[running] : stack[running][k].kind = "op" =>
            k \in DOMAIN stack'[running] /\ stack'[running][k] = stack[running][k],
         \A k \in DOMAIN stack'[running] : stack'[running][k].kind = "op" =>
            k \in DOMAIN stack[running] /\ stack'[running][k] = stack[running][k]
  PROVE  \A i \in Isolates : Line(i)' = Line(i)
<1>1. \A f \in Fibers : \A i, e : HasOp(f, i, e)' <=> HasOp(f, i, e)
  <2> SUFFICES ASSUME NEW f \in Fibers, NEW i, NEW e
               PROVE  HasOp(f, i, e)' <=> HasOp(f, i, e)
    OBVIOUS
  <2>1. CASE f # running
    BY <2>1 DEF HasOp, OpOn
  <2>2. CASE f = running
    BY <2>2 DEF HasOp, OpOn
  <2> QED BY <2>1, <2>2
<1> QED BY <1>1, LineStays

(* The operation whose JavaScript runs ends at the end of its line.        *)
LEMMA FinishEnds ==
  ASSUME IndInv, NEW outcome, Finish(outcome)
  PROVE  \E i \in Isolates : Nesting!End(i)
<1> DEFINE n == Len(stack[running])
<1> USE DEF IndInv
<1>1. PICK i \in Isolates, D \in Nat :
         /\ n \in DOMAIN stack[running] /\ stack[running][n].kind = "op"
         /\ Top(running) = stack[running][n] /\ running \in Fibers
         /\ i = Top(running).iso /\ D = Top(running).depth /\ depth[i] = D + 1
  <2>1. /\ n \in DOMAIN stack[running] /\ stack[running][n].kind = "op"
        /\ Top(running) = stack[running][n] /\ running \in Fibers
    BY Frames DEF Finish, ScriptRuns, InRuby, Top, NestTypeOK
  <2>2. Top(running).iso \in Isolates /\ Top(running).depth \in Nat
    BY <2>1, Frames
  <2> QED BY <2>1, <2>2 DEF Finish, ScriptRuns, NestInv, TopIsLast
<1>2. /\ stack' = [stack EXCEPT ![running] = Pop(running)]
      /\ depth' = [depth EXCEPT ![i] = @ - 1]
      /\ UNCHANGED <<registry, running>>
      /\ stack[running] # <<>>
      /\ depth \in [Isolates -> Nat]
  BY <1>1 DEF Finish, ScriptRuns, InRuby, fiberVars, NestTypeOK
<1>3. /\ \A f \in Fibers : \A k \in DOMAIN stack'[f] :
            /\ k \in DOMAIN stack[f] /\ stack'[f][k] = stack[f][k]
            /\ f = running => k # n
      /\ \A f \in Fibers : \A k \in DOMAIN stack[f] :
            f # running \/ k # n => k \in DOMAIN stack'[f]
  <2>1. /\ \A f \in Fibers \ {running} : stack'[f] = stack[f]
        /\ n \in Nat /\ DOMAIN stack[running] = 1 .. n
        /\ DOMAIN stack'[running] = 1 .. n - 1
        /\ \A k \in 1 .. n - 1 : stack'[running][k] = stack[running][k]
    BY <1>2, Popping
  <2> QED BY <2>1
<1>4. ASSUME NEW f \in Fibers, NEW j \in Isolates, NEW e \in Nat, ~(j = i /\ e = D)
      PROVE  HasOp(f, j, e)' <=> HasOp(f, j, e)
  BY <1>1, <1>3, <1>4 DEF HasOp, OpOn
<1>5. \A j \in Isolates : \A d \in 1 .. depth'[j] : FiberOf(j, d)' = FiberOf(j, d)
  <2> SUFFICES ASSUME NEW j \in Isolates, NEW d \in 1 .. depth'[j]
               PROVE  FiberOf(j, d)' = FiberOf(j, d)
    OBVIOUS
  <2>1. d - 1 \in Nat /\ ~(j = i /\ d - 1 = D)
    BY <1>1, <1>2
  <2>2. \A f \in Fibers : HasOp(f, j, d - 1)' <=> HasOp(f, j, d - 1)
    BY <1>4, <2>1
  <2> QED BY <2>2, FiberStays
<1>6. Line(i)' = SubSeq(Line(i), 1, Len(Line(i)) - 1)
  <2> DEFINE S == {FiberOf(i, d) : d \in 1 .. D + 1}
  <2>1. Line(i) \in [1 .. D + 1 -> S]
    BY <1>1 DEF Line
  <2>2. \A d \in 1 .. D + 1 : Line(i)[d] = FiberOf(i, d)
    BY <1>1 DEF Line
  <2> HIDE DEF S
  <2>3. \A s \in [1 .. D + 1 -> S] :
           SubSeq(s, 1, Len(s) - 1) = [d \in 1 .. (D + 1) - 1 |-> s[d]]
    <3>1. D + 1 \in Nat /\ D + 1 > 0
      OBVIOUS
    <3> QED BY <3>1, CutIs
  <2>4. SubSeq(Line(i), 1, Len(Line(i)) - 1) = [d \in 1 .. D |-> Line(i)[d]]
    <3>1. (D + 1) - 1 = D
      OBVIOUS
    <3> QED BY <2>1, <2>3, <3>1
  <2>5. depth'[i] = D
    BY <1>1, <1>2
  <2>6. Line(i)' = [d \in 1 .. D |-> FiberOf(i, d)']
    BY <2>5 DEF Line
  <2>7. \A d \in 1 .. D : FiberOf(i, d)' = Line(i)[d]
    BY <1>5, <2>2, <2>5
  <2> QED BY <2>4, <2>6, <2>7
<1>7. \A j \in Isolates \ {i} : Line(j)' = Line(j)
  BY <1>2, <1>5 DEF Line
<1>8. depth[i] > 0
  BY <1>1
<1>9. Nesting!End(i)
  BY ZenonT(60), <1>2, <1>6, <1>7, <1>8 DEF Nesting!End, Line
<1> QED BY <1>9

(* Every step is a step of OpNesting or changes nothing of it.             *)
LEMMA StepNests ==
  ASSUME IndInv, LifeInv, [Next]_vars
  PROVE  \/ Nesting!Next
         \/ UNCHANGED <<registry, depth>> /\ \A i \in Isolates : Line(i)' = Line(i)
<1> USE DEF IndInv
<1>1. ASSUME UNCHANGED <<stack, depth>>
      PROVE  \A i \in Isolates : Line(i)' = Line(i)
  BY <1>1 DEF Line, FiberOf, OpOn
<1>2. ASSUME NEW i \in Isolates, Start(i)
      PROVE  Nesting!Next
  <2>1. Nesting!Begin(i, running) /\ running \in Fibers
    BY <1>2, StartBegins DEF NestTypeOK
  <2>2. \E f \in Fibers : Nesting!Begin(i, f)
    BY <2>1 DEF Nesting!Begin
  <2> QED BY <2>2 DEF Nesting!Next
<1>3. ASSUME NEW i \in Isolates, New(i)
      PROVE  Nesting!Create(i)
  BY <1>1, <1>3 DEF New, Nesting!Create, Line, LifeInv, LifeTypeOK
<1>4. ASSUME NEW i \in Isolates, Teardown(i), depth[i] = 0, i \in created \ disposed,
             UNCHANGED <<stack, depth>>
      PROVE  Nesting!Destroy(i)
  BY <1>1, <1>4 DEF Teardown, Nesting!Destroy, Line, LifeInv
<1>5. ASSUME NEW i \in Isolates, IsolateStep(i)
      PROVE  \/ Nesting!Next
             \/ UNCHANGED <<registry, depth>> /\ \A j \in Isolates : Line(j)' = Line(j)
  <2>1. CASE Dispose(i)
    BY <1>4, <2>1 DEF Dispose, Nesting!Next, LifeInv, LifeTypeOK
  <2>2. CASE DropOnOwner(i) /\ depth[i] = 0
    BY <1>4, <2>2 DEF DropOnOwner, Collected, Nesting!Next
  <2>3. CASE DropOnOwner(i) /\ depth[i] # 0
    BY <1>1, <2>3 DEF DropOnOwner, Collected, LeakIt
  <2>4. CASE Release(i) \/ DropDisposed(i) \/ DropForeign(i)
    BY <1>1, <2>4 DEF Release, DropDisposed, DropForeign, Collected, LeakIt
  <2>5. CASE New(i)
    BY <1>3, <2>5 DEF Nesting!Next
  <2> QED BY <1>2, <1>5, <2>1, <2>2, <2>3, <2>4, <2>5 DEF IsolateStep
<1>6. ASSUME NEW g \in Fibers, FiberStep(g)
      PROVE  UNCHANGED <<registry, depth>> /\ \A j \in Isolates : Line(j)' = Line(j)
  BY <1>1, <1>6 DEF FiberStep, Resume, Abandon, lifeVars
<1>7. ASSUME NEW outcome \in Outcomes, Finish(outcome)
      PROVE  Nesting!Next
  <2>1. \E i \in Isolates : Nesting!End(i)
    BY <1>7, FinishEnds
  <2> QED BY <2>1 DEF Nesting!Next
<1>8. CASE CallRuby
  <2> DEFINE op == Top(running)
             fr == [kind |-> "callback", iso |-> op.iso, depth |-> depth[op.iso],
                    entered |-> FALSE]
             n == Len(stack[running])
  <2>1. /\ stack' = [stack EXCEPT ![running] = Append(@, fr)]
        /\ UNCHANGED <<running, depth, registry>>
    BY <1>8 DEF CallRuby, fiberVars, lifeVars
  <2>2. fr \in Frame /\ fr.kind = "callback"
    <3>1. op.iso \in Isolates
      BY <1>8, Frames DEF CallRuby, ScriptRuns, InRuby, Top, NestTypeOK
    <3> QED BY <3>1 DEF Frame, NestTypeOK
  <2> HIDE DEF fr
  <2>3. /\ \A f \in Fibers \ {running} : stack'[f] = stack[f]
        /\ DOMAIN stack'[running] = 1 .. n + 1
        /\ n \in Nat
        /\ stack'[running][n + 1] = fr
        /\ \A k \in 1 .. n : stack'[running][k] = stack[running][k]
        /\ DOMAIN stack[running] = 1 .. n
    BY <2>1, <2>2, Pushing, Frames DEF NestTypeOK
  <2>4. /\ \A k \in DOMAIN stack[running] :
             k \in DOMAIN stack'[running] /\ stack'[running][k] = stack[running][k]
        /\ \A k \in DOMAIN stack'[running] : stack'[running][k].kind = "op" =>
             k \in DOMAIN stack[running] /\ stack'[running][k] = stack[running][k]
    BY <2>2, <2>3
  <2> QED BY <2>1, <2>3, <2>4, CallbacksStay
<1>9. CASE ReturnRuby
  <2> DEFINE n == Len(stack[running])
  <2>1. CASE UNCHANGED stack
    BY <1>1, <1>9, <2>1 DEF ReturnRuby, lifeVars
  <2>2. CASE stack' = [stack EXCEPT ![running] = Pop(running)]
    <3>1. /\ stack[running] # <<>> /\ UNCHANGED <<running, depth, registry>>
          /\ running \in Fibers
      BY <1>9 DEF ReturnRuby, fiberVars, lifeVars, NestTypeOK
    <3>2. /\ \A f \in Fibers \ {running} : stack'[f] = stack[f]
          /\ n \in Nat /\ n > 0
          /\ DOMAIN stack[running] = 1 .. n
          /\ DOMAIN stack'[running] = 1 .. n - 1
          /\ \A k \in 1 .. n - 1 : stack'[running][k] = stack[running][k]
      BY <2>2, <3>1, Popping
    <3>3. stack[running][n].kind = "callback"
      BY <1>9, <3>1 DEF ReturnRuby, RubyRuns, InRuby, Top
    <3>4. /\ \A k \in DOMAIN stack[running] : stack[running][k].kind = "op" =>
               k \in DOMAIN stack'[running] /\ stack'[running][k] = stack[running][k]
          /\ \A k \in DOMAIN stack'[running] :
               k \in DOMAIN stack[running] /\ stack'[running][k] = stack[running][k]
      BY SMTT(30), <3>2, <3>3
    <3> QED BY <3>1, <3>2, <3>4, CallbacksStay
  <2> QED BY <1>9, <2>1, <2>2 DEF ReturnRuby
<1>10. CASE Yield \/ UNCHANGED vars
  BY <1>1, <1>10 DEF Yield, vars, lifeVars
<1> QED BY <1>5, <1>6, <1>7, <1>8, <1>9, <1>10 DEF Next

(* Core::run, with_gvl and Core::dispose: the operations on one isolate    *)
(* unwind in the reverse of the order they started, whatever Fibers they   *)
(* run on, and an isolate is destroyed only when none of them is left.     *)
THEOREM OperationsNest == Spec => ImplementsOpNesting
<1>1. Init => Nesting!Init
  BY DEF Init, Nesting!Init
<1>2. Init => IndInv /\ LifeInv /\ LeaksCounted
  <2>1. Init => LifeInv /\ LeaksCounted
    BY FS_EmptySet, MainIsFiber DEF Init, LifeInv, LifeTypeOK, AbandonedAreOff,
       UsersKeepIsolates, LeaksCounted
  <2> QED BY <2>1, IndInvInit
<1>3. IndInv /\ LifeInv /\ [Next]_vars
        => [Nesting!Next]_<<registry, depth,
                            [i \in Isolates |-> [d \in 1 .. depth[i] |-> FiberOf(i, d)]]>>
  BY StepNests DEF Line
<1> QED
  BY <1>1, <1>2, <1>3, LifeInductive, IndInvInductive, PTL
     DEF Spec, ImplementsOpNesting, Nesting!Spec
-----------------------------------------------------------------------------
(* What is entered.  Two things are not in the state and are named by an   *)
(* existential: how many of the operations of an isolate below a depth     *)
(* have entered it, and the order all operations in flight started in.     *)

EnterTypeOK ==
  /\ current \in Isolates \cup {NoIsolate}
  /\ entry \in [Isolates -> Seq(Isolates \cup {NoIsolate})]

Slotting == [Isolates -> [Nat -> Nat]]

\* s[i][d] of the first d operations on i have entered it: as many as there are
\* records of what they found current.
Slots(s) ==
  \A i \in Isolates :
     /\ s[i][depth[i]] = Len(entry[i])
     /\ \A a, b \in 0 .. depth[i] : a <= b => s[i][a] <= s[i][b]
     /\ \A f \in Fibers : \A k \in DOMAIN stack[f] : OpOn(i, f, k) =>
          LET d == stack[f][k].depth
          IN /\ stack[f][k].entered => s[i][d + 1] = s[i][d] + 1
             /\ ~stack[f][k].entered => s[i][d + 1] = s[i][d]

OnChain(f) == f = MainFiber \/ resumer[f] # NoFiber

\* r numbers the Fibers along the chain of resumes, and only Fibers on it have
\* anything on their stacks.
Ranked(r) ==
  /\ \A f \in Fibers : OnChain(f) /\ f # running => r[f] < r[running]
  /\ \A f, g \in Fibers : OnChain(f) /\ OnChain(g) /\ r[f] = r[g] => f = g
  /\ \A f, g \in Fibers : OnChain(f) /\ resumer[g] # NoFiber /\ r[f] < r[g]
                            => r[f] <= r[resumer[g]]
  /\ \A f \in Fibers : stack[f] # <<>> => OnChain(f)

\* The m-th of the n operations in flight is the frame at[m] of Fiber on[m].
Log(n, on, at) ==
  /\ \A m \in 1 .. n : /\ at[m] \in DOMAIN stack[on[m]]
                        /\ stack[on[m]][at[m]].kind = "op"
  /\ \A f \in Fibers : \A k \in DOMAIN stack[f] :
       stack[f][k].kind = "op" => \E m \in 1 .. n : on[m] = f /\ at[m] = k

\* They started in this order, each from the callback that was running.
Ordered(n, on, at, r) ==
  \A l, m \in 1 .. n : l < m => \/ r[on[l]] < r[on[m]]
                                \/ on[l] = on[m] /\ at[l] < at[m]

\* The isolate of the m-th operation, and of none.
IsoOf(m, on, at) == IF m = 0 THEN NoIsolate ELSE stack[on[m]][at[m]].iso

\* Each operation found the isolate of the one before it current, and the last
\* one's is current now.
Entering(n, on, at, s) ==
  /\ current = IsoOf(n, on, at)
  /\ \A m \in 1 .. n :
       LET fr == stack[on[m]][at[m]]
       IN /\ fr.entered =>
               entry[fr.iso][s[fr.iso][fr.depth + 1]] = IsoOf(m - 1, on, at)
          /\ ~fr.entered => m > 1 /\ IsoOf(m - 1, on, at) = fr.iso

\* Above each operation is the next one of its isolate, if any.
Stacked(n, on, at) ==
  \A m \in 1 .. n :
     LET fr == stack[on[m]][at[m]]
     IN \/ fr.depth + 1 = depth[fr.iso]
        \/ \E l \in 1 .. n : /\ m < l
                            /\ stack[on[l]][at[l]].iso = fr.iso
                            /\ stack[on[l]][at[l]].depth = fr.depth + 1

\* All that is known of the operations while no callback was yielded out of.
Nested(s) ==
  \E r \in [Fibers -> Nat], n \in Nat, on \in [Nat -> Fibers], at \in [Nat -> Nat] :
     /\ Ranked(r) /\ Log(n, on, at) /\ Ordered(n, on, at, r)
     /\ Entering(n, on, at, s) /\ Stacked(n, on, at)

EnterInv ==
  /\ EnterTypeOK
  /\ \E s \in Slotting : Slots(s) /\ (~yieldedOut => ~aborted /\ Nested(s))

\* t counts like s, and one entry of i more if the next operation on i enters it.
OneMore(s, t, i) ==
  /\ \A j \in Isolates : \A d \in 0 .. depth[j] : t[j][d] = s[j][d]
  /\ depth[i] = 0 \/ current # i => t[i][depth[i] + 1] = Len(entry[i]) + 1

(* Core::run counts one more entry, or none.                               *)
LEMMA StartSlots ==
  ASSUME IndInv, EnterTypeOK, NEW i \in Isolates, Start(i),
         NEW s \in Slotting, Slots(s)
  PROVE  /\ EnterTypeOK'
         /\ \E t \in Slotting : Slots(t)' /\ OneMore(s, t, i)
<1> DEFINE entered == depth[i] = 0 \/ current # i
           fr == [kind |-> "op", iso |-> i, depth |-> depth[i], entered |-> entered]
           n == Len(stack[running])
<1> USE DEF IndInv
<1>1. PICK D \in Nat : D = depth[i]
  BY DEF NestTypeOK
<1>2. fr \in Frame /\ fr.kind = "op" /\ fr.iso = i /\ fr.depth = D /\ (fr.entered <=> entered)
  BY <1>1 DEF Frame
<1>3. /\ stack' = [stack EXCEPT ![running] = Append(@, fr)]
      /\ depth' = [depth EXCEPT ![i] = D + 1]
      /\ IF entered THEN Enter(i) ELSE UNCHANGED entryVars
      /\ UNCHANGED running
      /\ running \in Fibers /\ depth \in [Isolates -> Nat]
  BY <1>1 DEF Start, fiberVars, NestTypeOK
<1> HIDE DEF fr
<1>4. /\ \A f \in Fibers \ {running} : stack'[f] = stack[f]
      /\ DOMAIN stack'[running] = 1 .. n + 1 /\ n \in Nat
      /\ DOMAIN stack[running] = 1 .. n
      /\ stack'[running][n + 1] = fr
      /\ \A k \in 1 .. n : stack'[running][k] = stack[running][k]
  BY <1>2, <1>3, Pushing, Frames
<1>5. PICK up \in Nat : /\ entered => up = Len(entry[i]) + 1
                        /\ ~entered => up = Len(entry[i])
                        /\ s[i][D] \in Nat /\ s[i][D] = Len(entry[i])
  <2>1. s[i][D] \in Nat /\ s[i][D] = Len(entry[i])
    BY <1>1 DEF Slots, Slotting
  <2> QED BY <2>1
<1>6. /\ EnterTypeOK'
      /\ Len(entry'[i]) = up
      /\ \A j \in Isolates \ {i} : entry'[j] = entry[j]
  <2>1. entry[i] \in Seq(Isolates \cup {NoIsolate}) /\ current \in Isolates \cup {NoIsolate}
    BY DEF EnterTypeOK
  <2>2. /\ Append(entry[i], current) \in Seq(Isolates \cup {NoIsolate})
        /\ Len(Append(entry[i], current)) = Len(entry[i]) + 1
        /\ Len(entry[i]) \in Nat
    BY <2>1, Push, LenProperties
  <2>3. CASE entered
    BY <1>3, <1>5, <2>1, <2>2, <2>3 DEF EnterTypeOK, Enter
  <2>4. CASE ~entered
    BY <1>3, <1>5, <2>1, <2>2, <2>4 DEF EnterTypeOK, entryVars
  <2> QED BY <2>3, <2>4
<1>7. PICK t : t = [s EXCEPT ![i] = [@ EXCEPT ![D + 1] = up]]
  OBVIOUS
<1>8. /\ t \in Slotting
      /\ t[i][D + 1] = up
      /\ \A d \in Nat : d # D + 1 => t[i][d] = s[i][d]
      /\ \A j \in Isolates \ {i} : t[j] = s[j]
  BY <1>7 DEF Slotting
<1>9. \A j \in Isolates : \A d \in 0 .. depth[j] : t[j][d] = s[j][d]
  BY <1>1, <1>3, <1>8
<1>10. Slots(t)'
  <2>1. ASSUME NEW j \in Isolates
        PROVE  t[j][depth'[j]] = Len(entry'[j])
    BY <1>3, <1>6, <1>8 DEF Slots
  <2>2. ASSUME NEW j \in Isolates, NEW a \in 0 .. depth'[j], NEW b \in 0 .. depth'[j], a <= b
        PROVE  t[j][a] <= t[j][b]
    <3>1. CASE j # i
      BY <1>3, <1>8, <2>2, <3>1 DEF Slots
    <3>2. CASE j = i /\ b <= D
      BY <1>1, <1>8, <2>2, <3>2 DEF Slots
    <3>3. CASE j = i /\ b = D + 1 /\ a <= D
      <4>1. a \in 0 .. D /\ D \in 0 .. D
        BY <1>3, <2>2, <3>3
      <4>2. \A x, y \in 0 .. D : x <= y => s[i][x] <= s[i][y]
        BY <1>1 DEF Slots
      <4>3. s[i][a] <= s[i][D]
        BY <3>3, <4>1, <4>2
      <4>4. s[i][a] \in Nat /\ t[i][a] = s[i][a]
        BY <1>8, <4>1 DEF Slotting
      <4> QED BY <1>5, <1>8, <3>3, <4>3, <4>4
    <3>4. CASE j = i /\ b = D + 1 /\ a = D + 1
      BY <1>5, <1>8, <3>4
    <3> QED BY <1>1, <1>3, <2>2, <3>1, <3>2, <3>3, <3>4
  <2>3. ASSUME NEW j \in Isolates, NEW f \in Fibers, NEW k \in DOMAIN stack'[f], OpOn(j, f, k)'
        PROVE  /\ stack'[f][k].entered =>
                    t[j][stack'[f][k].depth + 1] = t[j][stack'[f][k].depth] + 1
               /\ ~stack'[f][k].entered =>
                    t[j][stack'[f][k].depth + 1] = t[j][stack'[f][k].depth]
    <3>1. CASE f = running /\ k = n + 1
      <4>1. stack'[f][k] = fr /\ j = i
        BY <1>2, <1>3, <1>4, <2>3, <3>1 DEF OpOn
      <4>2. t[i][D] = s[i][D]
        BY <1>8
      <4> QED BY <1>2, <1>5, <1>8, <4>1, <4>2
    <3>2. CASE ~(f = running /\ k = n + 1)
      <4>1. k \in DOMAIN stack[f] /\ stack'[f][k] = stack[f][k] /\ OpOn(j, f, k)
        BY <1>3, <1>4, <2>3, <3>2 DEF OpOn
      <4>2. stack[f][k].depth \in Nat /\ stack[f][k].depth < depth[j]
        BY <4>1, Frames DEF OpOn, NestInv, DepthsBelow
      <4>3. /\ t[j][stack[f][k].depth] = s[j][stack[f][k].depth]
            /\ t[j][stack[f][k].depth + 1] = s[j][stack[f][k].depth + 1]
        <5>1. depth[j] \in Nat
          BY <1>3
        <5>2. stack[f][k].depth \in 0 .. depth[j] /\ stack[f][k].depth + 1 \in 0 .. depth[j]
          BY <4>2, <5>1
        <5> QED BY <1>9, <5>2
      <4>4. /\ stack[f][k].entered =>
                 s[j][stack[f][k].depth + 1] = s[j][stack[f][k].depth] + 1
            /\ ~stack[f][k].entered =>
                 s[j][stack[f][k].depth + 1] = s[j][stack[f][k].depth]
        BY <4>1 DEF Slots
      <4> QED BY <4>1, <4>3, <4>4
    <3> QED BY <3>1, <3>2
  <2> QED BY <2>1, <2>2, <2>3 DEF Slots
<1>11. depth[i] = 0 \/ current # i => t[i][depth[i] + 1] = Len(entry[i]) + 1
  BY <1>1, <1>5, <1>8
<1> QED BY <1>6, <1>8, <1>9, <1>10, <1>11 DEF OneMore

(* The record of an operation that entered its isolate is there.           *)
LEMMA SlotInRange ==
  ASSUME IndInv, NEW s \in Slotting, Slots(s), EnterTypeOK,
         NEW f \in Fibers, NEW k \in DOMAIN stack[f], stack[f][k].kind = "op",
         stack[f][k].entered
  PROVE  LET i == stack[f][k].iso
             x == s[i][stack[f][k].depth + 1]
         IN x \in Nat /\ 1 <= x /\ x <= Len(entry[i]) /\ Len(entry[i]) \in Nat
<1>1. PICK i \in Isolates, d \in Nat :
         i = stack[f][k].iso /\ d = stack[f][k].depth /\ d < depth[i] /\ depth[i] \in Nat
  BY Frames DEF IndInv, NestInv, DepthsBelow, NestTypeOK
<1>2. s[i][d + 1] = s[i][d] + 1
  BY <1>1 DEF Slots, OpOn
<1>3. d + 1 \in 0 .. depth[i] /\ depth[i] \in 0 .. depth[i]
  BY <1>1
<1>4. \A a, b \in 0 .. depth[i] : a <= b => s[i][a] <= s[i][b]
  BY <1>1 DEF Slots
<1>5. s[i][d + 1] <= s[i][depth[i]] /\ s[i][depth[i]] = Len(entry[i])
  <2>1. d + 1 <= depth[i]
    BY <1>1
  <2>2. s[i][d + 1] <= s[i][depth[i]]
    BY <1>3, <1>4, <2>1
  <2>3. s[i][depth[i]] = Len(entry[i])
    BY <1>1, Zenon DEF Slots
  <2> QED BY <2>2, <2>3
<1>6. s[i][d] \in Nat /\ s[i][d + 1] \in Nat /\ s[i][depth[i]] \in Nat
  BY <1>1 DEF Slotting
<1>7. PICK x, y, z : x = s[i][d + 1] /\ y = Len(entry[i]) /\ z = s[i][d]
  OBVIOUS
<1>8. x \in Nat /\ y \in Nat /\ z \in Nat /\ x = z + 1 /\ x <= y
  <2>1. x = z + 1 /\ x <= y
    BY <1>2, <1>5, <1>7, Zenon
  <2>2. x \in Nat /\ y \in Nat /\ z \in Nat
    BY <1>5, <1>6, <1>7, Zenon
  <2> QED BY <2>1, <2>2
<1>9. 1 <= x
  BY <1>8
<1> QED BY <1>1, <1>7, <1>8, <1>9, Zenon

(* The operation that starts is the last, and finds the isolate of the     *)
(* last one before it current.                                             *)
LEMMA StartNests ==
  ASSUME IndInv, EnterTypeOK, NEW i \in Isolates, Start(i),
         NEW s \in Slotting, Slots(s), Nested(s), NEW t \in Slotting,
         OneMore(s, t, i)
  PROVE  Nested(t)'
<1> DEFINE entered == depth[i] = 0 \/ current # i
           fr == [kind |-> "op", iso |-> i, depth |-> depth[i], entered |-> entered]
<1> USE DEF IndInv
<1>1. PICK D \in Nat, N \in Nat : D = depth[i] /\ N = Len(stack[running])
  BY Frames DEF NestTypeOK
<1>2. fr \in Frame /\ fr.kind = "op" /\ fr.iso = i /\ fr.depth = D /\ (fr.entered <=> entered)
  BY <1>1 DEF Frame
<1>3. /\ stack' = [stack EXCEPT ![running] = Append(@, fr)]
      /\ depth' = [depth EXCEPT ![i] = D + 1]
      /\ IF entered THEN Enter(i) ELSE UNCHANGED entryVars
      /\ UNCHANGED <<running, resumer>>
  BY <1>1 DEF Start, fiberVars
<1>4. running \in Fibers /\ depth \in [Isolates -> Nat]
  BY DEF NestTypeOK
<1> HIDE DEF fr
<1>5. /\ \A f \in Fibers \ {running} : stack'[f] = stack[f]
      /\ DOMAIN stack'[running] = 1 .. N + 1
      /\ DOMAIN stack[running] = 1 .. N
      /\ stack'[running][N + 1] = fr
      /\ \A k \in 1 .. N : stack'[running][k] = stack[running][k]
  BY <1>4, <1>1, <1>2, <1>3, Pushing, Frames
<1>6. depth'[i] = D + 1 /\ \A j \in Isolates \ {i} : depth'[j] = depth[j]
  BY <1>4, <1>3
<1>7. \A f \in Fibers : \A k \in DOMAIN stack[f] :
         k \in DOMAIN stack'[f] /\ stack'[f][k] = stack[f][k]
  <2>1. \A k \in 1 .. N : k \in 1 .. N + 1
    OBVIOUS
  <2> QED BY <1>5, <2>1
<1>8. \A f \in Fibers : \A k \in DOMAIN stack'[f] :
         \/ f = running /\ k = N + 1
         \/ k \in DOMAIN stack[f] /\ stack'[f][k] = stack[f][k]
  <2>1. \A k \in 1 .. N + 1 : k = N + 1 \/ k \in 1 .. N
    OBVIOUS
  <2> QED BY <1>5, <2>1
<1>9. /\ N + 1 \in DOMAIN stack'[running] /\ stack'[running][N + 1] = fr
      /\ \A k \in DOMAIN stack[running] : k < N + 1
      /\ \A f \in Fibers \ {running} : stack'[f] = stack[f]
  BY <1>4, <1>5
<1>10. PICK n \in Nat : \E r \in [Fibers -> Nat], on \in [Nat -> Fibers], at \in [Nat -> Nat] :
        /\ Ranked(r) /\ Log(n, on, at) /\ Ordered(n, on, at, r)
        /\ Entering(n, on, at, s) /\ Stacked(n, on, at)
  BY DEF Nested
<1>11. PICK r, on, at :
        /\ r \in [Fibers -> Nat] /\ on \in [Nat -> Fibers] /\ at \in [Nat -> Nat]
        /\ Ranked(r) /\ Log(n, on, at) /\ Ordered(n, on, at, r)
        /\ Entering(n, on, at, s) /\ Stacked(n, on, at)
  BY <1>10
<1>12. Ranked(r)
  BY <1>11
<1>13. Log(n, on, at)
  BY <1>11
<1>14. Ordered(n, on, at, r)
  BY <1>11
<1>15. Entering(n, on, at, s)
  BY <1>11
<1>16. Stacked(n, on, at)
  BY <1>11
<1>17. r \in [Fibers -> Nat] /\ on \in [Nat -> Fibers] /\ at \in [Nat -> Nat]
  BY <1>11
<1>18. PICK on2, at2 : on2 = [on EXCEPT ![n + 1] = running] /\ at2 = [at EXCEPT ![n + 1] = N + 1]
  OBVIOUS
<1>19. /\ on2 \in [Nat -> Fibers] /\ at2 \in [Nat -> Nat]
      /\ on2[n + 1] = running /\ at2[n + 1] = N + 1
      /\ \A m \in 1 .. n : on2[m] = on[m] /\ at2[m] = at[m]
  BY <1>4, <1>18, <1>17
<1>20. ASSUME NEW m \in 1 .. n
      PROVE  /\ on[m] \in Fibers /\ at[m] \in DOMAIN stack[on[m]]
             /\ at[m] \in DOMAIN stack'[on[m]]
             /\ stack'[on[m]][at[m]] = stack[on[m]][at[m]]
             /\ stack[on[m]][at[m]].kind = "op"
             /\ stack[on[m]][at[m]].iso \in Isolates
             /\ stack[on[m]][at[m]].depth \in Nat
             /\ stack[on[m]][at[m]].depth < depth[stack[on[m]][at[m]].iso]
  <2>1. on[m] \in Fibers /\ at[m] \in DOMAIN stack[on[m]] /\ stack[on[m]][at[m]].kind = "op"
    BY <1>13, <1>17 DEF Log
  <2> QED BY <2>1, <1>7, Frames DEF NestInv, DepthsBelow
<1>21. Ranked(r)'
  BY <1>4, <1>3, <1>7, <1>9, <1>12 DEF Ranked, OnChain, NestInv, ResumeChain
<1>22. Log(n + 1, on2, at2)'
  <2>1. ASSUME NEW m \in 1 .. n + 1
        PROVE  at2[m] \in DOMAIN stack'[on2[m]] /\ stack'[on2[m]][at2[m]].kind = "op"
    <3>1. CASE m = n + 1
      BY <1>2, <1>9, <1>19, <3>1
    <3>2. CASE m \in 1 .. n
      BY <1>19, <1>20, <3>2
    <3> QED BY <3>1, <3>2
  <2>2. ASSUME NEW f \in Fibers, NEW k \in DOMAIN stack'[f], stack'[f][k].kind = "op"
        PROVE  \E m \in 1 .. n + 1 : on2[m] = f /\ at2[m] = k
    <3>1. CASE f = running /\ k = N + 1
      BY <1>19, <3>1
    <3>2. CASE ~(f = running /\ k = N + 1)
      <4>1. k \in DOMAIN stack[f] /\ stack'[f][k] = stack[f][k]
        BY <1>8, <2>2, <3>2
      <4>2. \E m \in 1 .. n : on[m] = f /\ at[m] = k
        BY <1>13, <2>2, <4>1 DEF Log
      <4> QED BY <1>19, <4>2
    <3> QED BY <3>1, <3>2
  <2> QED BY <2>1, <2>2 DEF Log
<1>23. Ordered(n + 1, on2, at2, r)'
  <2> SUFFICES ASSUME NEW l \in 1 .. n + 1, NEW m \in 1 .. n + 1, l < m
               PROVE  \/ r[on2[l]] < r[on2[m]]
                      \/ on2[l] = on2[m] /\ at2[l] < at2[m]
    BY DEF Ordered
  <2>1. CASE m \in 1 .. n
    BY <1>14, <1>19, <2>1 DEF Ordered
  <2>2. CASE m = n + 1
    <3>1. l \in 1 .. n
      BY <2>2
    <3>2. on2[m] = running /\ at2[m] = N + 1 /\ on2[l] = on[l] /\ at2[l] = at[l]
      BY <1>19, <2>2, <3>1
    <3>3. on[l] = running => at[l] < N + 1
      BY <1>9, <1>20, <3>1
    <3>4. on[l] # running => r[on[l]] < r[running]
      <4>1. stack[on[l]] # <<>> /\ on[l] \in Fibers
        BY <1>20, <3>1
      <4> QED BY <1>12, <4>1 DEF Ranked
    <3> QED BY <3>2, <3>3, <3>4
  <2> QED BY <2>1, <2>2
<1>24. /\ \A m \in 0 .. n : IsoOf(m, on2, at2)' = IsoOf(m, on, at)
       /\ IsoOf(n + 1, on2, at2)' = i
  <2>1. ASSUME NEW m \in 0 .. n
        PROVE  IsoOf(m, on2, at2)' = IsoOf(m, on, at)
    <3>1. CASE m = 0
      BY <3>1 DEF IsoOf
    <3>2. CASE m \in 1 .. n
      BY <1>19, <1>20, <3>2 DEF IsoOf
    <3> QED BY <3>1, <3>2
  <2> QED BY <1>2, <1>9, <1>19, <2>1 DEF IsoOf
<1>25. Entering(n + 1, on2, at2, t)'
  <2>1. current' = i
    BY <1>3 DEF Enter, entryVars
  <2>2. entry[i] \in Seq(Isolates \cup {NoIsolate}) /\ current \in Isolates \cup {NoIsolate}
    BY DEF EnterTypeOK
  <2>3. /\ Append(entry[i], current)[Len(entry[i]) + 1] = current
        /\ \A x \in 1 .. Len(entry[i]) : Append(entry[i], current)[x] = entry[i][x]
    BY <2>2, Push
  <2>4. /\ \A j \in Isolates \ {i} : entry'[j] = entry[j]
        /\ \A x \in 1 .. Len(entry[i]) : entry'[i][x] = entry[i][x]
        /\ entered => entry'[i][Len(entry[i]) + 1] = current
    BY <1>3, <2>3 DEF Enter, entryVars, EnterTypeOK
  <2>5. ASSUME NEW m \in 1 .. n, stack[on[m]][at[m]].entered
        PROVE  LET f == stack[on[m]][at[m]]
               IN entry'[f.iso][t[f.iso][f.depth + 1]] = IsoOf(m - 1, on, at)
    <3>1. PICK j \in Isolates, d \in Nat :
             /\ j = stack[on[m]][at[m]].iso /\ d = stack[on[m]][at[m]].depth
             /\ d < depth[j] /\ depth[j] \in Nat
      BY <1>4, <1>3, <1>20
    <3>2. s[j][d + 1] \in 1 .. Len(entry[j])
      <4>1. LET f == stack[on[m]][at[m]]
                x == s[f.iso][f.depth + 1]
            IN x \in Nat /\ 1 <= x /\ x <= Len(entry[f.iso]) /\ Len(entry[f.iso]) \in Nat
        BY <1>20, <2>5, SlotInRange
      <4>2. PICK x, y : x = s[j][d + 1] /\ y = Len(entry[j])
        OBVIOUS
      <4>3. x \in Nat /\ 1 <= x /\ x <= y /\ y \in Nat
        BY <3>1, <4>1, <4>2, Zenon
      <4>4. x \in 1 .. y
        BY <4>3
      <4> QED BY <4>2, <4>4, Zenon
    <3>3. d + 1 \in 0 .. depth[j]
      BY <3>1
    <3>4. t[j][d + 1] = s[j][d + 1]
      BY <3>3 DEF OneMore
    <3>5. entry[j][s[j][d + 1]] = IsoOf(m - 1, on, at)
      BY <1>15, <2>5, <3>1 DEF Entering
    <3>6. entry'[j][s[j][d + 1]] = entry[j][s[j][d + 1]]
      BY <2>4, <3>2
    <3> QED BY <3>1, <3>4, <3>5, <3>6
  <2>6. ASSUME NEW m \in 1 .. n + 1
        PROVE  LET f == stack'[on2[m]][at2[m]]
               IN /\ f.entered =>
                       entry'[f.iso][t[f.iso][f.depth + 1]] = IsoOf(m - 1, on2, at2)'
                  /\ ~f.entered => m > 1 /\ IsoOf(m - 1, on2, at2)' = f.iso
    <3>1. CASE m \in 1 .. n
      <4>1. stack'[on2[m]][at2[m]] = stack[on[m]][at[m]]
        BY <1>19, <1>20, <3>1
      <4>2. m - 1 \in 0 .. n /\ IsoOf(m - 1, on2, at2)' = IsoOf(m - 1, on, at)
        BY <1>24, <3>1
      <4>3. ~stack[on[m]][at[m]].entered
              => m > 1 /\ IsoOf(m - 1, on, at) = stack[on[m]][at[m]].iso
        BY <1>15, <3>1 DEF Entering
      <4> QED BY <2>5, <3>1, <4>1, <4>2, <4>3
    <3>2. CASE m = n + 1
      <4>1. stack'[on2[m]][at2[m]] = fr
        BY <1>9, <1>19, <3>2
      <4>2. m - 1 = n /\ IsoOf(m - 1, on2, at2)' = current
        <5>1. m - 1 = n /\ n \in 0 .. n
          BY <3>2
        <5>2. IsoOf(n, on, at) = current
          BY <1>15 DEF Entering
        <5> QED BY <1>24, <5>1, <5>2
      <4>3. CASE entered
        <5>1. t[i][D + 1] = Len(entry[i]) + 1 /\ entry'[i][Len(entry[i]) + 1] = current
          BY <1>1, <2>4, <4>3 DEF OneMore
        <5> QED BY <1>2, <4>1, <4>2, <4>3, <5>1
      <4>4. CASE ~entered
        <5>1. current = i /\ i # NoIsolate
          BY <4>4, Distinct
        <5>2. n # 0
          BY <1>15, <5>1 DEF Entering, IsoOf
        <5> QED BY <1>2, <3>2, <4>1, <4>2, <4>4, <5>1, <5>2
      <4> QED BY <4>3, <4>4
    <3>3. m \in 1 .. n \/ m = n + 1
      OBVIOUS
    <3> QED BY <3>1, <3>2, <3>3
  <2> QED BY <1>24, <2>1, <2>6 DEF Entering
<1>26. Stacked(n + 1, on2, at2)'
  <2> SUFFICES ASSUME NEW m \in 1 .. n + 1
               PROVE  LET f == stack'[on2[m]][at2[m]]
                      IN \/ f.depth + 1 = depth'[f.iso]
                         \/ \E l \in 1 .. n + 1 : /\ m < l
                              /\ stack'[on2[l]][at2[l]].iso = f.iso
                              /\ stack'[on2[l]][at2[l]].depth = f.depth + 1
    BY DEF Stacked
  <2>1. CASE m = n + 1
    BY <1>2, <1>9, <1>6, <1>19, <2>1
  <2>2. CASE m \in 1 .. n
    <3>1. stack'[on2[m]][at2[m]] = stack[on[m]][at[m]]
      BY <1>19, <1>20, <2>2
    <3>2. PICK j \in Isolates, d \in Nat :
             j = stack[on[m]][at[m]].iso /\ d = stack[on[m]][at[m]].depth
      BY <1>20, <2>2
    <3>3. CASE \E l \in 1 .. n : /\ m < l
                                 /\ stack[on[l]][at[l]].iso = j
                                 /\ stack[on[l]][at[l]].depth = d + 1
      <4>1. PICK l \in 1 .. n : /\ m < l
                                /\ stack[on[l]][at[l]].iso = j
                                /\ stack[on[l]][at[l]].depth = d + 1
        BY <3>3
      <4>2. l \in 1 .. n + 1 /\ stack'[on2[l]][at2[l]] = stack[on[l]][at[l]]
        BY <1>19, <1>20, <4>1
      <4> QED BY <3>1, <3>2, <4>1, <4>2
    <3>4. CASE d + 1 = depth[j] /\ j # i
      BY <1>6, <3>1, <3>2, <3>4
    <3>5. CASE d + 1 = depth[j] /\ j = i
      <4>1. n + 1 \in 1 .. n + 1 /\ m < n + 1 /\ stack'[on2[n + 1]][at2[n + 1]] = fr
        BY <1>9, <1>19, <2>2
      <4> QED BY <1>1, <1>2, <3>1, <3>2, <3>5, <4>1
    <3> QED BY <1>16, <2>2, <3>2, <3>3, <3>4, <3>5 DEF Stacked
  <2> QED BY <2>1, <2>2
<1>27. n + 1 \in Nat
  OBVIOUS
<1>28. /\ Ranked(r)' /\ Log(n + 1, on2, at2)' /\ Ordered(n + 1, on2, at2, r)'
       /\ Entering(n + 1, on2, at2, t)' /\ Stacked(n + 1, on2, at2)'
  BY <1>21, <1>22, <1>23, <1>25, <1>26
<1> QED BY <1>19, <1>27, <1>28, <1>17 DEF Nested

\* The frame N on top of the running Fiber's stack, an operation of i at depth D,
\* the last one of i, ends.
Pops(i, D, N) ==
  /\ N = Len(stack[running]) /\ N \in DOMAIN stack[running]
  /\ Top(running) = stack[running][N] /\ stack[running][N].kind = "op"
  /\ i = stack[running][N].iso /\ D = stack[running][N].depth
  /\ depth[i] = D + 1 /\ depth'[i] = D
  /\ \A j \in Isolates \ {i} : depth'[j] = depth[j]
  /\ UNCHANGED <<running, resumer, yieldedOut, aborted>> /\ running \in Fibers
  /\ \A f \in Fibers : \A k \in DOMAIN stack'[f] :
        /\ k \in DOMAIN stack[f] /\ stack'[f][k] = stack[f][k]
        /\ ~(f = running /\ k = N)
  /\ \A f \in Fibers : \A k \in DOMAIN stack[f] :
        \/ f = running /\ k = N
        \/ k \in DOMAIN stack'[f] /\ stack'[f][k] = stack[f][k]
  /\ \A k \in DOMAIN stack[running] : k <= N
  /\ \A f \in Fibers : \A k \in DOMAIN stack[f] :
        OpOn(i, f, k) /\ ~(f = running /\ k = N) => stack[f][k].depth < D
  /\ IF stack[running][N].entered THEN Exit(i) ELSE UNCHANGED entryVars

(* What ends is the frame on top of the running Fiber, and the last        *)
(* operation of its isolate.                                               *)
LEMMA FinishPops ==
  ASSUME IndInv, NEW outcome, Finish(outcome)
  PROVE  \E i \in Isolates, D \in Nat, N \in Nat :
            Pops(i, D, N)
<1> USE DEF IndInv
<1>1. PICK N \in Nat : N = Len(stack[running])
  BY Frames DEF NestTypeOK
<1>2. /\ N \in DOMAIN stack[running] /\ stack[running][N].kind = "op"
      /\ Top(running) = stack[running][N] /\ running \in Fibers /\ stack[running] # <<>>
  BY <1>1, Frames DEF Finish, ScriptRuns, InRuby, Top, NestTypeOK
<1>3. PICK i \in Isolates, D \in Nat : i = stack[running][N].iso /\ D = stack[running][N].depth
  BY <1>2, Frames
<1>4. depth[i] = D + 1
  BY <1>2, <1>3 DEF Finish, ScriptRuns, NestInv, TopIsLast
<1>5. /\ stack' = [stack EXCEPT ![running] = Pop(running)]
      /\ depth' = [depth EXCEPT ![i] = @ - 1]
      /\ UNCHANGED <<running, resumer, yieldedOut, aborted>>
      /\ depth \in [Isolates -> Nat]
  BY <1>2, <1>3 DEF Finish, fiberVars, NestTypeOK
<1>6. IF stack[running][N].entered THEN Exit(i) ELSE UNCHANGED entryVars
  BY <1>2, <1>3 DEF Finish
<1>7. /\ \A f \in Fibers \ {running} : stack'[f] = stack[f]
      /\ DOMAIN stack[running] = 1 .. N
      /\ DOMAIN stack'[running] = 1 .. N - 1
      /\ \A k \in 1 .. N - 1 : stack'[running][k] = stack[running][k]
  BY <1>1, <1>2, <1>5, Popping
<1>8. \A k \in 1 .. N : k = N \/ k \in 1 .. N - 1
  OBVIOUS
<1>9. \A k \in 1 .. N - 1 : k \in 1 .. N /\ k # N
  OBVIOUS
<1>10. \A f \in Fibers : \A k \in DOMAIN stack'[f] :
          /\ k \in DOMAIN stack[f] /\ stack'[f][k] = stack[f][k]
          /\ ~(f = running /\ k = N)
  BY <1>7, <1>9
<1>11. \A f \in Fibers : \A k \in DOMAIN stack[f] :
          \/ f = running /\ k = N
          \/ k \in DOMAIN stack'[f] /\ stack'[f][k] = stack[f][k]
  BY <1>7, <1>8
<1>12. ASSUME NEW f \in Fibers, NEW k \in DOMAIN stack[f], OpOn(i, f, k),
              ~(f = running /\ k = N)
       PROVE  stack[f][k].depth < D
  <2>1. stack[f][k].depth < D + 1 /\ stack[f][k].depth \in Nat
    BY <1>4, <1>12, Frames DEF NestInv, DepthsBelow, OpOn
  <2>2. stack[f][k].depth # D
    BY <1>2, <1>3, <1>12 DEF NestInv, DepthsDiffer, OpOn
  <2> QED BY <2>1, <2>2
<1>13. depth'[i] = D /\ \A j \in Isolates \ {i} : depth'[j] = depth[j]
  BY <1>4, <1>5
<1>14. \A k \in DOMAIN stack[running] : k <= N
  BY <1>7
<1>15. Pops(i, D, N)
  BY <1>1, <1>2, <1>3, <1>4, <1>5, <1>6, <1>10, <1>11, <1>12, <1>13, <1>14 DEF Pops
<1> QED BY <1>15

(* The isolate that was entered is there to be exited, and the counts go   *)
(* back with the depth.                                                    *)
LEMMA FinishSlots ==
  ASSUME IndInv, EnterTypeOK, NEW outcome, Finish(outcome),
         NEW s \in Slotting, Slots(s)
  PROVE  EnterTypeOK' /\ Slots(s)'
<1> USE DEF IndInv
<1>0. PICK i \in Isolates, D \in Nat, N \in Nat : Pops(i, D, N)
  BY FinishPops
<1>1. /\ N \in DOMAIN stack[running]
      /\ stack[running][N].kind = "op"
      /\ i = stack[running][N].iso /\ D = stack[running][N].depth
      /\ depth[i] = D + 1 /\ depth'[i] = D
      /\ \A j \in Isolates \ {i} : depth'[j] = depth[j]
      /\ running \in Fibers
      /\ \A f \in Fibers : \A k \in DOMAIN stack'[f] :
            k \in DOMAIN stack[f] /\ stack'[f][k] = stack[f][k]
      /\ IF stack[running][N].entered THEN Exit(i) ELSE UNCHANGED entryVars
  BY <1>0 DEF Pops
<1>2. /\ stack[running][N].entered => s[i][D + 1] = s[i][D] + 1
      /\ ~stack[running][N].entered => s[i][D + 1] = s[i][D]
      /\ s[i][D + 1] = Len(entry[i])
      /\ s[i][D] \in Nat
  <2>1. OpOn(i, running, N)
    BY <1>1 DEF OpOn
  <2>2. s[i][D + 1] = Len(entry[i])
    BY <1>1 DEF Slots
  <2>3. s[i][D] \in Nat
    BY DEF Slotting
  <2>4. LET d == stack[running][N].depth
        IN /\ stack[running][N].entered => s[i][d + 1] = s[i][d] + 1
           /\ ~stack[running][N].entered => s[i][d + 1] = s[i][d]
    BY <1>1, <2>1, Zenon DEF Slots
  <2> QED BY <1>1, <2>2, <2>3, <2>4, Zenon
<1>3. EnterTypeOK' /\ Len(entry'[i]) = s[i][D] /\ \A j \in Isolates \ {i} : entry'[j] = entry[j]
  <2>1. CASE stack[running][N].entered
    <3>1. Len(entry[i]) = s[i][D] + 1 /\ entry[i] \in Seq(Isolates \cup {NoIsolate})
      BY <1>2, <2>1 DEF EnterTypeOK
    <3>2. entry[i] # <<>>
      BY <1>2, <3>1, EmptySeq
    <3>3. entry[i][Len(entry[i])] \in Isolates \cup {NoIsolate}
      BY <1>2, <3>1, ElementOfSeq
    <3>4. /\ SubSeq(entry[i], 1, Len(entry[i]) - 1) \in Seq(Isolates \cup {NoIsolate})
          /\ Len(SubSeq(entry[i], 1, Len(entry[i]) - 1)) = s[i][D]
      BY <1>2, <3>1, <3>2, Popped
    <3>5. Exit(i)
      BY <1>1, <2>1
    <3> QED BY <3>3, <3>4, <3>5 DEF Exit, EnterTypeOK
  <2>2. CASE ~stack[running][N].entered
    <3>1. UNCHANGED <<current, entry>>
      BY <1>1, <2>2 DEF entryVars
    <3> QED BY <1>2, <2>2, <3>1 DEF EnterTypeOK
  <2> QED BY <2>1, <2>2
<1>4. ASSUME NEW j \in Isolates
      PROVE  /\ s[j][depth'[j]] = Len(entry'[j])
             /\ \A a, b \in 0 .. depth'[j] : a <= b => s[j][a] <= s[j][b]
  <2>1. CASE j = i
    <3>1. \A a, b \in 0 .. D + 1 : a <= b => s[i][a] <= s[i][b]
      BY <1>1 DEF Slots
    <3>2. \A a \in 0 .. D : a \in 0 .. D + 1
      OBVIOUS
    <3> QED BY <1>1, <1>3, <2>1, <3>1, <3>2
  <2>2. CASE j # i
    BY <1>1, <1>3, <2>2 DEF Slots
  <2> QED BY <2>1, <2>2
<1>5. ASSUME NEW j \in Isolates, NEW f \in Fibers, NEW k \in DOMAIN stack'[f], OpOn(j, f, k)'
      PROVE  /\ stack'[f][k].entered =>
                  s[j][stack'[f][k].depth + 1] = s[j][stack'[f][k].depth] + 1
             /\ ~stack'[f][k].entered =>
                  s[j][stack'[f][k].depth + 1] = s[j][stack'[f][k].depth]
  <2>1. k \in DOMAIN stack[f] /\ stack'[f][k] = stack[f][k] /\ OpOn(j, f, k)
    BY <1>1, <1>5 DEF OpOn
  <2>2. /\ stack[f][k].entered => s[j][stack[f][k].depth + 1] = s[j][stack[f][k].depth] + 1
        /\ ~stack[f][k].entered => s[j][stack[f][k].depth + 1] = s[j][stack[f][k].depth]
    BY <2>1 DEF Slots
  <2> QED BY <2>1, <2>2
<1> QED BY <1>3, <1>4, <1>5 DEF Slots

(* The last operation of the running Fiber is the last of all.             *)
LEMMA LastOp ==
  ASSUME NEW n \in Nat, NEW r, NEW on, NEW at, NEW k \in DOMAIN stack[running],
         r \in [Fibers -> Nat], on \in [Nat -> Fibers], at \in [Nat -> Nat],
         running \in Fibers,
         Ranked(r), Log(n, on, at), Ordered(n, on, at, r),
         stack[running][k].kind = "op", k \in Nat,
         \A l \in DOMAIN stack[running] : stack[running][l].kind = "op" => l <= k
  PROVE  n > 0 /\ on[n] = running /\ at[n] = k
<1>1. PICK m \in 1 .. n : on[m] = running /\ at[m] = k
  BY DEF Log
<1>2. /\ on[n] \in Fibers /\ at[n] \in DOMAIN stack[on[n]] /\ at[n] \in Nat
      /\ stack[on[n]][at[n]].kind = "op"
  BY <1>1 DEF Log
<1>3. m < n => \/ r[running] < r[on[n]]
               \/ on[n] = running /\ k < at[n]
  BY <1>1 DEF Ordered
<1>4. on[n] # running => r[on[n]] < r[running]
  <2>1. stack[on[n]] # <<>>
    <3>1. DOMAIN <<>> = {}
      OBVIOUS
    <3> QED BY <1>2, <3>1
  <2> QED BY <1>2, <2>1 DEF Ranked
<1>5. r[on[n]] \in Nat /\ r[running] \in Nat
  BY <1>2
<1>6. on[n] = running => at[n] <= k
  BY <1>2
<1>7. m = n
  BY <1>1, <1>2, <1>3, <1>4, <1>5, <1>6
<1> QED BY <1>1, <1>7
(* The operation that ends is the last: the isolate of the one before it,  *)
(* which it found current, is current again.                               *)
LEMMA FinishNests ==
  ASSUME IndInv, EnterTypeOK, NEW outcome, Finish(outcome),
         NEW s \in Slotting, Slots(s), Nested(s)
  PROVE  Nested(s)'
<1> USE DEF IndInv
<1>1. PICK i \in Isolates, D \in Nat, N \in Nat : Pops(i, D, N)
  BY FinishPops
<1>2. PICK n \in Nat : \E r \in [Fibers -> Nat], on \in [Nat -> Fibers], at \in [Nat -> Nat] :
        /\ Ranked(r) /\ Log(n, on, at) /\ Ordered(n, on, at, r)
        /\ Entering(n, on, at, s) /\ Stacked(n, on, at)
  BY DEF Nested
<1>3. PICK r, on, at :
        /\ r \in [Fibers -> Nat] /\ on \in [Nat -> Fibers] /\ at \in [Nat -> Nat]
        /\ Ranked(r) /\ Log(n, on, at) /\ Ordered(n, on, at, r)
        /\ Entering(n, on, at, s) /\ Stacked(n, on, at)
  BY <1>2
<1>4. r \in [Fibers -> Nat] /\ on \in [Nat -> Fibers] /\ at \in [Nat -> Nat]
  BY <1>3
<1>5. Ranked(r) /\ Log(n, on, at) /\ Ordered(n, on, at, r)
  BY <1>3
<1>6. Entering(n, on, at, s)
  BY <1>3
<1>7. Stacked(n, on, at)
  BY <1>3
<1>8. n > 0 /\ on[n] = running /\ at[n] = N
  <2>1. /\ N \in DOMAIN stack[running] /\ stack[running][N].kind = "op" /\ running \in Fibers
        /\ \A k \in DOMAIN stack[running] : k <= N
    BY <1>1 DEF Pops
  <2> QED BY <1>4, <1>5, <2>1, LastOp
<1>9. PICK p \in Nat : p = n - 1 /\ n = p + 1
  BY <1>8
<1>10. ASSUME NEW m \in 1 .. n
       PROVE  /\ on[m] \in Fibers /\ at[m] \in DOMAIN stack[on[m]]
              /\ stack[on[m]][at[m]].kind = "op"
              /\ stack[on[m]][at[m]].iso \in Isolates
              /\ stack[on[m]][at[m]].depth \in Nat
  <2>1. on[m] \in Fibers /\ at[m] \in DOMAIN stack[on[m]] /\ stack[on[m]][at[m]].kind = "op"
    BY <1>4, <1>5 DEF Log
  <2> QED BY <2>1, Frames
<1>11. ASSUME NEW m \in 1 .. p
       PROVE  /\ m \in 1 .. n /\ m < n
              /\ ~(on[m] = running /\ at[m] = N)
              /\ at[m] \in DOMAIN stack'[on[m]]
              /\ stack'[on[m]][at[m]] = stack[on[m]][at[m]]
  <2>1. m \in 1 .. n /\ n \in 1 .. n /\ m < n
    BY <1>9
  <2>2. r[on[m]] < r[on[n]] \/ (on[m] = on[n] /\ at[m] < at[n])
    BY <1>5, <2>1 DEF Ordered
  <2>3. on[m] \in Fibers /\ running \in Fibers /\ r[on[m]] \in Nat /\ r[running] \in Nat
    BY <1>1, <1>4, <1>10, <2>1 DEF Pops
  <2>4. ~(on[m] = running /\ at[m] = N)
    BY <1>8, <2>2, <2>3
  <2> QED BY <1>1, <1>10, <2>1, <2>4 DEF Pops
<1>12. Ranked(r)'
  <2>1. \A f \in Fibers : stack'[f] # <<>> => stack[f] # <<>>
    <3>1. Finish(outcome) /\ running \in Fibers /\ stack \in [Fibers -> Seq(Frame)]
      BY <1>1 DEF Pops, NestTypeOK
    <3>2. /\ stack' = [stack EXCEPT ![running] = Pop(running)]
          /\ stack[running] # <<>>
      BY <3>1 DEF Finish, ScriptRuns, InRuby
    <3> QED BY <3>1, <3>2
  <2>2. UNCHANGED <<running, resumer>>
    BY <1>1 DEF Pops
  <2> QED BY <1>5, <2>1, <2>2 DEF Ranked, OnChain
<1>13. Log(p, on, at)'
  <2>1. ASSUME NEW f \in Fibers, NEW k \in DOMAIN stack'[f], stack'[f][k].kind = "op"
        PROVE  \E m \in 1 .. p : on[m] = f /\ at[m] = k
    <3>1. /\ k \in DOMAIN stack[f] /\ stack'[f][k] = stack[f][k]
          /\ ~(f = running /\ k = N)
      BY <1>1 DEF Pops
    <3>2. PICK m \in 1 .. n : on[m] = f /\ at[m] = k
      BY <1>5, <2>1, <3>1 DEF Log
    <3>3. m \in 1 .. p
      BY <1>8, <1>9, <3>1, <3>2
    <3> QED BY <3>2, <3>3
  <2>2. ASSUME NEW m \in 1 .. p
        PROVE  at[m] \in DOMAIN stack'[on[m]] /\ stack'[on[m]][at[m]].kind = "op"
    BY <1>10, <1>11
  <2> QED BY <2>1, <2>2 DEF Log
<1>14. Ordered(p, on, at, r)'
  BY <1>5, <1>11 DEF Ordered
<1>15. ASSUME NEW m \in 0 .. p
       PROVE  IsoOf(m, on, at)' = IsoOf(m, on, at)
  <2>1. m = 0 \/ m \in 1 .. p
    OBVIOUS
  <2> QED BY <1>11, <2>1 DEF IsoOf
<1>16. /\ stack[on[n]][at[n]] = stack[running][N]
       /\ i = stack[running][N].iso /\ D = stack[running][N].depth
       /\ depth[i] = D + 1 /\ depth'[i] = D
       /\ \A j \in Isolates \ {i} : depth'[j] = depth[j]
       /\ n \in 1 .. n
  BY <1>1, <1>8 DEF Pops
<1>17. current = i
  <2>1. current = IsoOf(n, on, at)
    BY <1>6 DEF Entering
  <2> QED BY <1>8, <1>16, <2>1 DEF IsoOf
<1>18. EnterTypeOK' /\ Slots(s)'
  BY FinishSlots
<1>19. current' = IsoOf(p, on, at)
  <2>1. CASE stack[running][N].entered
    <3>1. entry[i][s[i][D + 1]] = IsoOf(n - 1, on, at)
      BY ZenonT(60), <1>6, <1>16, <2>1 DEF Entering
    <3>2. s[i][D + 1] = Len(entry[i])
      BY <1>16 DEF Slots
    <3>3. current' = entry[i][Len(entry[i])]
      BY <1>1, <2>1 DEF Pops, Exit
    <3> QED BY <1>9, <3>1, <3>2, <3>3
  <2>2. CASE ~stack[running][N].entered
    <3>1. IsoOf(n - 1, on, at) = i
      BY <1>6, <1>16, <2>2 DEF Entering
    <3>2. current' = current
      BY <1>1, <2>2 DEF Pops, entryVars
    <3> QED BY <1>9, <1>17, <3>1, <3>2
  <2> QED BY <2>1, <2>2
<1>20. /\ \A j \in Isolates \ {i} : entry'[j] = entry[j]
       /\ \A x \in 1 .. Len(entry'[i]) : entry'[i][x] = entry[i][x]
       /\ Len(entry'[i]) = s[i][D]
       /\ s[i][D] \in Nat
  <2>1. Len(entry'[i]) = s[i][D] /\ s[i][D] \in Nat
    BY <1>16, <1>18 DEF Slots, Slotting
  <2>2. CASE stack[running][N].entered
    <3>1. Exit(i)
      BY <1>1, <2>2 DEF Pops
    <3>2. entry[i] \in Seq(Isolates \cup {NoIsolate}) /\ entry \in [Isolates -> Seq(Isolates \cup {NoIsolate})]
      BY DEF EnterTypeOK
    <3>3. s[i][D + 1] = s[i][D] + 1 /\ s[i][D + 1] = Len(entry[i])
      <4>1. OpOn(i, running, N) /\ N \in DOMAIN stack[running] /\ running \in Fibers
        BY <1>1 DEF OpOn, Pops
      <4> QED BY SMTT(30), <1>16, <2>2, <4>1 DEF Slots
    <3>4. entry[i] # <<>>
      BY <2>1, <3>3, EmptySeq
    <3>5. entry'[i] = SubSeq(entry[i], 1, Len(entry[i]) - 1)
      BY <3>1, <3>2 DEF Exit
    <3>6. \A x \in 1 .. Len(entry[i]) - 1 : entry'[i][x] = entry[i][x]
      BY <3>2, <3>4, <3>5, Popped
    <3>7. Len(entry'[i]) = Len(entry[i]) - 1
      BY <3>2, <3>4, <3>5, Popped
    <3> QED BY <2>1, <3>1, <3>2, <3>6, <3>7 DEF Exit
  <2>3. CASE ~stack[running][N].entered
    BY <1>1, <2>1, <2>3 DEF Pops, entryVars
  <2> QED BY <2>2, <2>3
<1>21. Entering(p, on, at, s)'
  <2>1. ASSUME NEW m \in 1 .. p, stack[on[m]][at[m]].entered
        PROVE  LET f == stack[on[m]][at[m]]
               IN entry'[f.iso][s[f.iso][f.depth + 1]] = IsoOf(m - 1, on, at)
    <3>1. m \in 1 .. n
      BY <1>11
    <3>2. PICK j \in Isolates, d \in Nat :
             j = stack[on[m]][at[m]].iso /\ d = stack[on[m]][at[m]].depth
      BY <1>10, <3>1
    <3>3. entry[j][s[j][d + 1]] = IsoOf(m - 1, on, at)
      BY <1>6, <2>1, <3>1, <3>2 DEF Entering
    <3>4. CASE j # i
      BY <1>20, <3>2, <3>3, <3>4
    <3>5. CASE j = i
      <4>1. s[i][d + 1] \in Nat /\ 1 <= s[i][d + 1]
        <5>1. LET f == stack[on[m]][at[m]]
                  x == s[f.iso][f.depth + 1]
              IN x \in Nat /\ 1 <= x /\ x <= Len(entry[f.iso]) /\ Len(entry[f.iso]) \in Nat
          BY <1>10, <2>1, <3>1, SlotInRange
        <5> QED BY <3>2, <3>5, <5>1
      <4>2. d < D
        <5>1. OpOn(i, on[m], at[m])
          BY <1>10, <3>1, <3>2, <3>5 DEF OpOn
        <5> QED BY <1>1, <1>10, <1>11, <3>1, <3>2, <5>1 DEF Pops
      <4>3. \A a, b \in 0 .. D + 1 : a <= b => s[i][a] <= s[i][b]
        BY <1>16 DEF Slots
      <4>4. s[i][d + 1] <= s[i][D]
        <5>1. d + 1 \in 0 .. D + 1 /\ D \in 0 .. D + 1 /\ d + 1 <= D
          BY <4>2
        <5> QED BY <4>3, <5>1
      <4>5. s[i][d + 1] \in 1 .. Len(entry'[i])
        BY <1>20, <4>1, <4>4
      <4> QED BY ZenonT(60), <1>20, <3>2, <3>3, <3>5, <4>5
    <3> QED BY <3>4, <3>5
  <2>2. ASSUME NEW m \in 1 .. p
        PROVE  LET f == stack'[on[m]][at[m]]
               IN /\ f.entered =>
                       entry'[f.iso][s[f.iso][f.depth + 1]] = IsoOf(m - 1, on, at)'
                  /\ ~f.entered => m > 1 /\ IsoOf(m - 1, on, at)' = f.iso
    <3>1. m \in 1 .. n /\ stack'[on[m]][at[m]] = stack[on[m]][at[m]]
      BY <1>11
    <3>2. m - 1 \in 0 .. p /\ IsoOf(m - 1, on, at)' = IsoOf(m - 1, on, at)
      BY <1>15
    <3>3. ~stack[on[m]][at[m]].entered
              => m > 1 /\ IsoOf(m - 1, on, at) = stack[on[m]][at[m]].iso
      BY <1>6, <3>1 DEF Entering
    <3> QED BY <2>1, <3>1, <3>2, <3>3
  <2>3. p \in 0 .. p
    OBVIOUS
  <2> QED BY <1>15, <1>19, <2>2, <2>3 DEF Entering
<1>22. Stacked(p, on, at)'
  <2> SUFFICES ASSUME NEW m \in 1 .. p
               PROVE  LET f == stack'[on[m]][at[m]]
                      IN \/ f.depth + 1 = depth'[f.iso]
                         \/ \E l \in 1 .. p : /\ m < l
                              /\ stack'[on[l]][at[l]].iso = f.iso
                              /\ stack'[on[l]][at[l]].depth = f.depth + 1
    BY DEF Stacked
  <2>1. m \in 1 .. n /\ stack'[on[m]][at[m]] = stack[on[m]][at[m]]
    BY <1>11
  <2>2. PICK j \in Isolates, d \in Nat :
           j = stack[on[m]][at[m]].iso /\ d = stack[on[m]][at[m]].depth
    BY <1>10, <2>1
  <2>3. CASE \E l \in 1 .. n : /\ m < l
                               /\ stack[on[l]][at[l]].iso = j
                               /\ stack[on[l]][at[l]].depth = d + 1
    <3>1. PICK l \in 1 .. n : /\ m < l
                              /\ stack[on[l]][at[l]].iso = j
                              /\ stack[on[l]][at[l]].depth = d + 1
      BY <2>3
    <3>2. CASE l = n
      <4>1. j = i /\ D = d + 1
        BY <1>16, <3>1, <3>2
      <4> QED BY <1>16, <2>1, <2>2, <4>1
    <3>3. CASE l \in 1 .. p
      <4>1. stack'[on[l]][at[l]] = stack[on[l]][at[l]]
        BY <1>11, <3>3
      <4> QED BY <2>1, <2>2, <3>1, <3>3, <4>1
    <3>4. l = n \/ l \in 1 .. p
      BY <1>9
    <3> QED BY <3>2, <3>3, <3>4
  <2>4. CASE d + 1 = depth[j]
    <3>1. j # i
      <4>1. ASSUME j = i
            PROVE  d < D
        <5>1. OpOn(i, on[m], at[m])
          BY <1>10, <2>1, <2>2, <4>1 DEF OpOn
        <5> QED BY <1>1, <1>10, <1>11, <2>1, <2>2, <5>1 DEF Pops
      <4> QED BY <1>16, <2>4, <4>1
    <3> QED BY <1>16, <2>1, <2>2, <2>4, <3>1
  <2> QED BY <1>7, <2>1, <2>2, <2>3, <2>4 DEF Stacked
<1>23. /\ Ranked(r)' /\ Log(p, on, at)' /\ Ordered(p, on, at, r)'
       /\ Entering(p, on, at, s)' /\ Stacked(p, on, at)'
  BY <1>12, <1>13, <1>14, <1>21, <1>22
<1> QED BY <1>4, <1>23 DEF Nested

(* A step that neither starts nor ends an operation, nor switches Fibers.  *)
LEMMA SameOps ==
  ASSUME IndInv, UNCHANGED <<running, resumer, depth, current, entry>>, NEW s,
         \A f \in Fibers : \A k \in DOMAIN stack[f] : stack[f][k].kind = "op" =>
            k \in DOMAIN stack'[f] /\ stack'[f][k] = stack[f][k],
         \A f \in Fibers : \A k \in DOMAIN stack'[f] : stack'[f][k].kind = "op" =>
            k \in DOMAIN stack[f] /\ stack'[f][k] = stack[f][k],
         \A f \in Fibers : stack'[f] # <<>> => stack[f] # <<>> \/ f = running
  PROVE  (Slots(s) => Slots(s)') /\ (Nested(s) => Nested(s)')
<1>1. ASSUME Slots(s)
      PROVE  Slots(s)'
  <2>1. ASSUME NEW j \in Isolates
        PROVE  /\ s[j][depth'[j]] = Len(entry'[j])
               /\ \A a, b \in 0 .. depth'[j] : a <= b => s[j][a] <= s[j][b]
    BY <1>1 DEF Slots
  <2>2. ASSUME NEW j \in Isolates, NEW f \in Fibers, NEW k \in DOMAIN stack'[f], OpOn(j, f, k)'
        PROVE  /\ stack'[f][k].entered =>
                    s[j][stack'[f][k].depth + 1] = s[j][stack'[f][k].depth] + 1
               /\ ~stack'[f][k].entered =>
                    s[j][stack'[f][k].depth + 1] = s[j][stack'[f][k].depth]
    <3>1. k \in DOMAIN stack[f] /\ stack'[f][k] = stack[f][k] /\ OpOn(j, f, k)
      BY <2>2 DEF OpOn
    <3>2. /\ stack[f][k].entered => s[j][stack[f][k].depth + 1] = s[j][stack[f][k].depth] + 1
          /\ ~stack[f][k].entered => s[j][stack[f][k].depth + 1] = s[j][stack[f][k].depth]
      BY <1>1, <3>1 DEF Slots
    <3> QED BY <3>1, <3>2
  <2> QED BY <2>1, <2>2 DEF Slots
<1>2. ASSUME NEW r \in [Fibers -> Nat], NEW n \in Nat, NEW on \in [Nat -> Fibers],
             NEW at \in [Nat -> Nat],
             Ranked(r), Log(n, on, at), Ordered(n, on, at, r),
             Entering(n, on, at, s), Stacked(n, on, at)
      PROVE  /\ Ranked(r)' /\ Log(n, on, at)' /\ Ordered(n, on, at, r)'
             /\ Entering(n, on, at, s)' /\ Stacked(n, on, at)'
  <2>1. OnChain(running)
    BY DEF IndInv, NestInv, ResumeChain, OnChain
  <2>2. Ranked(r)'
    BY <1>2, <2>1 DEF Ranked, OnChain
  <2>3. ASSUME NEW m \in 1 .. n
        PROVE  /\ on[m] \in Fibers /\ at[m] \in DOMAIN stack[on[m]]
               /\ stack[on[m]][at[m]].kind = "op"
               /\ at[m] \in DOMAIN stack'[on[m]]
               /\ stack'[on[m]][at[m]] = stack[on[m]][at[m]]
    <3>1. /\ on[m] \in Fibers /\ at[m] \in DOMAIN stack[on[m]]
          /\ stack[on[m]][at[m]].kind = "op"
      <4>1. Log(n, on, at)
        BY <1>2
      <4> QED BY <4>1 DEF Log
    <3> QED BY <3>1
  <2>4. Log(n, on, at)'
    <3>1. ASSUME NEW f \in Fibers, NEW k \in DOMAIN stack'[f], stack'[f][k].kind = "op"
          PROVE  \E m \in 1 .. n : on[m] = f /\ at[m] = k
      <4>1. k \in DOMAIN stack[f] /\ stack[f][k].kind = "op"
        BY <3>1
      <4> QED BY ZenonT(60), <1>2, <4>1 DEF Log
    <3> QED BY <2>3, <3>1 DEF Log
  <2>5. Ordered(n, on, at, r)'
    BY <1>2 DEF Ordered
  <2>6. ASSUME NEW m \in 0 .. n
        PROVE  IsoOf(m, on, at)' = IsoOf(m, on, at)
    <3>1. m = 0 \/ m \in 1 .. n
      OBVIOUS
    <3> QED BY <2>3, <3>1 DEF IsoOf
  <2>7. Entering(n, on, at, s)'
    <3>1. ASSUME NEW m \in 1 .. n
          PROVE  LET f == stack'[on[m]][at[m]]
                 IN /\ f.entered =>
                         entry'[f.iso][s[f.iso][f.depth + 1]] = IsoOf(m - 1, on, at)'
                    /\ ~f.entered => m > 1 /\ IsoOf(m - 1, on, at)' = f.iso
      <4>1. m - 1 \in 0 .. n
        OBVIOUS
      <4> QED BY ZenonT(60), <1>2, <2>3, <2>6, <4>1 DEF Entering
    <3>2. current' = IsoOf(n, on, at)'
      <4>1. n \in 0 .. n
        OBVIOUS
      <4> QED BY <1>2, <2>6, <4>1 DEF Entering
    <3> QED BY <3>1, <3>2 DEF Entering
  <2>8. Stacked(n, on, at)'
    <3> SUFFICES ASSUME NEW m \in 1 .. n
                 PROVE  LET f == stack'[on[m]][at[m]]
                        IN \/ f.depth + 1 = depth'[f.iso]
                           \/ \E l \in 1 .. n : /\ m < l
                                /\ stack'[on[l]][at[l]].iso = f.iso
                                /\ stack'[on[l]][at[l]].depth = f.depth + 1
      BY DEF Stacked
    <3>1. stack'[on[m]][at[m]] = stack[on[m]][at[m]] /\ depth' = depth
      BY <2>3
    <3>2. LET f == stack[on[m]][at[m]]
          IN \/ f.depth + 1 = depth[f.iso]
             \/ \E l \in 1 .. n : /\ m < l
                                  /\ stack[on[l]][at[l]].iso = f.iso
                                  /\ stack[on[l]][at[l]].depth = f.depth + 1
      BY <1>2 DEF Stacked
    <3> QED BY <2>3, <3>1, <3>2
  <2> QED BY <2>2, <2>4, <2>5, <2>7, <2>8
<1>3. Nested(s) => Nested(s)'
  BY <1>2 DEF Nested
<1> QED BY <1>1, <1>3

(* Where a callback returns while none was yielded out of, the operation   *)
(* below it is the last of its isolate.                                    *)
LEMMA ReturnFits ==
  ASSUME IndInv, stack[running] # <<>>, InRuby(running), NEW s, Nested(s)
  PROVE  depth[Top(running).iso] = Top(running).depth
<1> USE DEF IndInv
<1>1. PICK N \in Nat :
        /\ N \in DOMAIN stack[running] /\ N > 0
        /\ Top(running) = stack[running][N] /\ stack[running][N].kind = "callback"
        /\ DOMAIN stack[running] = 1 .. N
        /\ running \in Fibers
  BY Frames DEF Top, InRuby, NestTypeOK
<1>2. PICK k \in Nat :
        /\ k + 1 = N /\ k \in DOMAIN stack[running] /\ stack[running][k].kind = "op"
        /\ stack[running][k].iso = Top(running).iso
        /\ Top(running).depth = stack[running][k].depth + 1
  <2>1. /\ N > 1 /\ stack[running][N - 1].kind = "op"
        /\ stack[running][N - 1].iso = stack[running][N].iso
        /\ stack[running][N].depth = stack[running][N - 1].depth + 1
    BY <1>1 DEF NestInv, Alternation, OpOn
  <2>2. N - 1 \in Nat /\ N - 1 \in 1 .. N /\ (N - 1) + 1 = N
    BY <2>1
  <2> QED BY <1>1, <2>1, <2>2
<1>3. PICK n \in Nat : \E r \in [Fibers -> Nat], on \in [Nat -> Fibers], at \in [Nat -> Nat] :
        /\ Ranked(r) /\ Log(n, on, at) /\ Ordered(n, on, at, r) /\ Stacked(n, on, at)
  BY DEF Nested
<1>4. PICK r, on, at :
        /\ r \in [Fibers -> Nat] /\ on \in [Nat -> Fibers] /\ at \in [Nat -> Nat]
        /\ Ranked(r) /\ Log(n, on, at) /\ Ordered(n, on, at, r) /\ Stacked(n, on, at)
  BY <1>3
<1>5. \A l \in DOMAIN stack[running] : stack[running][l].kind = "op" => l <= k
  BY <1>1, <1>2
<1>6. n > 0 /\ on[n] = running /\ at[n] = k
  <2>1. r \in [Fibers -> Nat] /\ on \in [Nat -> Fibers] /\ at \in [Nat -> Nat]
    BY <1>4
  <2>2. Ranked(r) /\ Log(n, on, at) /\ Ordered(n, on, at, r)
    BY <1>4
  <2>3. k \in DOMAIN stack[running] /\ stack[running][k].kind = "op" /\ running \in Fibers
    BY <1>1, <1>2
  <2> QED BY <1>5, <2>1, <2>2, <2>3, LastOp
<1>7. n \in 1 .. n /\ ~\E l \in 1 .. n : n < l
  BY <1>6
<1>8. stack[running][k].depth + 1 = depth[stack[running][k].iso]
  BY <1>4, <1>6, <1>7 DEF Stacked
<1> QED BY <1>2, <1>8

(* A Fiber that is resumed comes last on the chain.                        *)
LEMMA ResumeNests ==
  ASSUME IndInv, NEW g \in Fibers, Resume(g), NEW s, Nested(s), UNCHANGED <<current, entry>>
  PROVE  Nested(s)'
<1> USE DEF IndInv
<1>1. /\ UNCHANGED <<stack, depth>> /\ running' = g
      /\ resumer' = [resumer EXCEPT ![g] = running]
      /\ g # MainFiber /\ g # running /\ resumer[g] = NoFiber
      /\ running \in Fibers /\ resumer \in [Fibers -> Fibers \cup {NoFiber}]
  BY DEF Resume, NestTypeOK
<1>2. PICK n \in Nat : \E r \in [Fibers -> Nat], on \in [Nat -> Fibers], at \in [Nat -> Nat] :
        /\ Ranked(r) /\ Log(n, on, at) /\ Ordered(n, on, at, r)
        /\ Entering(n, on, at, s) /\ Stacked(n, on, at)
  BY DEF Nested
<1>3. PICK r, on, at :
        /\ r \in [Fibers -> Nat] /\ on \in [Nat -> Fibers] /\ at \in [Nat -> Nat]
        /\ Ranked(r) /\ Log(n, on, at) /\ Ordered(n, on, at, r)
        /\ Entering(n, on, at, s) /\ Stacked(n, on, at)
  BY <1>2
<1>4. PICK q : q = [r EXCEPT ![g] = r[running] + 1]
  OBVIOUS
<1>5. /\ q \in [Fibers -> Nat] /\ q[g] = r[running] + 1
      /\ \A f \in Fibers \ {g} : q[f] = r[f]
      /\ \A f \in Fibers : r[f] \in Nat
  BY <1>1, <1>3, <1>4
<1>6. /\ \A f \in Fibers : OnChain(f)' <=> OnChain(f) \/ f = g
      /\ ~OnChain(g) /\ OnChain(running)
  BY <1>1, Distinct DEF OnChain, NestInv, ResumeChain
<1>7. ASSUME NEW f \in Fibers, OnChain(f)
      PROVE  f # g /\ q[f] = r[f] /\ r[f] <= r[running]
  <2>1. f # g /\ q[f] = r[f]
    BY <1>5, <1>6, <1>7
  <2>2. f # running => r[f] < r[running]
    BY <1>3, <1>7 DEF Ranked
  <2> QED BY <1>1, <1>5, <2>1, <2>2
<1>8. Ranked(q)'
  <2>1. ASSUME NEW f \in Fibers, OnChain(f)', f # g
        PROVE  q[f] < q[g]
    BY <1>1, <1>5, <1>6, <1>7, <2>1
  <2>2. ASSUME NEW f \in Fibers, NEW h \in Fibers, OnChain(f)', OnChain(h)', q[f] = q[h]
        PROVE  f = h
    <3>1. CASE f # g /\ h # g
      BY <1>3, <1>6, <1>7, <2>2, <3>1 DEF Ranked
    <3>2. CASE f = g \/ h = g
      <4>1. \A e \in Fibers : q[e] \in Nat
        BY <1>5
      <4> QED BY <2>1, <2>2, <3>2, <4>1
    <3> QED BY <3>1, <3>2
  <2>3. ASSUME NEW f \in Fibers, NEW h \in Fibers, OnChain(f)', resumer'[h] # NoFiber, q[f] < q[h]
        PROVE  q[f] <= q[resumer'[h]]
    <3>1. CASE h = g
      <4>1. f # g
        BY <1>5, <2>3, <3>1
      <4>2. resumer'[h] = running /\ OnChain(f)
        BY <1>1, <1>6, <2>3, <3>1, <4>1
      <4> QED BY <1>1, <1>6, <1>7, <4>2
    <3>2. CASE h # g
      <4>1. resumer'[h] = resumer[h] /\ OnChain(h) /\ resumer[h] \in Fibers
        BY <1>1, <2>3, <3>2 DEF OnChain
      <4>2. f # g
        BY <1>1, <1>5, <1>7, <2>3, <3>2, <4>1
      <4>3. OnChain(f) /\ OnChain(resumer[h])
        BY <1>6, <2>3, <4>1, <4>2 DEF OnChain, NestInv, ResumeChain
      <4>4. r[f] < r[h]
        BY <1>7, <2>3, <4>1, <4>3
      <4>5. r[f] <= r[resumer[h]]
        BY <1>3, <2>3, <4>1, <4>3, <4>4 DEF Ranked
      <4> QED BY <1>7, <4>1, <4>3, <4>5
    <3> QED BY <3>1, <3>2
  <2>4. \A f \in Fibers : stack'[f] # <<>> => OnChain(f)'
    BY <1>1, <1>3, <1>6 DEF Ranked
  <2> QED BY <1>1, <2>1, <2>2, <2>3, <2>4 DEF Ranked
<1>9. Log(n, on, at)'
  BY <1>1, <1>3 DEF Log
<1>10. Ordered(n, on, at, q)'
  <2>1. ASSUME NEW m \in 1 .. n
        PROVE  q[on[m]] = r[on[m]]
    <3>1. on[m] \in Fibers /\ at[m] \in DOMAIN stack[on[m]]
      BY <1>3 DEF Log
    <3>2. stack[on[m]] # <<>>
      <4>1. DOMAIN <<>> = {}
        OBVIOUS
      <4> QED BY <3>1, <4>1
    <3> QED BY <1>3, <1>7, <3>1, <3>2 DEF Ranked
  <2> QED BY <1>3, <2>1 DEF Ordered
<1>11. Entering(n, on, at, s)' /\ Stacked(n, on, at)'
  BY <1>1, <1>3 DEF Entering, Stacked, IsoOf
<1>12. q \in [Fibers -> Nat] /\ on \in [Nat -> Fibers] /\ at \in [Nat -> Nat]
  BY <1>3, <1>5
<1>13. /\ Ranked(q)' /\ Log(n, on, at)' /\ Ordered(n, on, at, q)'
       /\ Entering(n, on, at, s)' /\ Stacked(n, on, at)'
  BY <1>8, <1>9, <1>10, <1>11
<1> QED BY <1>12, <1>13 DEF Nested

(* Where a Fiber with nothing on its stack gives control back, the chain   *)
(* loses its end.                                                          *)
LEMMA YieldNests ==
  ASSUME IndInv, Yield, stack[running] = <<>>, NEW s, Nested(s)
  PROVE  Nested(s)'
<1> USE DEF IndInv
<1>1. /\ UNCHANGED <<stack, depth, current, entry>> /\ running' = resumer[running]
      /\ resumer' = [resumer EXCEPT ![running] = NoFiber]
      /\ running # MainFiber /\ resumer[running] # NoFiber
      /\ running \in Fibers /\ resumer \in [Fibers -> Fibers \cup {NoFiber}]
  BY DEF Yield, NestTypeOK, NestInv, ResumeChain, entryVars
<1>2. PICK n \in Nat : \E r \in [Fibers -> Nat], on \in [Nat -> Fibers], at \in [Nat -> Nat] :
        /\ Ranked(r) /\ Log(n, on, at) /\ Ordered(n, on, at, r)
        /\ Entering(n, on, at, s) /\ Stacked(n, on, at)
  BY DEF Nested
<1>3. PICK r, on, at :
        /\ r \in [Fibers -> Nat] /\ on \in [Nat -> Fibers] /\ at \in [Nat -> Nat]
        /\ Ranked(r) /\ Log(n, on, at) /\ Ordered(n, on, at, r)
        /\ Entering(n, on, at, s) /\ Stacked(n, on, at)
  BY <1>2
<1>4. PICK h \in Fibers : h = resumer[running]
  BY <1>1
<1>5. \A f \in Fibers : OnChain(f)' <=> OnChain(f) /\ f # running
  BY <1>1 DEF OnChain
<1>6. OnChain(h) /\ h # running
  BY <1>1, <1>4 DEF OnChain, NestInv, ResumeChain
<1>7. \A f \in Fibers : r[f] \in Nat
  BY <1>3
<1>8. Ranked(r)'
  <2>1. ASSUME NEW f \in Fibers, OnChain(f), f # running, f # h
        PROVE  r[f] < r[h]
    <3>1. r[f] < r[running]
      BY <1>3, <2>1 DEF Ranked
    <3>2. r[f] <= r[h]
      BY <1>1, <1>3, <1>4, <2>1, <3>1 DEF Ranked
    <3>3. r[f] # r[h]
      BY <1>3, <1>6, <2>1 DEF Ranked
    <3> QED BY <1>7, <3>2, <3>3
  <2>2. ASSUME NEW f \in Fibers, NEW e \in Fibers, OnChain(f)', resumer'[e] # NoFiber, r[f] < r[e]
        PROVE  r[f] <= r[resumer'[e]]
    <3>1. resumer'[e] = resumer[e] /\ OnChain(f)
      BY <1>1, <1>5, <2>2
    <3> QED BY <1>3, <2>2, <3>1 DEF Ranked
  <2>3. \A f \in Fibers : stack'[f] # <<>> => OnChain(f)'
    BY <1>1, <1>3, <1>5 DEF Ranked
  <2>4. \A f, e \in Fibers : OnChain(f) /\ OnChain(e) /\ r[f] = r[e] => f = e
    BY <1>3 DEF Ranked
  <2>5. running' = h
    BY <1>1, <1>4
  <2> QED BY <1>5, <2>1, <2>2, <2>3, <2>4, <2>5 DEF Ranked
<1>9. Log(n, on, at)' /\ Ordered(n, on, at, r)'
  BY <1>1, <1>3 DEF Log, Ordered
<1>10. Entering(n, on, at, s)' /\ Stacked(n, on, at)'
  BY <1>1, <1>3 DEF Entering, Stacked, IsoOf
<1>11. r \in [Fibers -> Nat] /\ on \in [Nat -> Fibers] /\ at \in [Nat -> Nat]
  BY <1>3
<1>12. /\ Ranked(r)' /\ Log(n, on, at)' /\ Ordered(n, on, at, r)'
       /\ Entering(n, on, at, s)' /\ Stacked(n, on, at)'
  BY <1>8, <1>9, <1>10
<1> QED BY <1>11, <1>12 DEF Nested

(* Every step keeps it.                                                    *)
LEMMA EnterInductive == IndInv /\ EnterInv /\ [Next]_vars => EnterInv'
<1> SUFFICES ASSUME IndInv, EnterInv, [Next]_vars
             PROVE  EnterInv'
  OBVIOUS
<1> USE DEF IndInv
<1>1. PICK s \in Slotting : Slots(s) /\ (~yieldedOut => ~aborted /\ Nested(s))
  BY DEF EnterInv
<1>2. EnterTypeOK
  BY DEF EnterInv
<1>3. ASSUME UNCHANGED <<stack, running, resumer, yieldedOut, aborted, depth, entryVars>>
      PROVE  EnterInv'
  <2>1. Slots(s)' /\ (Nested(s) => Nested(s)')
    BY <1>1, <1>3, SameOps DEF entryVars
  <2> QED BY <1>1, <1>2, <1>3, <2>1 DEF EnterInv, EnterTypeOK, entryVars
<1>4. ASSUME NEW i \in Isolates, Start(i)
      PROVE  EnterInv'
  <2>1. EnterTypeOK' /\ \E t \in Slotting : Slots(t)' /\ OneMore(s, t, i)
    BY <1>1, <1>2, <1>4, StartSlots
  <2>2. PICK t \in Slotting : Slots(t)' /\ OneMore(s, t, i)
    BY <2>1
  <2>3. Nested(s) => Nested(t)'
    BY <1>1, <1>2, <1>4, <2>2, StartNests
  <2>4. UNCHANGED <<yieldedOut, aborted>>
    BY <1>4 DEF Start, fiberVars
  <2> QED BY <1>1, <2>1, <2>2, <2>3, <2>4 DEF EnterInv
<1>5. ASSUME NEW i \in Isolates, IsolateStep(i)
      PROVE  EnterInv'
  <2>1. CASE \/ New(i) \/ Dispose(i) \/ Release(i)
             \/ DropDisposed(i) \/ DropForeign(i) \/ DropOnOwner(i)
    BY <1>3, <2>1 DEF New, Dispose, Release, DropDisposed, DropForeign, DropOnOwner,
       Collected, fiberVars
  <2> QED BY <1>4, <1>5, <2>1 DEF IsolateStep
<1>6. ASSUME NEW outcome \in Outcomes, Finish(outcome)
      PROVE  EnterInv'
  <2>1. EnterTypeOK' /\ Slots(s)'
    BY <1>1, <1>2, <1>6, FinishSlots
  <2>2. Nested(s) => Nested(s)'
    BY <1>1, <1>2, <1>6, FinishNests
  <2>3. UNCHANGED <<yieldedOut, aborted>>
    BY <1>6 DEF Finish, fiberVars
  <2> QED BY <1>1, <2>1, <2>2, <2>3 DEF EnterInv
<1>7. ASSUME NEW g \in Fibers, Resume(g)
      PROVE  EnterInv'
  <2>1. /\ UNCHANGED <<stack, depth, current, entry, yieldedOut, aborted>>
    BY <1>7 DEF Resume, entryVars
  <2>2. EnterTypeOK' /\ Slots(s)'
    BY <1>1, <1>2, <2>1 DEF EnterTypeOK, Slots, OpOn
  <2>3. Nested(s) => Nested(s)'
    BY <1>7, <2>1, ResumeNests
  <2> QED BY <1>1, <2>1, <2>2, <2>3 DEF EnterInv
<1>8. ASSUME NEW g \in Fibers, Abandon(g)
      PROVE  EnterInv'
  BY <1>3, <1>8 DEF Abandon
<1>9. CASE Yield
  <2>1. /\ UNCHANGED <<stack, depth, current, entry, aborted>>
        /\ yieldedOut' = (yieldedOut \/ stack[running] # <<>>)
    BY <1>9 DEF Yield, entryVars
  <2>2. EnterTypeOK' /\ Slots(s)'
    BY <1>1, <1>2, <2>1 DEF EnterTypeOK, Slots, OpOn
  <2>3. ~yieldedOut' => ~yieldedOut /\ stack[running] = <<>>
    BY <2>1
  <2>4. stack[running] = <<>> /\ Nested(s) => Nested(s)'
    BY <1>9, YieldNests
  <2> QED BY <1>1, <2>1, <2>2, <2>3, <2>4 DEF EnterInv
<1>10. CASE CallRuby
  <2> DEFINE op == Top(running)
             fr == [kind |-> "callback", iso |-> op.iso, depth |-> depth[op.iso],
                    entered |-> FALSE]
             n == Len(stack[running])
  <2>1. /\ stack' = [stack EXCEPT ![running] = Append(@, fr)]
        /\ UNCHANGED <<running, resumer, yieldedOut, aborted, depth, current, entry>>
    BY <1>10 DEF CallRuby, fiberVars, entryVars
  <2>2. fr \in Frame /\ fr.kind = "callback"
    <3>1. op.iso \in Isolates
      BY <1>10, Frames DEF CallRuby, ScriptRuns, InRuby, Top, NestTypeOK
    <3> QED BY <3>1 DEF Frame, NestTypeOK
  <2> HIDE DEF fr
  <2>3. /\ \A f \in Fibers \ {running} : stack'[f] = stack[f]
        /\ DOMAIN stack'[running] = 1 .. n + 1
        /\ n \in Nat
        /\ stack'[running][n + 1] = fr
        /\ \A k \in 1 .. n : stack'[running][k] = stack[running][k]
        /\ DOMAIN stack[running] = 1 .. n
    BY <2>1, <2>2, Pushing, Frames DEF NestTypeOK
  <2>4. /\ \A k \in DOMAIN stack[running] :
             k \in DOMAIN stack'[running] /\ stack'[running][k] = stack[running][k]
        /\ \A k \in DOMAIN stack'[running] : stack'[running][k].kind = "op" =>
             k \in DOMAIN stack[running] /\ stack'[running][k] = stack[running][k]
    BY <2>2, <2>3
  <2>5. /\ \A f \in Fibers : \A k \in DOMAIN stack[f] : stack[f][k].kind = "op" =>
              k \in DOMAIN stack'[f] /\ stack'[f][k] = stack[f][k]
        /\ \A f \in Fibers : \A k \in DOMAIN stack'[f] : stack'[f][k].kind = "op" =>
              k \in DOMAIN stack[f] /\ stack'[f][k] = stack[f][k]
        /\ \A f \in Fibers : stack'[f] # <<>> => stack[f] # <<>> \/ f = running
    BY <2>3, <2>4
  <2>6. Slots(s)' /\ (Nested(s) => Nested(s)')
    BY <1>1, <2>1, <2>5, SameOps
  <2>7. EnterTypeOK'
    BY <1>2, <2>1 DEF EnterTypeOK
  <2> QED BY <1>1, <2>1, <2>6, <2>7 DEF EnterInv
<1>11. CASE ReturnRuby
  <2> DEFINE n == Len(stack[running])
  <2>1. /\ UNCHANGED <<running, resumer, yieldedOut, depth, current, entry>>
        /\ stack[running] # <<>> /\ InRuby(running) /\ running \in Fibers
    BY <1>11 DEF ReturnRuby, RubyRuns, fiberVars, entryVars, NestTypeOK
  <2>2. EnterTypeOK'
    BY <1>2, <2>1 DEF EnterTypeOK
  <2>3. CASE depth[Top(running).iso] # Top(running).depth
    <3>1. stack' = stack
      BY <1>11, <2>3 DEF ReturnRuby
    <3>2. Slots(s)'
      BY <1>1, <2>1, <3>1 DEF Slots, OpOn
    <3>3. yieldedOut
      BY <1>1, <2>1, <2>3, ReturnFits
    <3> QED BY <2>1, <2>2, <3>2, <3>3 DEF EnterInv
  <2>4. CASE depth[Top(running).iso] = Top(running).depth
    <3>1. stack' = [stack EXCEPT ![running] = Pop(running)] /\ UNCHANGED aborted
      BY <1>11, <2>4 DEF ReturnRuby
    <3>2. /\ \A f \in Fibers \ {running} : stack'[f] = stack[f]
          /\ n \in Nat /\ n > 0
          /\ DOMAIN stack[running] = 1 .. n
          /\ DOMAIN stack'[running] = 1 .. n - 1
          /\ \A k \in 1 .. n - 1 : stack'[running][k] = stack[running][k]
      BY <2>1, <3>1, Popping
    <3>3. stack[running][n].kind = "callback"
      BY <2>1 DEF InRuby, Top
    <3>4. /\ \A k \in DOMAIN stack[running] : stack[running][k].kind = "op" =>
               k \in DOMAIN stack'[running] /\ stack'[running][k] = stack[running][k]
          /\ \A k \in DOMAIN stack'[running] :
               k \in DOMAIN stack[running] /\ stack'[running][k] = stack[running][k]
      <4>1. \A k \in 1 .. n : k = n \/ k \in 1 .. n - 1
        BY <3>2
      <4>2. \A k \in 1 .. n - 1 : k \in 1 .. n
        BY <3>2
      <4> QED BY <3>2, <3>3, <4>1, <4>2
    <3>5. /\ \A f \in Fibers : \A k \in DOMAIN stack[f] : stack[f][k].kind = "op" =>
                k \in DOMAIN stack'[f] /\ stack'[f][k] = stack[f][k]
          /\ \A f \in Fibers : \A k \in DOMAIN stack'[f] : stack'[f][k].kind = "op" =>
                k \in DOMAIN stack[f] /\ stack'[f][k] = stack[f][k]
          /\ \A f \in Fibers : stack'[f] # <<>> => stack[f] # <<>> \/ f = running
      BY <3>2, <3>4
    <3>6. Slots(s)' /\ (Nested(s) => Nested(s)')
      BY <1>1, <2>1, <3>5, SameOps
    <3> QED BY <1>1, <2>1, <2>2, <3>1, <3>6 DEF EnterInv
  <2> QED BY <2>3, <2>4
<1>12. CASE UNCHANGED vars
  BY <1>3, <1>12 DEF vars, fiberVars
<1> QED BY <1>5, <1>6, <1>7, <1>8, <1>9, <1>10, <1>11, <1>12 DEF Next, FiberStep

(* Before anything runs, nothing is entered.                               *)
LEMMA EnterInit == Init => EnterInv
<1> SUFFICES ASSUME Init
             PROVE  EnterInv
  OBVIOUS
<1>1. /\ stack = [f \in Fibers |-> <<>>] /\ running = MainFiber /\ running \in Fibers
      /\ resumer = [f \in Fibers |-> NoFiber] /\ current = NoIsolate
      /\ depth = [i \in Isolates |-> 0] /\ entry = [i \in Isolates |-> <<>>]
      /\ ~aborted
  BY MainIsFiber DEF Init
<1>2. \A f \in Fibers : stack[f] = <<>> /\ DOMAIN stack[f] = {} /\ resumer[f] = NoFiber
  BY <1>1
<1>3. EnterTypeOK
  BY <1>1, EmptySeq DEF EnterTypeOK
<1>4. PICK s \in Slotting : \A i \in Isolates, d \in Nat : s[i][d] = 0
  <2>1. [i \in Isolates |-> [d \in Nat |-> 0]] \in Slotting
    BY DEF Slotting
  <2> QED BY <2>1
<1>5. Slots(s)
  BY <1>1, <1>2, <1>4, EmptySeq DEF Slots
<1>6. PICK r \in [Fibers -> Nat] : \A f \in Fibers : r[f] = 0
  <2>1. [f \in Fibers |-> 0] \in [Fibers -> Nat]
    OBVIOUS
  <2> QED BY <2>1
<1>7. PICK on \in [Nat -> Fibers] : TRUE
  <2>1. [m \in Nat |-> MainFiber] \in [Nat -> Fibers]
    BY <1>1
  <2> QED BY <2>1
<1>8. PICK at \in [Nat -> Nat] : TRUE
  <2>1. [m \in Nat |-> 0] \in [Nat -> Nat]
    OBVIOUS
  <2> QED BY <2>1
<1>9. Ranked(r)
  BY <1>1, <1>2, <1>6 DEF Ranked, OnChain
<1>10. /\ Log(0, on, at) /\ Ordered(0, on, at, r)
       /\ Entering(0, on, at, s) /\ Stacked(0, on, at)
  <2>1. 1 .. 0 = {}
    OBVIOUS
  <2> QED BY <1>1, <1>2, <2>1 DEF Log, Ordered, Entering, Stacked, IsoOf
<1>11. Nested(s)
  <2>1. 0 \in Nat
    OBVIOUS
  <2> QED BY <1>9, <1>10, <2>1 DEF Nested
<1> QED BY <1>1, <1>3, <1>5, <1>11 DEF EnterInv

(* Core::run and with_gvl: while no callback was yielded out of, the       *)
(* isolate whose JavaScript runs is the current one of the thread, however *)
(* operations nest on however many isolates and Fibers, and with_gvl does  *)
(* not stop the process.                                                   *)
THEOREM RunningIsCurrent == Spec => []NestsUnlessYielded
<1>1. IndInv /\ EnterInv => NestsUnlessYielded
  <2> SUFFICES ASSUME IndInv, EnterInv, ~yieldedOut
               PROVE  (~InRuby(running) => current = Top(running).iso) /\ ~aborted
    BY DEF NestsUnlessYielded
  <2>1. PICK s \in Slotting : ~aborted /\ Nested(s)
    BY DEF EnterInv
  <2>2. ASSUME ~InRuby(running)
        PROVE  current = Top(running).iso
    <3>1. PICK N \in Nat :
            /\ N \in DOMAIN stack[running] /\ stack[running][N].kind = "op"
            /\ Top(running) = stack[running][N] /\ running \in Fibers
            /\ \A k \in DOMAIN stack[running] : k <= N
      BY <2>2, Frames DEF InRuby, Top, IndInv, NestTypeOK
    <3>2. PICK n \in Nat : \E r \in [Fibers -> Nat], on \in [Nat -> Fibers], at \in [Nat -> Nat] :
            /\ Ranked(r) /\ Log(n, on, at) /\ Ordered(n, on, at, r) /\ Entering(n, on, at, s)
      BY <2>1 DEF Nested
    <3>3. PICK r, on, at :
            /\ r \in [Fibers -> Nat] /\ on \in [Nat -> Fibers] /\ at \in [Nat -> Nat]
            /\ Ranked(r) /\ Log(n, on, at) /\ Ordered(n, on, at, r) /\ Entering(n, on, at, s)
      BY <3>2
    <3>4. n > 0 /\ on[n] = running /\ at[n] = N
      <4>1. r \in [Fibers -> Nat] /\ on \in [Nat -> Fibers] /\ at \in [Nat -> Nat]
        BY <3>3
      <4>2. Ranked(r) /\ Log(n, on, at) /\ Ordered(n, on, at, r)
        BY <3>3
      <4>3. \A k \in DOMAIN stack[running] : stack[running][k].kind = "op" => k <= N
        BY <3>1
      <4>4. N \in DOMAIN stack[running] /\ stack[running][N].kind = "op" /\ running \in Fibers
        BY <3>1
      <4> QED BY <4>1, <4>2, <4>3, <4>4, LastOp
    <3>5. current = IsoOf(n, on, at)
      BY <3>3 DEF Entering
    <3> QED BY <3>1, <3>4, <3>5 DEF IsoOf
  <2> QED BY <2>1, <2>2
<1> QED
  BY <1>1, EnterInit, EnterInductive, NestingInvariant, PTL DEF Spec, IndInv

(* Types of the stacks, the Fibers' states and the isolates' states; an    *)
(* isolate that is exited was entered.                                     *)
THEOREM OpStackTypes == Spec => []TypeOK
<1> DEFINE Flags == yieldedOut \in BOOLEAN /\ aborted \in BOOLEAN
<1>1. Flags /\ [Next]_vars => Flags'
  BY DEF Next, vars, fiberVars, IsolateStep, FiberStep, New, Start, Dispose, Release,
     DropDisposed, DropForeign, DropOnOwner, Collected, CallRuby, ReturnRuby, Finish,
     Resume, Yield, Abandon
<1>2. Init => Flags
  BY DEF Init
<1>3. Init => LifeInv /\ LeaksCounted
  BY FS_EmptySet, MainIsFiber DEF Init, LifeInv, LifeTypeOK, AbandonedAreOff,
     UsersKeepIsolates, LeaksCounted
<1>4. IndInv /\ EnterInv /\ LifeInv /\ Flags => TypeOK
  BY DEF IndInv, EnterInv, LifeInv, NestTypeOK, EnterTypeOK, LifeTypeOK, TypeOK
<1> HIDE DEF Flags
<1> QED
  BY <1>1, <1>2, <1>3, <1>4, EnterInit, EnterInductive, LifeInductive, NestingInvariant, PTL
     DEF Spec, IndInv
=============================================================================
