--------------------------- MODULE WatchdogProofs ---------------------------
(***************************************************************************)
(* Nothing of one operation's deadline or of its run out of heap reaches a *)
(* later operation, for every nesting, every timeout and every moment the  *)
(* watchdog thread, the user or V8's allocator steps in.                   *)
(***************************************************************************)
EXTENDS Watchdog, SequenceTheorems, TLAPS

\* The part of TypeOK the argument needs.
Shape ==
  /\ stack \in Seq(Op)
  /\ \A f \in frames : f.generation # 0
  /\ term \in {"none", "requested", "thrown"}
  /\ nextGeneration \in Nat

\* No termination outlives what asked for it: while one is pending, the user
\* asked for it since the outermost operation started, or one of the flags that
\* make the outermost operation sweep it is set.
TermExplained ==
  term # "none" =>
     \/ "user" \in cause
     \/ stack # <<>> /\ (oomFired \/ watchdogFired \/ fired # 0)

\* Every flag and every terminated operation has its cause, since the outermost
\* operation started: with FiredInFlight, TermExplained and CleanWhenIdle, the
\* inductive invariant.
CauseKnown ==
  stack # <<>> =>
     /\ fired # 0 \/ watchdogFired \/ backtrace => "deadline" \in cause
     /\ oomFired => "oom" \in cause
     /\ term # "none" \/ (\E k \in DOMAIN stack : stack[k].out = "terminated") =>
          cause # {}

IndInv ==
  /\ Shape /\ FiredInFlight /\ TermExplained /\ CleanWhenIdle /\ CauseKnown

\* The operation on top of a stack that is not empty is one of the stack.
LEMMA TopInStack ==
  ASSUME stack \in Seq(Op), stack # <<>>
  PROVE  /\ Len(stack) \in Nat \ {0} /\ Len(stack) \in DOMAIN stack
         /\ DOMAIN stack = 1 .. Len(stack)
         /\ Top \in Op
BY DEF Top

\* SetTop replaces the phase and the outcome of the innermost operation.
LEMMA SetTopKeeps ==
  ASSUME stack \in Seq(Op), stack # <<>>,
         NEW phase \in {"js", "ruby", "done"}, NEW out \in Outcome,
         SetTop(phase, out)
  PROVE  /\ stack' \in Seq(Op) /\ stack' # <<>>
         /\ DOMAIN stack' = DOMAIN stack
         /\ \A k \in DOMAIN stack : stack'[k].gen = stack[k].gen
         /\ \A k \in DOMAIN stack :
              stack'[k].out = IF k = Len(stack) THEN out ELSE stack[k].out
<1> DEFINE n == Len(stack)
<1>1. n \in Nat \ {0} /\ n \in DOMAIN stack /\ DOMAIN stack = 1 .. n
  BY TopInStack
<1>2. stack' = [stack EXCEPT ![n] = [@ EXCEPT !.phase = phase, !.out = out]]
  BY <1>1 DEF SetTop, Op
<1>3. stack[n] \in Op
  BY <1>1
<1>4. [stack[n] EXCEPT !.phase = phase, !.out = out] \in Op
  BY <1>3 DEF Op
<1>5. stack' \in Seq(Op) /\ Len(stack') = n /\ DOMAIN stack' = DOMAIN stack
  BY <1>1, <1>2, <1>4
<1>6. \A k \in DOMAIN stack :
         stack'[k] = IF k = n THEN [stack[n] EXCEPT !.phase = phase, !.out = out]
                     ELSE stack[k]
  BY <1>1, <1>2
<1>7. /\ [stack[n] EXCEPT !.phase = phase, !.out = out].gen = stack[n].gen
      /\ [stack[n] EXCEPT !.phase = phase, !.out = out].out = out
  BY <1>3 DEF Op
<1> QED
  BY <1>1, <1>5, <1>6, <1>7

\* The initial state satisfies the invariant.
LEMMA IndInvInit == Init => IndInv
BY DEF Init, IndInv, Shape, FiredInFlight, InFlight, TermExplained, CleanWhenIdle,
       CauseKnown

\* A step that changes only phase and outcome of the innermost operation, and
\* gives it the outcome "terminated" only for a reason, preserves the invariant.
LEMMA SetTopInv ==
  ASSUME IndInv, stack # <<>>,
         NEW phase \in {"js", "ruby", "done"}, NEW out \in Outcome,
         SetTop(phase, out),
         out = "terminated" => term # "none" \/ Top.out = "terminated",
         UNCHANGED <<frames, nextGeneration, fired, watchdogFired, oomFired, backtrace, cause>>,
         term' \in {"none", "requested", "thrown"}, (term' # "none") = (term # "none")
  PROVE  IndInv'
<1>1. /\ stack' \in Seq(Op) /\ stack' # <<>> /\ DOMAIN stack' = DOMAIN stack
      /\ \A k \in DOMAIN stack : stack'[k].gen = stack[k].gen
      /\ \A k \in DOMAIN stack :
           stack'[k].out = IF k = Len(stack) THEN out ELSE stack[k].out
  BY SetTopKeeps DEF IndInv, Shape
<1>2. Len(stack) \in DOMAIN stack
  BY TopInStack DEF IndInv, Shape
<1>3. Shape' /\ FiredInFlight' /\ TermExplained' /\ CleanWhenIdle'
  BY <1>1 DEF IndInv, Shape, FiredInFlight, InFlight, TermExplained, CleanWhenIdle
<1>4. CauseKnown'
  <2>1. (\E k \in DOMAIN stack' : stack'[k].out = "terminated") =>
           term # "none" \/ (\E k \in DOMAIN stack : stack[k].out = "terminated")
    BY <1>1, <1>2 DEF Top
  <2> QED
    BY <1>1, <2>1 DEF IndInv, CauseKnown
<1> QED
  BY <1>3, <1>4 DEF IndInv

\* The start of an operation: nothing is left over when it is the outermost one.
LEMMA StartInv ==
  ASSUME IndInv, NEW t \in Nat, NEW b \in Brackets, NEW lives \in BOOLEAN,
         Start(t, b, lives)
  PROVE  IndInv'
<1> DEFINE op == stack'[Len(stack')]
<1>1. PICK new \in Op :
        /\ stack' = Append(stack, new)
        /\ new.gen = IF t = 0 THEN 0 ELSE nextGeneration + 1
        /\ new.out = "terminated" => stack # <<>> /\ term = "thrown"
  <2> DEFINE outermost == stack = <<>>
             unwinding == ~outermost /\ term = "thrown"
             r == [gen |-> IF t = 0 THEN 0 ELSE nextGeneration + 1,
                   bracket |-> b,
                   ran |-> lives,
                   phase |-> IF lives /\ ~unwinding THEN "js" ELSE "done",
                   out |-> IF ~lives THEN "error"
                           ELSE IF b = "run_js" /\ unwinding THEN "terminated" ELSE "ok"]
  <2>1. b \in {"run_js", "drain"}
    BY BracketsAssumption
  <2>2. r \in Op
    BY <2>1 DEF Op, Outcome, IndInv, Shape
  <2>3. r.out = "terminated" => stack # <<>> /\ term = "thrown"
    BY <2>1
  <2>4. stack' = Append(stack, r)
    BY DEF Start
  <2> QED
    BY <2>2, <2>3, <2>4
<1>2. /\ stack \in Seq(Op) /\ stack' \in Seq(Op) /\ stack' # <<>>
      /\ Len(stack') = Len(stack) + 1
      /\ \A k \in DOMAIN stack : k \in DOMAIN stack' /\ stack'[k] = stack[k]
      /\ \A k \in DOMAIN stack' : k \in DOMAIN stack \/ stack'[k] = new
      /\ Len(stack') \in DOMAIN stack' /\ stack'[Len(stack')] = new
  BY <1>1 DEF IndInv, Shape
<1>3. /\ UNCHANGED <<fired, oomFired, watchdogFired>>
      /\ SweepAtStart(stack = <<>>) /\ Arm(t)
  BY DEF Start
<1>4. Shape'
  BY <1>2, <1>3 DEF IndInv, Shape, Arm, SweepAtStart
<1>5. FiredInFlight'
  <2>1. ASSUME NEW g, InFlight(g) PROVE InFlight(g)'
    <3>1. PICK k \in DOMAIN stack : stack[k].gen = g
      BY <2>1 DEF InFlight
    <3>2. k \in DOMAIN stack' /\ stack'[k].gen = g
      BY <1>2, <3>1
    <3> QED
      BY <3>2 DEF InFlight
  <2>2. \A f \in frames' : f \in frames \/ (t # 0 /\ f.generation = nextGeneration + 1)
    BY <1>3 DEF Arm
  <2>3. ASSUME t # 0, NEW f, f.generation = nextGeneration + 1
        PROVE  InFlight(f.generation)'
    <3>1. Len(stack') \in DOMAIN stack' /\ stack'[Len(stack')].gen = f.generation
      BY <1>1, <1>2, <2>3
    <3> QED
      BY <3>1 DEF InFlight
  <2> QED
    BY <1>3, <2>1, <2>2, <2>3 DEF IndInv, FiredInFlight
<1>6. TermExplained' /\ CleanWhenIdle'
  BY <1>2, <1>3 DEF IndInv, TermExplained, CleanWhenIdle, SweepAtStart
<1>7. CauseKnown'
  <2>1. CASE stack = <<>>
    <3>1. \A k \in DOMAIN stack' : stack'[k].out # "terminated"
      BY <1>1, <1>2, <2>1
    <3> QED
      BY <1>3, <2>1, <3>1 DEF IndInv, CauseKnown, CleanWhenIdle, SweepAtStart
  <2>2. CASE stack # <<>>
    <3>1. (\E k \in DOMAIN stack' : stack'[k].out = "terminated") =>
             term # "none" \/ (\E k \in DOMAIN stack : stack[k].out = "terminated")
      BY <1>1, <1>2
    <3> QED
      BY <1>3, <2>2, <3>1 DEF IndInv, CauseKnown, SweepAtStart
  <2> QED
    BY <2>1, <2>2
<1> QED
  BY <1>4, <1>5, <1>6, <1>7 DEF IndInv

\* The end of an operation: its frame and its fire go, and the last operation
\* takes the termination with it.
LEMMA FinishInv ==
  ASSUME IndInv, Finish
  PROVE  IndInv'
<1> DEFINE n == Len(stack)
<1>1. /\ stack \in Seq(Op) /\ stack # <<>> /\ n \in Nat \ {0} /\ n \in DOMAIN stack
      /\ DOMAIN stack = 1 .. n /\ Top \in Op
  BY TopInStack DEF IndInv, Shape, Finish, Ended
<1>2. /\ stack' = SubSeq(stack, 1, n - 1) /\ stack' \in Seq(Op)
      /\ DOMAIN stack' = 1 .. n - 1
      /\ \A k \in DOMAIN stack' : k \in DOMAIN stack /\ stack'[k] = stack[k]
      /\ stack' = <<>> <=> n = 1
  <2>1. stack' = SubSeq(stack, 1, n - 1)
    BY DEF Finish
  <2>2. stack' \in Seq(Op) /\ Len(stack') = n - 1 /\ DOMAIN stack' = 1 .. n - 1
    BY <1>1, <2>1
  <2>3. \A k \in 1 .. n - 1 : k \in DOMAIN stack /\ stack'[k] = stack[k]
    BY <1>1, <2>1
  <2>4. stack' = <<>> <=> Len(stack') = 0
    BY <2>2, EmptySeq
  <2>5. Len(stack') = 0 <=> n = 1
    BY <1>1, <2>2
  <2>6. \A k \in DOMAIN stack' : k \in 1 .. n - 1
    BY <2>2
  <2> QED
    BY <2>1, <2>2, <2>3, <2>4, <2>5, <2>6
<1>3. /\ frames' = {f \in frames : f.generation # Top.gen}
      /\ fired' = IF FiredFor(Top) THEN 0 ELSE fired
      /\ SweepAtEnd(watchdogFired \/ FiredFor(Top))
      /\ UNCHANGED <<backtrace, cause, nextGeneration>>
  BY DEF Finish, Disarm
<1>4. ASSUME NEW g, InFlight(g), g # Top.gen PROVE InFlight(g)'
  <2>1. PICK k \in DOMAIN stack : stack[k].gen = g
    BY <1>4 DEF InFlight
  <2>2. k \in 1 .. n /\ k # n
    BY <1>1, <1>4, <2>1 DEF Top
  <2>3. k \in DOMAIN stack' /\ stack'[k].gen = g
    BY <1>1, <1>2, <2>1, <2>2
  <2> QED
    BY <2>3 DEF InFlight
<1>5. FiredInFlight'
  BY <1>3, <1>4 DEF IndInv, Shape, FiredInFlight, FiredFor
<1>6. Shape'
  BY <1>2, <1>3 DEF IndInv, Shape, SweepAtEnd
<1>7. stack' = <<>> => fired' = 0 /\ frames' = {}
  BY <1>2, <1>5 DEF FiredInFlight, InFlight
<1>8. CASE n = 1
  <2>1. stack' = <<>> /\ ~watchdogFired' /\ ~oomFired'
        /\ term' = IF (watchdogFired \/ FiredFor(Top)) \/ oomFired THEN "none" ELSE term
    BY <1>2, <1>3, <1>8 DEF SweepAtEnd, Outermost
  <2>2. TermExplained'
    BY <1>3, <1>7, <2>1, <1>1 DEF IndInv, TermExplained
  <2>3. CleanWhenIdle' /\ CauseKnown'
    BY <1>7, <2>1 DEF CleanWhenIdle, CauseKnown
  <2> QED
    BY <1>5, <1>6, <2>2, <2>3 DEF IndInv
<1>9. CASE n # 1
  <2>1. /\ stack' # <<>>
        /\ watchdogFired' = (watchdogFired \/ FiredFor(Top))
        /\ UNCHANGED <<oomFired, term>>
    BY <1>2, <1>3, <1>9 DEF SweepAtEnd, Outermost
  <2>2. TermExplained' /\ CleanWhenIdle'
    BY <1>1, <1>3, <2>1 DEF IndInv, TermExplained, CleanWhenIdle
  <2>3. FiredFor(Top) => fired # 0
    BY DEF FiredFor
  <2>4. CauseKnown'
    BY <1>1, <1>2, <1>3, <2>1, <2>3 DEF IndInv, CauseKnown
  <2> QED
    BY <1>5, <1>6, <2>2, <2>4 DEF IndInv
<1> QED
  BY <1>8, <1>9

\* The watchdog thread's step: what it fires is the deadline of an operation.
LEMMA LoopStepInv ==
  ASSUME IndInv, LoopStep
  PROVE  IndInv'
<1>1. UNCHANGED <<stack, nextGeneration, term, watchdogFired, oomFired, backtrace>>
  BY DEF LoopStep, flags
<1>2. CASE UNCHANGED <<frames, fired, cause>>
  BY <1>1, <1>2 DEF IndInv, Shape, FiredInFlight, InFlight, TermExplained, CleanWhenIdle,
                    CauseKnown
<1>3. CASE ~UNCHANGED <<frames, fired, cause>>
  <2>1. /\ frames' = frames \ Expired /\ Expired \subseteq frames
        /\ \/ UNCHANGED <<fired, cause>>
           \/ /\ \E f \in Expired : fired' = f.generation
              /\ cause' = cause \cup {"deadline"}
    BY <1>3 DEF LoopStep, Expired
  <2>2. CASE UNCHANGED <<fired, cause>>
    BY <1>1, <2>1, <2>2 DEF IndInv, Shape, FiredInFlight, InFlight, TermExplained,
                            CleanWhenIdle, CauseKnown
  <2>3. CASE ~UNCHANGED <<fired, cause>>
    <3>1. PICK f \in frames : fired' = f.generation
      BY <2>1, <2>3
    <3>2. fired' # 0 /\ InFlight(fired') /\ stack # <<>>
      BY <3>1 DEF IndInv, Shape, FiredInFlight, CleanWhenIdle
    <3>3. cause' = cause \cup {"deadline"}
      BY <2>1, <2>3
    <3>4. Shape' /\ FiredInFlight'
      BY <1>1, <2>1, <3>2 DEF IndInv, Shape, FiredInFlight, InFlight
    <3>5. TermExplained' /\ CleanWhenIdle' /\ CauseKnown'
      BY <1>1, <3>2, <3>3 DEF IndInv, TermExplained, CleanWhenIdle, CauseKnown
    <3> QED
      BY <3>4, <3>5 DEF IndInv
  <2> QED
    BY <2>2, <2>3
<1> QED
  BY <1>2, <1>3

\* The invariant is inductive.
LEMMA IndInvInductive == IndInv /\ [Next]_vars => IndInv'
<1> SUFFICES ASSUME IndInv, [Next]_vars PROVE IndInv'
  OBVIOUS
<1>1. CASE StartAny
  <2>1. PICK t \in Timeouts \cup NestedTimeouts, b \in Brackets, lives \in BOOLEAN :
           Start(t, b, lives)
    BY <1>1 DEF StartAny
  <2> QED
    BY <2>1, StartInv, TimeoutsAssumption
<1>2. CASE CallHost
  <2>1. Top.out \in Outcome /\ stack # <<>>
    BY <1>2, TopInStack DEF CallHost, InJs, IndInv, Shape, Op
  <2> QED
    BY <1>2, <2>1, SetTopInv DEF CallHost, inner, v8, flags, hist, IndInv, Shape
<1>3. CASE ReturnHost
  <2>1. Top.out \in Outcome /\ stack # <<>>
    BY <1>3, TopInStack DEF ReturnHost, IndInv, Shape, Op
  <2>2. UNCHANGED <<frames, nextGeneration, fired, watchdogFired, oomFired, backtrace,
                    cause, term>>
    BY <1>3 DEF ReturnHost, inner, v8, flags, hist
  <2>3. CASE term = "thrown"
    <3>1. PICK out \in OutcomeOfTermination(Top) : SetTop("done", out)
      BY <1>3, <2>3 DEF ReturnHost
    <3>2. out \in Outcome
      BY <2>1 DEF OutcomeOfTermination, Outcome
    <3> QED
      BY <2>1, <2>2, <2>3, <3>1, <3>2, SetTopInv DEF IndInv, Shape
  <2>4. CASE term # "thrown"
    <3>1. SetTop("js", Top.out)
      BY <1>3, <2>4 DEF ReturnHost
    <3> QED
      BY <2>1, <2>2, <3>1, SetTopInv DEF IndInv, Shape
  <2> QED
    BY <2>3, <2>4
<1>4. CASE JsEnds
  <2>1. PICK out \in {"ok", "error"} : SetTop("done", out)
    BY <1>4 DEF JsEnds
  <2>2. stack # <<>> /\ out \in Outcome
    BY <1>4 DEF JsEnds, InJs, Outcome
  <2> QED
    BY <1>4, <2>1, <2>2, SetTopInv DEF JsEnds, inner, v8, flags, hist, IndInv, Shape
<1>5. CASE ThrowTermination
  <2>1. Top.out \in Outcome /\ stack # <<>>
    BY <1>5, TopInStack DEF ThrowTermination, InJs, IndInv, Shape, Op
  <2>2. PICK out \in OutcomeOfTermination(Top) : SetTop("done", out)
    BY <1>5 DEF ThrowTermination
  <2>3. out \in Outcome
    BY <2>1 DEF OutcomeOfTermination, Outcome
  <2> QED
    BY <1>5, <2>1, <2>2, <2>3, SetTopInv DEF ThrowTermination, inner, flags, hist, IndInv, Shape
<1>6. CASE HandleInterrupt
  BY <1>6 DEF HandleInterrupt, InJs, inner, hist, Request, IndInv, Shape, FiredInFlight,
              InFlight, TermExplained, CleanWhenIdle, CauseKnown
<1>7. CASE NearHeapLimit
  BY <1>7 DEF NearHeapLimit, InJs, inner, Request, IndInv, Shape, FiredInFlight,
              InFlight, TermExplained, CleanWhenIdle, CauseKnown
<1>8. CASE Terminate
  BY <1>8 DEF Terminate, inner, flags, Request, IndInv, Shape, FiredInFlight,
              InFlight, TermExplained, CleanWhenIdle, CauseKnown
<1>9. CASE Finish
  BY <1>9, FinishInv
<1>10. CASE LoopStep
  BY <1>10, LoopStepInv
<1>11. CASE RequestShutdown \/ Joined \/ Tick \/ UNCHANGED vars
  BY <1>11 DEF RequestShutdown, Joined, Tick, vars, inner, v8, flags, hist, IndInv, Shape,
               FiredInFlight, InFlight, TermExplained, CleanWhenIdle, CauseKnown
<1> QED
  BY <1>1, <1>2, <1>3, <1>4, <1>5, <1>6, <1>7, <1>8, <1>9, <1>10, <1>11 DEF Next

\* The invariant holds in every reachable state: each deadline in the watchdog is
\* that of an operation in flight, no termination outlives what asked for it, and
\* nothing is left between operations.
THEOREM LimitsInvariant ==
  Spec => [](FiredInFlight /\ TermExplained /\ CleanWhenIdle /\ CauseKnown)
<1>1. Spec => []IndInv
  BY IndInvInit, IndInvInductive, PTL DEF Spec
<1>2. IndInv => FiredInFlight /\ TermExplained /\ CleanWhenIdle /\ CauseKnown
  BY DEF IndInv
<1> QED
  BY <1>1, <1>2, PTL

\* A stack captured at a timeout is only ever shown for operations of the
\* outermost operation during which the deadline passed.
THEOREM BacktraceIsFresh == Spec => []NoStaleBacktrace
<1>1. CauseKnown => NoStaleBacktrace
  BY DEF CauseKnown, NoStaleBacktrace
<1> QED
  BY <1>1, LimitsInvariant, PTL

\* No operation is reported as terminated, or as out of memory, without a cause
\* that arose since the outermost operation started.
THEOREM NoSpuriousTermination == Spec => TerminationHasCause
<1> DEFINE A == Len(stack') < Len(stack) /\ reply' \in {"terminated", "oom"} =>
                  cause # {} /\ (reply' = "oom" => "oom" \in cause)
<1>1. IndInv /\ [Next]_vars => [A]_vars
  <2> SUFFICES ASSUME IndInv, Next, Len(stack') < Len(stack),
                      reply' \in {"terminated", "oom"}
               PROVE  cause # {} /\ (reply' = "oom" => "oom" \in cause)
    OBVIOUS
  <2>1. stack \in Seq(Op)
    BY DEF IndInv, Shape
  <2>2. ASSUME NEW phase, NEW out, SetTop(phase, out) PROVE Len(stack') = Len(stack)
    BY <2>1, <2>2 DEF SetTop
  <2>3. ~UNCHANGED stack
    BY <2>1
  <2>4. ~StartAny
    <3> SUFFICES ASSUME StartAny PROVE FALSE
      OBVIOUS
    <3>1. PICK x : stack' = Append(stack, x)
      BY DEF StartAny, Start
    <3> QED
      BY <2>1, <3>1
  <2>5. ~(CallHost \/ ReturnHost \/ JsEnds \/ ThrowTermination)
    BY <2>1, <2>2 DEF CallHost, ReturnHost, JsEnds, ThrowTermination
  <2>6. Finish
    BY <2>3, <2>4, <2>5 DEF Next, HandleInterrupt, NearHeapLimit, Terminate, LoopStep,
                            RequestShutdown, Joined, Tick
  <2>7. Len(stack) \in DOMAIN stack /\ Top \in Op /\ stack # <<>>
    BY <2>1, <2>6, TopInStack DEF Finish, Ended
  <2>8. reply' = Relabel(Bracketed(Top))
    BY <2>6 DEF Finish
  <2>9. FiredFor(Top) \/ oomFired \/ Top.out = "terminated"
    BY <2>7, <2>8 DEF Relabel, Bracketed, Op, Outcome
  <2>10. cause # {}
    BY <2>7, <2>9 DEF IndInv, CauseKnown, FiredFor, Top
  <2>11. reply' = "oom" => oomFired
    BY <2>7, <2>8 DEF Relabel, Bracketed, Op, Outcome
  <2> QED
    BY <2>7, <2>10, <2>11 DEF IndInv, CauseKnown
<1>2. Spec => []IndInv
  BY IndInvInit, IndInvInductive, PTL DEF Spec
<1> QED
  BY <1>1, <1>2, PTL DEF Spec, TerminationHasCause

-----------------------------------------------------------------------------
\* Only outermost operations have a deadline: a nested one does not arm, so it
\* does not overwrite fired_generation either.
OuterDeadlines == NestedTimeouts \subseteq {0}

\* The generations that were handed out, and whose they are: only the outermost
\* operation has one.
OuterArmed ==
  /\ passed \subseteq 1 .. nextGeneration
  /\ \A f \in frames : f.generation \in 1 .. nextGeneration
  /\ \A k \in DOMAIN stack : /\ stack[k].gen \in 0 .. nextGeneration
                             /\ k # 1 => stack[k].gen = 0

\* A deadline that passed while its operation is in flight: its fire is not
\* consumed, and V8 has the interrupt or the termination that came of it.
PassedHeld ==
  \A g \in passed : InFlight(g) => fired = g /\ (interrupt \/ term # "none")

OuterInv == OuterArmed /\ PassedHeld

\* A generation in flight, other than none, is the outermost operation's.
LEMMA OneInFlight ==
  ASSUME OuterArmed, NEW g, g # 0, InFlight(g)
  PROVE  1 \in DOMAIN stack /\ stack[1].gen = g
BY DEF OuterArmed, InFlight

\* A step that hands out no generation, keeps what is in flight and takes back
\* neither the fire nor the request keeps it.
LEMMA HeldKeeps ==
  ASSUME OuterInv, UNCHANGED <<nextGeneration, fired, passed>>, frames' \subseteq frames,
         DOMAIN stack' \subseteq DOMAIN stack,
         \A k \in DOMAIN stack' : stack'[k].gen = stack[k].gen,
         interrupt \/ term # "none" => interrupt' \/ term' # "none" \/ fired = 0
  PROVE  OuterInv'
<1>1. OuterArmed'
  BY DEF OuterInv, OuterArmed
<1>2. ASSUME NEW g \in passed, InFlight(g)' PROVE fired = g /\ (interrupt' \/ term' # "none")
  <2>1. InFlight(g)
    BY <1>2 DEF InFlight
  <2>2. fired = g /\ (interrupt \/ term # "none") /\ g \in 1 .. nextGeneration
    BY <1>2, <2>1 DEF OuterInv, OuterArmed, PassedHeld
  <2> QED BY <2>2
<1> QED BY <1>1, <1>2 DEF OuterInv, PassedHeld

\* An operation starts: an outermost one may take a new generation, which has not
\* passed; a nested one takes none.
LEMMA OuterStart ==
  ASSUME OuterDeadlines, IndInv, OuterInv, NEW t \in Nat, NEW b, NEW lives \in BOOLEAN,
         Start(t, b, lives)
  PROVE  OuterInv'
<1>1. PICK new :
        /\ stack' = Append(stack, new)
        /\ new.gen = IF t = 0 THEN 0 ELSE nextGeneration + 1
  BY DEF Start
<1>2. /\ stack # <<>> => t = 0
      /\ Arm(t) /\ SweepAtStart(stack = <<>>)
      /\ UNCHANGED <<fired, interrupt, passed>>
  BY DEF Start, OuterDeadlines
<1>3. /\ stack \in Seq(Op) /\ nextGeneration \in Nat
      /\ Len(stack) \in Nat /\ DOMAIN stack = 1 .. Len(stack)
      /\ stack = <<>> => Len(stack) = 0
  BY DEF IndInv, Shape
<1>4. /\ DOMAIN stack' = 1 .. Len(stack) + 1
      /\ stack'[Len(stack) + 1] = new
      /\ \A k \in 1 .. Len(stack) : stack'[k] = stack[k]
  BY <1>1, <1>3
<1>5. \A k \in DOMAIN stack' : k \in DOMAIN stack \/ k = Len(stack) + 1
  BY <1>3, <1>4
<1>6. /\ nextGeneration' \in Nat /\ nextGeneration <= nextGeneration'
      /\ new.gen \in 0 .. nextGeneration'
      /\ new.gen # 0 => new.gen = nextGeneration + 1 /\ stack = <<>>
      /\ \A f \in frames' : \/ f \in frames
                             \/ /\ f.generation = nextGeneration'
                                /\ nextGeneration' = nextGeneration + 1
  BY <1>1, <1>2, <1>3 DEF Arm
<1>7. OuterArmed'
  <2>1. passed' \subseteq 1 .. nextGeneration'
    BY <1>2, <1>3, <1>6 DEF OuterInv, OuterArmed
  <2>2. \A f \in frames' : f.generation \in 1 .. nextGeneration'
    BY <1>3, <1>6 DEF OuterInv, OuterArmed
  <2>3. ASSUME NEW k \in DOMAIN stack'
        PROVE  stack'[k].gen \in 0 .. nextGeneration' /\ (k # 1 => stack'[k].gen = 0)
    <3>1. CASE k \in DOMAIN stack
      BY <1>3, <1>4, <1>6, <3>1 DEF OuterInv, OuterArmed
    <3>2. CASE k = Len(stack) + 1
      BY <1>3, <1>4, <1>6, <3>2
    <3> QED BY <1>5, <3>1, <3>2
  <2> QED BY <2>1, <2>2, <2>3 DEF OuterArmed
<1>8. ASSUME NEW g \in passed, InFlight(g)'
      PROVE  fired = g /\ (interrupt \/ term' # "none")
  <2>1. g \in 1 .. nextGeneration /\ g # nextGeneration + 1 /\ g # 0
    BY <1>3, <1>8 DEF OuterInv, OuterArmed
  <2>2. PICK k \in DOMAIN stack' : stack'[k].gen = g
    BY <1>8 DEF InFlight
  <2>3. k \in DOMAIN stack
    BY <1>4, <1>5, <1>6, <2>1, <2>2
  <2>4. InFlight(g) /\ stack # <<>>
    BY <1>3, <1>4, <2>2, <2>3 DEF InFlight
  <2>5. term' = term
    BY <1>2, <2>4 DEF SweepAtStart
  <2> QED BY <1>8, <2>4, <2>5 DEF OuterInv, PassedHeld
<1> QED BY <1>2, <1>7, <1>8 DEF OuterInv, PassedHeld

\* An operation ends: a nested one had no generation and consumes no fire, and
\* after the outermost one nothing is in flight.
LEMMA OuterFinish ==
  ASSUME IndInv, OuterInv, Finish
  PROVE  OuterInv'
<1> DEFINE n == Len(stack)
<1>1. /\ stack \in Seq(Op) /\ n \in Nat \ {0} /\ n \in DOMAIN stack
      /\ DOMAIN stack = 1 .. n
  BY TopInStack DEF IndInv, Shape, Finish, Ended
<1>2. DOMAIN stack' = 1 .. n - 1 /\ \A k \in 1 .. n - 1 : stack'[k] = stack[k]
  <2>1. stack' = SubSeq(stack, 1, n - 1)
    BY DEF Finish
  <2> QED BY <1>1, <2>1
<1>3. /\ UNCHANGED <<nextGeneration, interrupt, passed>>
      /\ frames' \subseteq frames
      /\ fired' = IF FiredFor(Top) THEN 0 ELSE fired
      /\ SweepAtEnd(watchdogFired \/ FiredFor(Top))
  BY DEF Finish, Disarm
<1>4. CASE n = 1
  <2>1. DOMAIN stack' = {}
    BY <1>2, <1>4
  <2> QED BY <2>1, <1>3 DEF OuterInv, OuterArmed, PassedHeld, InFlight
<1>5. CASE n # 1
  <2>1. stack[n].gen = 0
    BY <1>1, <1>5 DEF OuterInv, OuterArmed
  <2>2. fired' = fired /\ term' = term
    BY <1>3, <1>5, <2>1 DEF FiredFor, Top, SweepAtEnd, Outermost
  <2>3. \A k \in DOMAIN stack' : k \in DOMAIN stack /\ stack'[k].gen = stack[k].gen
    BY <1>1, <1>2
  <2> QED BY <2>2, <2>3, <1>3, HeldKeeps
<1> QED BY <1>4, <1>5

\* The watchdog thread: every deadline it takes is the outermost operation's.
LEMMA OuterLoop ==
  ASSUME IndInv, OuterInv, LoopStep
  PROVE  OuterInv'
<1>1. UNCHANGED <<stack, nextGeneration, term>>
  BY DEF LoopStep
<1>2. CASE shutdown \/ Expired = {}
  <2>1. frames' \subseteq frames /\ UNCHANGED <<fired, interrupt>>
    BY <1>2 DEF LoopStep
  <2>2. passed' = passed
    BY <1>2 DEF LoopStep
  <2> QED BY <1>1, <2>1, <2>2, HeldKeeps
<1>3. CASE ~shutdown /\ Expired # {}
  <2>1. /\ frames' \subseteq frames /\ Expired \subseteq frames
        /\ passed' = passed \cup {f.generation : f \in Expired}
        /\ interrupt' = TRUE
    BY <1>3 DEF LoopStep, Expired
  <2>2. PICK f \in Expired : fired' = f.generation
    BY <1>3 DEF LoopStep
  <2>3. OuterArmed'
    BY <1>1, <2>1 DEF OuterInv, OuterArmed
  <2>4. ASSUME NEW g \in passed', InFlight(g)' PROVE fired' = g
    <3>1. InFlight(g) /\ g # 0
      BY <1>1, <2>3, <2>4 DEF InFlight, OuterArmed
    <3>2. InFlight(f.generation) /\ f.generation # 0
      BY <2>1 DEF IndInv, Shape, FiredInFlight
    <3> QED BY <2>2, <3>1, <3>2, OneInFlight DEF OuterInv
  <2> QED BY <2>1, <2>3, <2>4 DEF OuterInv, PassedHeld
<1> QED BY <1>2, <1>3

\* Every step keeps it.
LEMMA OuterInvStep ==
  ASSUME OuterDeadlines, IndInv, OuterInv, [Next]_vars
  PROVE  OuterInv'
<1> DEFINE Unmoved == /\ UNCHANGED <<frames, nextGeneration, fired, passed>>
                      /\ DOMAIN stack' = DOMAIN stack
                      /\ \A k \in DOMAIN stack : stack'[k].gen = stack[k].gen
<1>1. ASSUME Unmoved, interrupt \/ term # "none" => interrupt' \/ term' # "none" \/ fired = 0
      PROVE  OuterInv'
  BY <1>1, HeldKeeps
<1>2. ASSUME NEW phase, NEW out, SetTop(phase, out)
      PROVE  DOMAIN stack' = DOMAIN stack /\ \A k \in DOMAIN stack : stack'[k].gen = stack[k].gen
  <2>1. stack \in Seq(Op)
    BY DEF IndInv, Shape
  <2> QED BY <1>2, <2>1 DEF SetTop, Op
<1>3. CASE StartAny
  <2>1. PICK t \in Timeouts \cup NestedTimeouts, b \in Brackets, lives \in BOOLEAN :
           Start(t, b, lives)
    BY <1>3 DEF StartAny
  <2> QED BY <2>1, OuterStart, TimeoutsAssumption
<1>4. CASE CallHost \/ ReturnHost \/ JsEnds
  <2>1. UNCHANGED <<frames, nextGeneration, fired, passed, interrupt, term>>
    BY <1>4 DEF CallHost, ReturnHost, JsEnds, inner, v8, hist
  <2>2. \E phase, out : SetTop(phase, out)
    BY <1>4 DEF CallHost, ReturnHost, JsEnds
  <2> QED BY <1>1, <1>2, <2>1, <2>2
<1>5. CASE ThrowTermination
  <2>1. UNCHANGED <<frames, nextGeneration, fired, passed>> /\ term' = "thrown"
    BY <1>5 DEF ThrowTermination, inner, hist
  <2>2. \E phase, out : SetTop(phase, out)
    BY <1>5 DEF ThrowTermination
  <2> QED BY <1>1, <1>2, <2>1, <2>2
<1>6. CASE HandleInterrupt
  <2>1. Unmoved
    BY <1>6 DEF HandleInterrupt, inner, hist
  <2>2. interrupt' = FALSE /\ (fired = 0 \/ term' # "none")
    BY <1>6 DEF HandleInterrupt, Request
  <2> QED BY <1>1, <2>1, <2>2
<1>7. CASE NearHeapLimit \/ Terminate
  <2>1. Unmoved /\ term' # "none"
    BY <1>7 DEF NearHeapLimit, Terminate, inner, Request
  <2> QED BY <1>1, <2>1
<1>8. CASE Finish
  BY <1>8, OuterFinish
<1>9. CASE LoopStep
  BY <1>9, OuterLoop
<1>10. CASE RequestShutdown \/ Joined \/ Tick \/ UNCHANGED vars
  <2>1. Unmoved /\ UNCHANGED <<interrupt, term>>
    BY <1>10 DEF RequestShutdown, Joined, Tick, vars, inner, v8, hist
  <2> QED BY <1>1, <2>1
<1> QED BY <1>3, <1>4, <1>5, <1>6, <1>7, <1>8, <1>9, <1>10 DEF Next

\* It holds in every reachable state when nested operations have no deadline.
LEMMA OuterInvariant ==
  ASSUME OuterDeadlines
  PROVE  Spec => [](IndInv /\ OuterInv)
<1>1. Init => OuterInv
  BY DEF Init, OuterInv, OuterArmed, PassedHeld
<1>2. IndInv /\ OuterInv /\ [Next]_vars => OuterInv'
  BY OuterInvStep
<1> QED BY <1>1, <1>2, IndInvInit, IndInvInductive, PTL DEF Spec

\* The deadline of an outermost operation stands whatever operations without one
\* it nests: once it has passed, JavaScript runs on only under a request to stop.
THEOREM OuterDeadlineStands ==
  ASSUME OuterDeadlines
  PROVE  Spec => []DeadlineStands
<1>1. OuterInv => DeadlineStands
  BY DEF OuterInv, OuterArmed, PassedHeld, DeadlineStands
<1> QED BY <1>1, OuterInvariant, PTL

\* Where, besides, no drain is an operation of its own, every limit that is hit
\* is reported by the operation it was hit in.
THEOREM OuterLimitsReported ==
  ASSUME OuterDeadlines, Brackets \subseteq {"run_js"}
  PROVE  Spec => LimitsReported
<1> DEFINE Scripts == \A k \in DOMAIN stack : stack[k].bracket = "run_js"
           A == Len(stack') < Len(stack) /\ Top.ran =>
                  /\ Top.gen \in passed => reply' \in {"terminated", "oom"}
                  /\ Outermost /\ oomFired => reply' = "oom"
<1>1. ASSUME IndInv, Next PROVE Finish \/ ~(Len(stack') < Len(stack))
  <2>1. stack \in Seq(Op)
    BY <1>1 DEF IndInv, Shape
  <2>2. ASSUME NEW phase, NEW out, SetTop(phase, out) PROVE Len(stack') = Len(stack)
    BY <2>1, <2>2 DEF SetTop
  <2>3. CASE StartAny
    <3>1. PICK x : stack' = Append(stack, x)
      BY <2>3 DEF StartAny, Start
    <3> QED BY <2>1, <3>1
  <2>4. CASE CallHost \/ ReturnHost \/ JsEnds \/ ThrowTermination
    BY <2>1, <2>2, <2>4 DEF CallHost, ReturnHost, JsEnds, ThrowTermination
  <2>5. CASE HandleInterrupt \/ NearHeapLimit \/ Terminate \/ LoopStep
             \/ RequestShutdown \/ Joined \/ Tick
    <3>1. stack' = stack
      BY <2>5 DEF HandleInterrupt, NearHeapLimit, Terminate, LoopStep, RequestShutdown,
                  Joined, Tick
    <3> QED BY <2>1, <3>1
  <2> QED BY <1>1, <2>3, <2>4, <2>5 DEF Next
<1>2. ASSUME IndInv, Scripts, [Next]_vars PROVE Scripts'
  <2>1. stack \in Seq(Op)
    BY <1>2 DEF IndInv, Shape
  <2>2. ASSUME NEW phase, NEW out, SetTop(phase, out) PROVE Scripts'
    <3>1. DOMAIN stack' = DOMAIN stack
          /\ \A k \in DOMAIN stack : stack'[k].bracket = stack[k].bracket
      BY <2>1, <2>2 DEF SetTop, Op
    <3> QED BY <1>2, <3>1
  <2>3. CASE StartAny
    <3>1. PICK x : stack' = Append(stack, x) /\ x.bracket = "run_js"
      BY <2>3 DEF StartAny, Start
    <3>2. /\ DOMAIN stack' = 1 .. Len(stack) + 1 /\ Len(stack) \in Nat
          /\ DOMAIN stack = 1 .. Len(stack)
          /\ stack'[Len(stack) + 1] = x /\ \A k \in DOMAIN stack : stack'[k] = stack[k]
      BY <2>1, <3>1
    <3>3. \A k \in DOMAIN stack' : k \in DOMAIN stack \/ k = Len(stack) + 1
      BY <3>2
    <3> QED BY <1>2, <3>1, <3>2, <3>3
  <2>4. CASE CallHost \/ ReturnHost \/ JsEnds \/ ThrowTermination
    BY <2>2, <2>4 DEF CallHost, ReturnHost, JsEnds, ThrowTermination
  <2>5. CASE Finish
    <3>1. stack' = SubSeq(stack, 1, Len(stack) - 1) /\ stack # <<>>
      BY <2>5 DEF Finish, Ended
    <3>2. \A k \in DOMAIN stack' : k \in DOMAIN stack /\ stack'[k] = stack[k]
      BY <2>1, <3>1
    <3> QED BY <1>2, <3>2
  <2>6. CASE stack' = stack
    BY <1>2, <2>6
  <2>7. CASE HandleInterrupt \/ NearHeapLimit \/ Terminate \/ LoopStep
             \/ RequestShutdown \/ Joined \/ Tick \/ UNCHANGED vars
    BY <2>6, <2>7 DEF HandleInterrupt, NearHeapLimit, Terminate, LoopStep,
                      RequestShutdown, Joined, Tick, vars
  <2> QED BY <1>2, <2>3, <2>4, <2>5, <2>7 DEF Next
<1>3. ASSUME IndInv, OuterInv, Scripts, Finish, Top.ran
      PROVE  /\ Top.gen \in passed => reply' \in {"terminated", "oom"}
             /\ Outermost /\ oomFired => reply' = "oom"
  <2>1. Len(stack) \in DOMAIN stack /\ Top.bracket = "run_js" /\ reply' = Relabel(Bracketed(Top))
    BY <1>3, TopInStack DEF Finish, Ended, IndInv, Shape, Top
  <2>2. ASSUME Top.gen \in passed PROVE FiredFor(Top)
    <3>1. InFlight(Top.gen) /\ Top.gen # 0
      BY <1>3, <2>1, <2>2 DEF InFlight, Top, OuterInv, OuterArmed
    <3> QED BY <1>3, <2>2, <3>1 DEF OuterInv, PassedHeld, FiredFor
  <2>3. FiredFor(Top) \/ oomFired => Bracketed(Top) = "terminated"
    BY <1>3, <2>1 DEF Bracketed
  <2> QED BY <2>1, <2>2, <2>3 DEF Relabel
<1>4. Init => Scripts
  BY DEF Init
<1>5. IndInv /\ OuterInv /\ Scripts /\ [Next]_vars => [A]_vars
  BY <1>1, <1>3
<1>6. IndInv /\ Scripts /\ [Next]_vars => Scripts'
  BY <1>2
<1> QED BY <1>4, <1>5, <1>6, OuterInvariant, PTL DEF Spec, LimitsReported
=============================================================================
