------------------------------ MODULE Watchdog ------------------------------
(***************************************************************************)
(* The execution limits of one isolate: the watchdog thread and the        *)
(* brackets around JavaScript (ext/rusty_racer/src/watchdog.rs), the       *)
(* sweeps of service_request (ops.rs) and the recovery from running out of *)
(* heap in Core::run (lib.rs).                                             *)
(*                                                                         *)
(* The owner thread nests operations: JavaScript calls Ruby, and Ruby      *)
(* starts another operation.  Each operation may have a deadline, which    *)
(* the watchdog thread enforces by asking V8 for an interrupt; any thread  *)
(* may ask for a termination.  V8 keeps ONE termination request and ONE    *)
(* list of interrupts for the isolate, whatever operation it is running.   *)
(***************************************************************************)
EXTENDS Integers, Sequences, FiniteSets

CONSTANTS
  Timeouts,        \* timeout_ms of outermost operations; 0 is no timeout
  NestedTimeouts,  \* timeout_ms of the operations a callback starts
  Brackets,        \* how operations run JavaScript: "run_js", "drain"
  MaxTime,         \* bound: the clock stops here
  MaxArmed,        \* bound: operations that arm the watchdog
  MaxDepth         \* bound: operations in flight

ASSUME TimeoutsAssumption == Timeouts \subseteq Nat /\ NestedTimeouts \subseteq Nat
ASSUME BracketsAssumption == Brackets \subseteq {"run_js", "drain"}
ASSUME BoundsAssumption == MaxTime \in Nat /\ MaxArmed \in Nat /\ MaxDepth \in Nat

VARIABLES
  stack,          \* the operations in flight, outermost first
  frames,         \* WatchdogInner.frames
  nextGeneration, \* WatchdogInner.next_generation
  fired,          \* WatchdogInner.fired_generation, 0 for None
  shutdown,       \* WatchdogInner.shutdown
  loop,           \* the watchdog thread: "running" or "exited"
  wake,           \* when the condition variable lets it go on
  interrupt,      \* V8 has a timeout_interrupt to call
  term,           \* V8's termination: "none", "requested", "thrown"
  watchdogFired,  \* IsolateState.watchdog_fired
  oomFired,       \* IsolateState.oom_fired
  backtrace,      \* IsolateState.timeout_backtrace is Some
  now,            \* the clock
  life,           \* the isolate: "live", "joining" its watchdog, "gone"
  cause,          \* history: why JavaScript was told to stop, since the
                  \* outermost operation started
  passed,         \* history: generations whose deadline the watchdog saw pass
  reply           \* the outcome of the operation that finished last

inner == <<frames, nextGeneration, fired, shutdown>>
v8    == <<interrupt, term>>
flags == <<watchdogFired, oomFired, backtrace>>
hist  == <<cause, passed, reply>>
vars  == <<stack, inner, loop, wake, v8, flags, now, life, hist>>

Never == MaxTime + 1

Outcome == {"ok", "error", "terminated"}

Op == [gen : Nat, bracket : {"run_js", "drain"}, ran : BOOLEAN,
       phase : {"js", "ruby", "done"}, out : Outcome]

Top == stack[Len(stack)]
SetTop(phase, out) ==
  stack' = [stack EXCEPT ![Len(stack)].phase = phase, ![Len(stack)].out = out]

InJs  == stack # <<>> /\ Top.phase = "js"
Ended == stack # <<>> /\ Top.phase = "done"
RubyRuns == stack # <<>> => Top.phase = "ruby"
Outermost == Len(stack) = 1

Expired == {f \in frames : f.deadline <= now}
NextDeadline(fs) ==
  IF fs = {} THEN Never
  ELSE (CHOOSE f \in fs : \A g \in fs : f.deadline <= g.deadline).deadline

\* The loop takes the expired frames in the order of their deadlines, then of
\* their arming, without giving the lock up; f is the one it takes last.
LastExpired(f) ==
  \A g \in Expired :
     g.deadline < f.deadline \/ (g.deadline = f.deadline /\ g.generation <= f.generation)

-----------------------------------------------------------------------------
\* Mutant: no notification.
ArmSilently(timeout) ==
  IF timeout = 0
  THEN UNCHANGED <<frames, nextGeneration, wake>>
  ELSE /\ nextGeneration < MaxArmed /\ now + timeout <= MaxTime
       /\ nextGeneration' = nextGeneration + 1
       /\ frames' = frames \cup
                      {[generation |-> nextGeneration + 1, deadline |-> now + timeout]}
       /\ UNCHANGED wake

(* arm_watchdog and disarm_watchdog, both under the lock of WatchdogInner; *)
(* the notification lets the loop look again.                              *)
Arm(timeout) ==
  IF timeout = 0
  THEN UNCHANGED <<frames, nextGeneration, wake>>
  ELSE /\ nextGeneration < MaxArmed /\ now + timeout <= MaxTime
       /\ nextGeneration' = nextGeneration + 1
       /\ frames' = frames \cup
                      {[generation |-> nextGeneration + 1, deadline |-> now + timeout]}
       /\ wake' = now

FiredFor(op) == op.gen # 0 /\ fired = op.gen

\* Mutant: the fired generation is not consumed.
DisarmKeepingFired(op) ==
  /\ frames' = {f \in frames : f.generation # op.gen}
  /\ fired' = fired
  /\ wake' = IF op.gen = 0 THEN wake ELSE now

Disarm(op) ==
  /\ frames' = {f \in frames : f.generation # op.gen}
  /\ fired' = IF FiredFor(op) THEN 0 ELSE fired
  /\ wake' = IF op.gen = 0 THEN wake ELSE now

\* Mutant: a nested operation sweeps too.
SweepAlways(outermost) ==
  IF outermost
  THEN backtrace' = FALSE /\ term' = "none" /\ cause' = {}
  ELSE UNCHANGED <<backtrace, cause>> /\ term' = "none"

\* Mutant: the captured stack stays.
SweepKeepingBacktrace(outermost) ==
  IF outermost
  THEN UNCHANGED backtrace /\ term' = "none" /\ cause' = {}
  ELSE UNCHANGED <<backtrace, term, cause>>

(* The outermost operation drops the last captured stack and cancels any   *)
(* termination left over; a nested one must not.                           *)
SweepAtStart(outermost) ==
  IF outermost
  THEN backtrace' = FALSE /\ term' = "none" /\ cause' = {}
  ELSE UNCHANGED <<backtrace, term, cause>>

(* An operation starts: its JavaScript runs, unless its realm is gone or   *)
(* V8 is still unwinding the operation around it.                          *)
Start(timeout, bracket, realmLives) ==
  LET outermost == stack = <<>>
      unwinding == ~outermost /\ term = "thrown"
  IN /\ life = "live" /\ RubyRuns /\ Len(stack) < MaxDepth
     /\ timeout \in (IF outermost THEN Timeouts ELSE NestedTimeouts)
     /\ bracket = "drain" => realmLives
     /\ SweepAtStart(outermost)
     /\ Arm(timeout)
     /\ stack' = Append(stack,
          [gen |-> IF timeout = 0 THEN 0 ELSE nextGeneration + 1,
           bracket |-> bracket,
           ran |-> realmLives,
           phase |-> IF realmLives /\ ~unwinding THEN "js" ELSE "done",
           out |-> IF ~realmLives THEN "error"
                   ELSE IF bracket = "run_js" /\ unwinding THEN "terminated" ELSE "ok"])
     /\ UNCHANGED <<fired, shutdown, loop, interrupt, watchdogFired, oomFired,
                    now, life, passed, reply>>

-----------------------------------------------------------------------------
CallHost ==
  /\ InJs
  /\ SetTop("ruby", Top.out)
  /\ UNCHANGED <<inner, loop, wake, v8, flags, now, life, hist>>

\* The outcome of JavaScript that V8 terminates: a checkpoint of microtasks
\* (the body of a drain, and the automatic one after an outermost script that
\* already has its value) just stops.
OutcomeOfTermination(op) ==
  IF op.bracket = "drain" THEN {"ok"}
  ELSE {"terminated"} \cup (IF Outermost THEN {op.out} ELSE {})

\* JavaScript goes on after the callback, unless V8 is unwinding it.
ReturnHost ==
  /\ stack # <<>> /\ Top.phase = "ruby"
  /\ IF term = "thrown"
     THEN \E out \in OutcomeOfTermination(Top) : SetTop("done", out)
     ELSE SetTop("js", Top.out)
  /\ UNCHANGED <<inner, loop, wake, v8, flags, now, life, hist>>

\* JavaScript may come to its end without looking at the requests V8 holds.
JsEnds ==
  /\ InJs
  /\ \E out \in (IF Top.bracket = "drain" THEN {"ok"} ELSE {"ok", "error"}) :
        SetTop("done", out)
  /\ UNCHANGED <<inner, loop, wake, v8, flags, now, life, hist>>

\* V8 acts on a termination at one of the points where JavaScript looks.
ThrowTermination ==
  /\ InJs
  /\ term = "requested"
  /\ term' = "thrown"
  /\ \E out \in OutcomeOfTermination(Top) : SetTop("done", out)
  /\ UNCHANGED <<inner, loop, wake, interrupt, flags, now, life, hist>>

Request(t) == IF t = "none" THEN "requested" ELSE t

\* Mutant: it does not ask whether a deadline fired.
HandleAnyInterrupt ==
  /\ InJs
  /\ interrupt
  /\ interrupt' = FALSE
  /\ backtrace' = TRUE /\ term' = Request(term)
  /\ UNCHANGED <<stack, inner, loop, wake, watchdogFired, oomFired, now, life, hist>>

(* timeout_interrupt: it runs at such a point too, captures the stack and  *)
(* asks for the termination, but only while a deadline that fired has not  *)
(* been consumed by its operation.                                         *)
HandleInterrupt ==
  /\ InJs
  /\ interrupt
  /\ interrupt' = FALSE
  /\ IF fired # 0
     THEN backtrace' = TRUE /\ term' = Request(term)
     ELSE UNCHANGED <<backtrace, term>>
  /\ UNCHANGED <<stack, inner, loop, wake, watchdogFired, oomFired, now, life, hist>>

(* near_heap_limit_cb, called by V8 when JavaScript needs more heap.       *)
NearHeapLimit ==
  /\ InJs
  /\ oomFired' = TRUE
  /\ term' = Request(term)
  /\ cause' = cause \cup {"oom"}
  /\ UNCHANGED <<stack, inner, loop, wake, interrupt, watchdogFired, backtrace,
                 now, life, passed, reply>>

(* Isolate#terminate, from any thread.                                     *)
Terminate ==
  /\ life = "live"
  /\ term' = Request(term)
  /\ cause' = cause \cup {"user"}
  /\ UNCHANGED <<stack, inner, loop, wake, interrupt, flags, now, life, passed, reply>>

-----------------------------------------------------------------------------
\* Mutant: it does not look at the deadline.
BracketedNoDeadline(op) ==
  IF op.bracket = "drain" THEN "ok"
  ELSE IF op.ran /\ oomFired THEN "terminated" ELSE op.out

(* The outcome run_js_bracketed, or the bracket of a drain, gives.         *)
Bracketed(op) ==
  IF op.bracket = "drain"
  THEN IF FiredFor(op) THEN "terminated" ELSE "ok"
  ELSE IF op.ran /\ (FiredFor(op) \/ oomFired) THEN "terminated" ELSE op.out

\* relabel_oom, for the outermost operation only.
Relabel(out) ==
  IF Outermost /\ oomFired /\ out = "terminated" THEN "oom" ELSE out

(* The end of service_request and of Core::run: the outermost operation    *)
(* sweeps the termination of a deadline or of the heap limit.              *)
SweepAtEnd(wf) ==
  IF Outermost
  THEN /\ watchdogFired' = FALSE
       /\ oomFired' = FALSE
       /\ term' = IF wf \/ oomFired THEN "none" ELSE term
  ELSE watchdogFired' = wf /\ UNCHANGED <<oomFired, term>>

Finish ==
  /\ Ended
  /\ Disarm(Top)
  /\ SweepAtEnd(watchdogFired \/ FiredFor(Top))
  /\ reply' = Relabel(Bracketed(Top))
  /\ stack' = SubSeq(stack, 1, Len(stack) - 1)
  /\ UNCHANGED <<nextGeneration, shutdown, loop, interrupt, backtrace, now, life,
                 cause, passed>>

-----------------------------------------------------------------------------
(* watchdog_loop, each time the condition variable lets it go on.          *)
LoopStep ==
  /\ loop = "running" /\ wake <= now
  /\ IF shutdown
     THEN /\ loop' = "exited"
          /\ UNCHANGED <<frames, fired, wake, interrupt, cause, passed>>
     ELSE /\ frames' = frames \ Expired
          /\ wake' = NextDeadline(frames \ Expired)
          /\ passed' = passed \cup {f.generation : f \in Expired}
          /\ IF Expired = {}
             THEN UNCHANGED <<fired, interrupt, cause>>
             ELSE /\ \E f \in Expired : LastExpired(f) /\ fired' = f.generation
                  /\ interrupt' = TRUE
                  /\ cause' = cause \cup {"deadline"}
          /\ UNCHANGED loop
  /\ UNCHANGED <<stack, nextGeneration, shutdown, term, flags, now, life, reply>>

\* Mutant: no notification.
ShutdownSilently ==
  /\ life = "live" /\ stack = <<>>
  /\ life' = "joining"
  /\ shutdown' = TRUE
  /\ UNCHANGED <<stack, frames, nextGeneration, fired, loop, wake, v8, flags, now, hist>>

(* Core::teardown asks the watchdog to stop and joins it.                  *)
RequestShutdown ==
  /\ life = "live" /\ stack = <<>>
  /\ life' = "joining"
  /\ shutdown' = TRUE
  /\ wake' = now
  /\ UNCHANGED <<stack, frames, nextGeneration, fired, loop, v8, flags, now, hist>>

Joined ==
  /\ life = "joining" /\ loop = "exited"
  /\ life' = "gone"
  /\ UNCHANGED <<stack, inner, loop, wake, v8, flags, now, hist>>

Tick ==
  /\ now < MaxTime
  /\ now' = now + 1
  /\ UNCHANGED <<stack, inner, loop, wake, v8, flags, life, hist>>

Init ==
  /\ stack = <<>>
  /\ frames = {} /\ nextGeneration = 0 /\ fired = 0 /\ shutdown = FALSE
  /\ loop = "running" /\ wake = 0
  /\ interrupt = FALSE /\ term = "none"
  /\ watchdogFired = FALSE /\ oomFired = FALSE /\ backtrace = FALSE
  /\ now = 0
  /\ life = "live"
  /\ cause = {} /\ passed = {} /\ reply = "ok"

StartAny ==
  \E t \in Timeouts \cup NestedTimeouts, b \in Brackets, lives \in BOOLEAN :
     Start(t, b, lives)

Next ==
  \/ StartAny \/ CallHost \/ ReturnHost \/ JsEnds
  \/ ThrowTermination \/ HandleInterrupt \/ NearHeapLimit \/ Terminate
  \/ Finish \/ LoopStep \/ RequestShutdown \/ Joined \/ Tick

Spec == Init /\ [][Next]_vars

\* Threads are scheduled, and a callback returns after finitely many operations.
\* Nothing makes JavaScript end, but JavaScript that keeps running looks at V8's
\* requests again and again.
Fairness ==
  /\ WF_vars(Tick) /\ WF_vars(LoopStep) /\ WF_vars(Joined)
  /\ SF_vars(ReturnHost) /\ WF_vars(Finish)
  /\ SF_vars(HandleInterrupt) /\ SF_vars(ThrowTermination)

FairSpec == Spec /\ Fairness
-----------------------------------------------------------------------------
\* Types of the watchdog's state and of the operations in flight.
TypeOK ==
  /\ stack \in Seq(Op)
  /\ frames \subseteq [generation : Nat \ {0}, deadline : Nat]
  /\ nextGeneration \in Nat /\ fired \in 0 .. nextGeneration
  /\ shutdown \in BOOLEAN
  /\ loop \in {"running", "exited"}
  /\ wake \in Nat
  /\ interrupt \in BOOLEAN
  /\ term \in {"none", "requested", "thrown"}
  /\ watchdogFired \in BOOLEAN /\ oomFired \in BOOLEAN /\ backtrace \in BOOLEAN
  /\ now \in Nat
  /\ life \in {"live", "joining", "gone"}
  /\ cause \subseteq {"deadline", "user", "oom"}
  /\ passed \subseteq 1 .. nextGeneration
  /\ reply \in Outcome \cup {"oom"}

InFlight(gen) == \E k \in DOMAIN stack : stack[k].gen = gen

\* A deadline that is armed, or that fired and is not yet consumed, is the
\* deadline of an operation in flight: the fire of an operation that ended can
\* not be taken for the fire of a later one.
FiredInFlight ==
  /\ fired # 0 => InFlight(fired)
  /\ \A f \in frames : InFlight(f.generation)

\* Between operations nothing is left of a deadline or of the heap limit.
CleanWhenIdle ==
  stack = <<>> => ~watchdogFired /\ ~oomFired /\ fired = 0 /\ frames = {}

\* An operation is reported as terminated only if, since the outermost
\* operation started, a deadline passed, the heap ran out or the user asked:
\* a timeout does not terminate the next operation.
TerminationHasCause ==
  [][/\ Len(stack') < Len(stack)
     /\ reply' \in {"terminated", "oom"}
     => cause # {} /\ (reply' = "oom" => "oom" \in cause)]_vars

\* The stack a timeout captured is shown only for the operations it unwound.
NoStaleBacktrace == backtrace /\ stack # <<>> => "deadline" \in cause

\* watchdog.rs on nested operations: a nested arm and disarm "must not let [...]
\* clobber the outer op's deadline, or the outer op would run unbounded after the
\* nested call returns".  Once a deadline has passed, JavaScript on the isolate
\* runs on only under a request to stop.
DeadlineStands ==
  InJs /\ (\E g \in passed : InFlight(g)) => term # "none" \/ (interrupt /\ fired # 0)

\* Every limit that is hit is reported: an operation whose deadline passed while
\* it ran ends as terminated; running out of heap is never "a bogus success", the
\* outermost operation that ran JavaScript reports it.
LimitsReported ==
  [][Len(stack') < Len(stack) /\ Top.ran =>
       /\ Top.gen \in passed => reply' \in {"terminated", "oom"}
       /\ Outermost /\ oomFired => reply' = "oom"]_vars

\* An operation with a timeout ends, whatever its JavaScript does.
TimeoutEnds == \A g \in 1 .. MaxArmed : InFlight(g) ~> ~InFlight(g)

\* Teardown's join of the watchdog thread returns.
TeardownEnds == life = "joining" ~> life = "gone"
=============================================================================
