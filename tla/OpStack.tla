------------------------------ MODULE OpStack ------------------------------
(***************************************************************************)
(* The nesting of operations: Core::run, the two GVL trampolines and the   *)
(* life of an isolate (ext/rusty_racer/src/lib.rs).                        *)
(*                                                                         *)
(* One Ruby thread owns every isolate here.  It runs Ruby on Fibers, each  *)
(* with a stack of its own.  On a Fiber's stack an operation (a call of    *)
(* Core::run, whose JavaScript is running) alternates with a callback (a   *)
(* with_gvl call, in which Ruby holds control and may start further        *)
(* operations, on any isolate, or switch Fibers).  Core.depth counts the   *)
(* operations in flight on one isolate; V8 keeps its own record of which   *)
(* isolate is entered on the thread.                                       *)
(***************************************************************************)
EXTENDS Integers, Sequences, FiniteSets

CONSTANTS
  Isolates,   \* the isolates the thread may create
  NoIsolate,  \* "no isolate is current on this thread"
  Fibers,     \* the Ruby Fibers of the owner thread
  MainFiber,  \* the thread's root Fiber, which nobody resumes
  NoFiber,
  Outcomes,   \* how service_request may end: "reply", "panic"
  MaxDepth    \* bound: operations in flight on one isolate

ASSUME Distinct == NoIsolate \notin Isolates /\ NoFiber \notin Fibers
ASSUME MainIsFiber == MainFiber \in Fibers
ASSUME OutcomesAssumption == Outcomes \subseteq {"reply", "panic"}
ASSUME MaxDepthAssumption == MaxDepth \in Nat

VARIABLES
  stack,      \* stack[f]: the operations and callbacks on Fiber f's stack
  running,    \* the Fiber that is executing
  resumer,    \* resumer[f]: the Fiber blocked in f.resume, or NoFiber
  abandoned,  \* suspended Fibers no Ruby reference reaches any more
  yieldedOut, \* history: some Fiber was suspended with a callback on its stack
  aborted,    \* fatal_nesting_broken stopped the process
  depth,      \* Core.depth of each isolate
  current,    \* v8::Isolate::GetCurrent()
  entry,      \* entry[i]: what each Enter of i found current, oldest first
  created,    \* isolates Isolate::new has built
  held,       \* isolates Ruby still has a wrapper of
  dropped,    \* isolates whose Core has been dropped
  disposed,   \* Shared.disposed
  registry,   \* the ISOLATES map: OwnedIsolates not yet destroyed
  watchdog,   \* isolates whose watchdog thread has not been told to stop
  leaked      \* LEAKED_ISOLATES

fiberVars == <<running, resumer, abandoned, yieldedOut>>
entryVars == <<current, entry>>
lifeVars  == <<created, held, dropped, disposed, registry, watchdog, leaked>>
vars == <<stack, fiberVars, aborted, depth, entryVars, lifeVars>>

Frame == [kind : {"op", "callback"}, iso : Isolates, depth : Nat, entered : BOOLEAN]

Top(f) == stack[f][Len(stack[f])]
Pop(f) == SubSeq(stack[f], 1, Len(stack[f]) - 1)

\* Ruby code is executing on the Fiber: at its base, or in a callback.
InRuby(f) == stack[f] # <<>> => Top(f).kind = "callback"

RubyRuns   == ~aborted /\ InRuby(running)
ScriptRuns == ~aborted /\ ~InRuby(running)

\* Somebody who still can run Ruby has a Core method of i on its stack.
OnReachableStack(i) ==
  \E f \in Fibers \ abandoned : \E k \in DOMAIN stack[f] : stack[f][k].iso = i

-----------------------------------------------------------------------------
(* V8's Isolate::Enter and Isolate::Exit.  Exit(i) restores what was       *)
(* current when i was last entered, whatever is current now.               *)
Enter(i) ==
  /\ current' = i
  /\ entry' = [entry EXCEPT ![i] = Append(@, current)]

Exit(i) ==
  /\ current' = entry[i][Len(entry[i])]
  /\ entry' = [entry EXCEPT ![i] = SubSeq(@, 1, Len(@) - 1)]

-----------------------------------------------------------------------------
(* Isolate::new, which enters the isolate to boot it and exits it again.   *)
New(i) ==
  /\ RubyRuns
  /\ i \notin created
  /\ created' = created \cup {i}
  /\ held' = held \cup {i}
  /\ registry' = registry \cup {i}
  /\ watchdog' = watchdog \cup {i}
  /\ UNCHANGED <<stack, fiberVars, aborted, depth, entryVars, dropped, disposed, leaked>>

(* A mutant that enters the isolate only for an outermost operation.      *)
StartEnteringAtZero(i) ==
  LET entered == depth[i] = 0
  IN /\ RubyRuns
     /\ i \in held
     /\ i \notin disposed
     /\ depth[i] < MaxDepth
     /\ depth' = [depth EXCEPT ![i] = @ + 1]
     /\ stack' = [stack EXCEPT ![running] = Append(@,
                    [kind |-> "op", iso |-> i, depth |-> depth[i], entered |-> entered])]
     /\ IF entered THEN Enter(i) ELSE UNCHANGED entryVars
     /\ UNCHANGED <<fiberVars, aborted, lifeVars>>

(* Core::run up to service_request: ensure_owner_and_live, the depth       *)
(* count, and Enter unless this isolate is the one already current.        *)
Start(i) ==
  LET entered == depth[i] = 0 \/ current # i
  IN /\ RubyRuns
     /\ i \in held
     /\ i \notin disposed
     /\ depth[i] < MaxDepth
     /\ depth' = [depth EXCEPT ![i] = @ + 1]
     /\ stack' = [stack EXCEPT ![running] = Append(@,
                    [kind |-> "op", iso |-> i, depth |-> depth[i], entered |-> entered])]
     /\ IF entered THEN Enter(i) ELSE UNCHANGED entryVars
     /\ UNCHANGED <<fiberVars, aborted, lifeVars>>

(* JavaScript calls a host function or a module resolver: with_gvl takes   *)
(* the GVL back and notes the depth it hands control over at.              *)
CallRuby ==
  /\ ScriptRuns
  /\ LET op == Top(running)
     IN stack' = [stack EXCEPT ![running] = Append(@,
                    [kind |-> "callback", iso |-> op.iso,
                     depth |-> depth[op.iso], entered |-> FALSE])]
  /\ UNCHANGED <<fiberVars, aborted, depth, entryVars, lifeVars>>

(* A mutant that does not compare the depth.                              *)
ReturnUnchecked ==
  /\ stack[running] # <<>>
  /\ RubyRuns
  /\ stack' = [stack EXCEPT ![running] = Pop(running)]
  /\ UNCHANGED <<fiberVars, aborted, depth, entryVars, lifeVars>>

(* The Ruby callback returns: with_gvl compares the depth, and goes on in  *)
(* JavaScript only when it is the one noted; otherwise the process stops.  *)
ReturnRuby ==
  /\ stack[running] # <<>>
  /\ RubyRuns
  /\ IF depth[Top(running).iso] = Top(running).depth
     THEN stack' = [stack EXCEPT ![running] = Pop(running)] /\ UNCHANGED aborted
     ELSE aborted' = TRUE /\ UNCHANGED stack
  /\ UNCHANGED <<fiberVars, depth, entryVars, lifeVars>>

(* service_request is done: Core::run exits what it entered, poisons the   *)
(* isolate after a panic and gives the depth back, all inside the closure. *)
Finish(outcome) ==
  /\ ScriptRuns
  /\ LET op == Top(running)
     IN /\ stack' = [stack EXCEPT ![running] = Pop(running)]
        /\ depth' = [depth EXCEPT ![op.iso] = @ - 1]
        /\ IF op.entered THEN Exit(op.iso) ELSE UNCHANGED entryVars
        /\ disposed' = IF outcome = "panic" THEN disposed \cup {op.iso} ELSE disposed
  /\ UNCHANGED <<fiberVars, aborted, created, held, dropped, registry, watchdog, leaked>>

-----------------------------------------------------------------------------
(* Fiber#resume of a Fiber that is not blocked in a resume of its own.     *)
Resume(g) ==
  /\ RubyRuns
  /\ g \notin {MainFiber, running}
  /\ g \notin abandoned
  /\ resumer[g] = NoFiber
  /\ running' = g
  /\ resumer' = [resumer EXCEPT ![g] = running]
  /\ UNCHANGED <<stack, abandoned, yieldedOut, aborted, depth, entryVars, lifeVars>>

(* Fiber.yield, or the end of the Fiber's block when its stack is empty.   *)
Yield ==
  /\ RubyRuns
  /\ running # MainFiber
  /\ running' = resumer[running]
  /\ resumer' = [resumer EXCEPT ![running] = NoFiber]
  /\ yieldedOut' = (yieldedOut \/ stack[running] # <<>>)
  /\ UNCHANGED <<stack, abandoned, aborted, depth, entryVars, lifeVars>>

(* The last reference to a suspended Fiber goes away: Ruby will free its   *)
(* stack without unwinding it, so its frames never finish.                 *)
Abandon(g) ==
  /\ RubyRuns
  /\ g \notin {MainFiber, running} \cup abandoned
  /\ resumer[g] = NoFiber
  /\ stack[g] # <<>>
  /\ abandoned' = abandoned \cup {g}
  /\ UNCHANGED <<stack, running, resumer, yieldedOut, aborted, depth, entryVars, lifeVars>>

-----------------------------------------------------------------------------
(* Core::teardown: the watchdog is stopped and joined, the isolate is      *)
(* entered, cleared, taken out of ISOLATES and destroyed, which exits it.  *)
Teardown(i) ==
  /\ disposed' = disposed \cup {i}
  /\ registry' = registry \ {i}
  /\ watchdog' = watchdog \ {i}

(* A mutant that does not refuse while an operation is in flight.         *)
DisposeUnguarded(i) ==
  /\ RubyRuns
  /\ i \in held
  /\ i \notin disposed
  /\ Teardown(i)
  /\ UNCHANGED <<stack, fiberVars, aborted, depth, entryVars, created, held, dropped, leaked>>

(* Core::dispose on the owner thread: done already, refused while an       *)
(* operation is in flight, or a teardown.  Only the last changes a state.  *)
Dispose(i) ==
  /\ RubyRuns
  /\ i \in held
  /\ i \notin disposed
  /\ depth[i] = 0
  /\ Teardown(i)
  /\ UNCHANGED <<stack, fiberVars, aborted, depth, entryVars, created, held, dropped, leaked>>

(* Ruby code lets go of its last wrapper of i.                             *)
Release(i) ==
  /\ RubyRuns
  /\ i \in held
  /\ held' = held \ {i}
  /\ UNCHANGED <<stack, fiberVars, aborted, depth, entryVars, created, dropped,
                 disposed, registry, watchdog, leaked>>

(* Drop for Core, when the GC collects the last wrapper: on the owner      *)
(* thread while it runs Ruby, or on a thread that does not own i.          *)
Collected(i) ==
  /\ i \in created \ (held \cup dropped)
  /\ ~OnReachableStack(i)
  /\ dropped' = dropped \cup {i}
  /\ UNCHANGED <<stack, fiberVars, aborted, depth, entryVars, created, held>>

(* A mutant that stops the watchdog and does not count.                   *)
LeakUncounted(i) ==
  /\ watchdog' = watchdog \ {i}
  /\ UNCHANGED <<disposed, registry, leaked>>

LeakIt(i) ==
  /\ leaked' = leaked + 1
  /\ watchdog' = watchdog \ {i}
  /\ UNCHANGED <<disposed, registry>>

DropDisposed(i) ==
  /\ ~aborted
  /\ i \in disposed
  /\ Collected(i)
  /\ UNCHANGED <<disposed, registry, watchdog, leaked>>

DropForeign(i) ==
  /\ ~aborted
  /\ i \notin disposed
  /\ Collected(i)
  /\ LeakIt(i)

DropOnOwner(i) ==
  /\ RubyRuns
  /\ i \notin disposed
  /\ Collected(i)
  /\ IF depth[i] # 0 THEN LeakIt(i) ELSE Teardown(i) /\ UNCHANGED leaked

-----------------------------------------------------------------------------
Init ==
  /\ stack = [f \in Fibers |-> <<>>]
  /\ running = MainFiber
  /\ resumer = [f \in Fibers |-> NoFiber]
  /\ abandoned = {}
  /\ yieldedOut = FALSE
  /\ aborted = FALSE
  /\ depth = [i \in Isolates |-> 0]
  /\ current = NoIsolate
  /\ entry = [i \in Isolates |-> <<>>]
  /\ created = {} /\ held = {} /\ dropped = {} /\ disposed = {}
  /\ registry = {} /\ watchdog = {}
  /\ leaked = 0

IsolateStep(i) ==
  \/ New(i) \/ Start(i) \/ Dispose(i) \/ Release(i)
  \/ DropDisposed(i) \/ DropForeign(i) \/ DropOnOwner(i)

FiberStep(g) == Resume(g) \/ Abandon(g)

Next ==
  \/ \E i \in Isolates : IsolateStep(i)
  \/ \E g \in Fibers : FiberStep(g)
  \/ \E outcome \in Outcomes : Finish(outcome)
  \/ CallRuby \/ ReturnRuby \/ Yield

Spec == Init /\ [][Next]_vars
-----------------------------------------------------------------------------
\* Types of the stacks, the Fibers' states and the isolates' states.
TypeOK ==
  /\ stack \in [Fibers -> Seq(Frame)]
  /\ running \in Fibers
  /\ resumer \in [Fibers -> Fibers \cup {NoFiber}]
  /\ abandoned \subseteq Fibers
  /\ yieldedOut \in BOOLEAN
  /\ aborted \in BOOLEAN
  /\ depth \in [Isolates -> Nat]
  /\ current \in Isolates \cup {NoIsolate}
  /\ entry \in [Isolates -> Seq(Isolates \cup {NoIsolate})]
  /\ held \subseteq created /\ registry \subseteq created /\ watchdog \subseteq registry
  /\ dropped \subseteq created /\ disposed \subseteq created
  /\ created \subseteq Isolates
  /\ leaked \in Nat

OpOn(i, f, k) == stack[f][k].kind = "op" /\ stack[f][k].iso = i

\* The operations in flight on i, each as <<fiber, index in its stack>>.
InFlight(i) == UNION {{f} \X {k \in DOMAIN stack[f] : OpOn(i, f, k)} : f \in Fibers}

\* The operation whose JavaScript runs was started after every other one in
\* flight on its isolate: with_gvl lets control back into JavaScript only where
\* the operations of the isolate still nest, whatever Fibers did in between.
InnermostRuns ==
  ~InRuby(running) =>
     \A f \in Fibers : \A k \in DOMAIN stack[f] :
        /\ OpOn(Top(running).iso, f, k)
        /\ f = running => k < Len(stack[f])
        => stack[f][k].depth < Top(running).depth

\* As long as no Fiber was suspended in a callback, whatever callbacks and
\* resumes nest: JavaScript of an isolate runs with that isolate current on the
\* thread, so that the scope Core::run opens and the context belong together;
\* and with_gvl does not stop the process.
NestsUnlessYielded ==
  ~yieldedOut => /\ ~InRuby(running) => current = Top(running).iso
                 /\ ~aborted

\* leaked_isolate_count is the number of isolates that lost their last wrapper
\* and could not be destroyed (poisoned ones aside), and none of their watchdog
\* threads runs on.
LeaksCounted ==
  LET stuck == (dropped \cap registry) \ disposed
  IN leaked = Cardinality(stuck) /\ stuck \cap watchdog = {}

-----------------------------------------------------------------------------
(* The operation that started at depth d - 1 is the d-th of the abstract   *)
(* stack of its isolate.                                                   *)
FiberOf(i, d) ==
  CHOOSE f \in Fibers : \E k \in DOMAIN stack[f] :
     OpOn(i, f, k) /\ stack[f][k].depth = d - 1

Nesting == INSTANCE OpNesting WITH
  live <- registry,
  inflight <- [i \in Isolates |-> [d \in 1 .. depth[i] |-> FiberOf(i, d)]]

\* Operations end in the reverse of the order they started, isolate by isolate,
\* on whatever Fibers: what with_gvl's check of the depth is there to ensure.
ImplementsOpNesting == Nesting!Spec

=============================================================================
