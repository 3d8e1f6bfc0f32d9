------------------------------- MODULE Realms -------------------------------
(***************************************************************************)
(* The realms of one isolate: V8State, the requests that create, reset and *)
(* dispose a realm, and the microtask checkpoints (ext/rusty_racer/src,    *)
(* lib.rs and ops.rs).                                                     *)
(*                                                                         *)
(* Every realm has a v8::Context and a microtask queue of its own.  Reset  *)
(* and dispose take the context out of use but may not free its queue on   *)
(* the spot: V8 enqueues a promise reaction in the queue of its handler's  *)
(* context, which other realms can still reach, and a checkpoint may be    *)
(* walking the queues.  The pair is parked in retiring, and the end of the *)
(* outermost request repoints the context to the graveyard queue before it *)
(* frees its own.                                                          *)
(***************************************************************************)
EXTENDS Integers, Sequences, FiniteSets

CONSTANTS
  MaxContexts,  \* bound: v8::Contexts ever built
  MaxFrames,    \* bound: frames on the V8 stack
  MaxModules    \* bound: modules and scripts compiled

ASSUME BoundsAssumption ==
  MaxContexts \in Nat \ {0} /\ MaxFrames \in Nat /\ MaxModules \in Nat

VARIABLES
  context,    \* main_context and contexts: the v8::Context of each realm
  queue,      \* the microtask queue each v8::Context points at
  owned,      \* queues that are allocated: main_queue, queues, retiring
  retiring,   \* contexts parked with the queue they were built with
  nextId,     \* next_context_id
  active,     \* active_realms
  draining,   \* IsolateState.draining
  stack,      \* requests, checkpoints and callbacks on the V8 stack
  modules,    \* compiled modules and scripts: realm id and context
  recorder,   \* promise_reject_handler
  disposed    \* realms whose Context wrapper is flagged disposed

realmVars == <<context, queue, owned, retiring, nextId>>
vars == <<realmVars, active, draining, stack, modules, recorder, disposed>>

Main == 0
NoRealm == -1
Graveyard == 0
NoContext == 0

\* A v8::Context is built with the queue of the same number.
Built == DOMAIN queue
Known(r) == r \in DOMAIN context
Current == {context[r] : r \in DOMAIN context}

Top == stack[Len(stack)]
Pop == SubSeq(stack, 1, Len(stack) - 1)
Push(frame) == Len(stack) < MaxFrames /\ stack' = Append(stack, frame)

RubyRuns == stack # <<>> => Top.kind = "callback"
ScriptRuns == stack # <<>> /\ Top.kind \in {"request", "checkpoint"}
Outermost == stack = <<>>

-----------------------------------------------------------------------------
(* new_realm: a context that points at a queue of its own.                 *)
NewRealm(c) ==
  /\ c = Cardinality(Built) + 1 /\ c <= MaxContexts
  /\ queue' = [d \in Built \cup {c} |-> IF d = c THEN c ELSE queue[d]]

\* Mutant: the contexts are not repointed.
FlushOnlyFreeing ==
  /\ UNCHANGED queue
  /\ owned' = owned \ retiring
  /\ retiring' = {}

\* Mutant: the queues are not freed.
FlushOnlyRepointing ==
  /\ queue' = [c \in Built |-> IF c \in retiring THEN Graveyard ELSE queue[c]]
  /\ UNCHANGED owned
  /\ retiring' = {}

(* flush_retiring, at the end of an outermost request: repoint each parked *)
(* context, then free the queue it was built with.                         *)
Flush ==
  /\ queue' = [c \in Built |-> IF c \in retiring THEN Graveyard ELSE queue[c]]
  /\ owned' = owned \ retiring
  /\ retiring' = {}

(* What an outermost Reset or DisposeContext does: it parks the context of *)
(* the realm and flushes at once, with the fresh context, if any, built.   *)
Retire(old, fresh) ==
  IF Outermost
  THEN /\ owned' = (owned \cup fresh) \ (retiring \cup {old})
       /\ retiring' = {}
       /\ queue' = [c \in Built \cup fresh |->
                      IF c \in fresh THEN c
                      ELSE IF c \in retiring \cup {old} THEN Graveyard ELSE queue[c]]
  ELSE /\ owned' = owned \cup fresh
       /\ retiring' = retiring \cup {old}
       /\ queue' = [c \in Built \cup fresh |-> IF c \in fresh THEN c ELSE queue[c]]

\* Mutant: the recorder stays.
DropModulesOnly(r) ==
  /\ modules' = {m \in modules : m.realm # r}
  /\ UNCHANGED recorder

(* drop_context_artifacts: modules, scripts and the recorder of a realm.   *)
DropArtifacts(r) ==
  /\ modules' = {m \in modules : m.realm # r}
  /\ recorder' = {h \in recorder : h.realm # r}

-----------------------------------------------------------------------------
(* A request that runs JavaScript in realm r, which it keeps active.       *)
Request(r) ==
  /\ RubyRuns
  /\ Known(r)
  /\ Push([kind |-> "request", realm |-> r, context |-> context[r],
           todo |-> {}, before |-> draining])
  /\ active' = Append(active, r)
  /\ UNCHANGED <<realmVars, draining, modules, recorder, disposed>>

(* PumpMessageLoop: a posted task runs JavaScript of some context, and no  *)
(* realm is active for it.                                                 *)
PumpTask(c) ==
  /\ RubyRuns
  /\ Push([kind |-> "request", realm |-> NoRealm, context |-> c,
           todo |-> {}, before |-> draining])
  /\ UNCHANGED <<realmVars, active, draining, modules, recorder, disposed>>

(* checkpoint_draining: the automatic drain, an explicit one, or JavaScript *)
(* calling NS.drainMicrotasks.  The queues are taken once, at the start.   *)
StartCheckpoint ==
  /\ ScriptRuns
  /\ Push([kind |-> "checkpoint", realm |-> NoRealm, context |-> NoContext,
           todo |-> Current, before |-> draining])
  /\ draining' = TRUE
  /\ UNCHANGED <<realmVars, active, modules, recorder, disposed>>

(* drain_all_realms has done with a queue and takes the next.              *)
NextQueue ==
  /\ ScriptRuns /\ Top.kind = "checkpoint"
  /\ \E q \in Top.todo : stack' = [stack EXCEPT ![Len(stack)].todo = @ \ {q}]
  /\ UNCHANGED <<realmVars, active, draining, modules, recorder, disposed>>

\* Mutant: it clears the flag and does not restore it.
EndClearing ==
  /\ ScriptRuns /\ Top.kind = "checkpoint" /\ Top.todo = {}
  /\ draining' = FALSE
  /\ stack' = Pop
  /\ UNCHANGED <<realmVars, active, modules, recorder, disposed>>

EndCheckpoint ==
  /\ ScriptRuns /\ Top.kind = "checkpoint" /\ Top.todo = {}
  /\ draining' = Top.before
  /\ stack' = Pop
  /\ UNCHANGED <<realmVars, active, modules, recorder, disposed>>

(* JavaScript calls a host function attached in realm r, which any realm   *)
(* of the isolate may have a reference to.                                 *)
CallRuby(r) ==
  /\ ScriptRuns
  /\ Known(r)
  /\ Push([kind |-> "callback", realm |-> r, context |-> context[r],
           todo |-> {}, before |-> draining])
  /\ UNCHANGED <<realmVars, active, draining, modules, recorder, disposed>>

ReturnRuby ==
  /\ stack # <<>> /\ Top.kind = "callback"
  /\ stack' = Pop
  /\ UNCHANGED <<realmVars, active, draining, modules, recorder, disposed>>

(* The end of service_request.                                             *)
Finish ==
  /\ ScriptRuns /\ Top.kind = "request"
  /\ stack' = Pop
  /\ active' = IF Top.realm = NoRealm THEN active
               ELSE SubSeq(active, 1, Len(active) - 1)
  /\ IF Len(stack) = 1 THEN Flush ELSE UNCHANGED <<queue, owned, retiring>>
  /\ UNCHANGED <<context, nextId, draining, modules, recorder, disposed>>

-----------------------------------------------------------------------------
IsActive(r) == \E k \in DOMAIN active : active[k] = r

\* Mutant: the id is used again.
CreateSameId ==
  /\ RubyRuns
  /\ \E c \in 1 .. MaxContexts :
        /\ NewRealm(c)
        /\ context' = [r \in DOMAIN context \cup {nextId} |->
                         IF r = nextId THEN c ELSE context[r]]
        /\ owned' = owned \cup {c}
  /\ UNCHANGED <<nextId, retiring, active, draining, stack, modules, recorder, disposed>>

(* op_create_context                                                       *)
CreateContext ==
  /\ RubyRuns
  /\ \E c \in 1 .. MaxContexts :
        /\ NewRealm(c)
        /\ context' = [r \in DOMAIN context \cup {nextId} |->
                         IF r = nextId THEN c ELSE context[r]]
        /\ owned' = owned \cup {c}
  /\ nextId' = nextId + 1
  /\ UNCHANGED <<retiring, active, draining, stack, modules, recorder, disposed>>

\* Mutant: a suspended realm is not refused.
ResetWhileActive(r) ==
  /\ RubyRuns
  /\ ~draining /\ Known(r)
  /\ \E c \in 1 .. MaxContexts :
        /\ c = Cardinality(Built) + 1
        /\ Retire(context[r], {c})
        /\ context' = [context EXCEPT ![r] = c]
  /\ DropArtifacts(r)
  /\ UNCHANGED <<nextId, active, draining, stack, disposed>>

(* op_reset: refused during a checkpoint, for an unknown realm and for one *)
(* a request is suspended in.                                              *)
Reset(r) ==
  /\ RubyRuns
  /\ ~draining /\ Known(r) /\ ~IsActive(r)
  /\ \E c \in 1 .. MaxContexts :
        /\ c = Cardinality(Built) + 1
        /\ Retire(context[r], {c})
        /\ context' = [context EXCEPT ![r] = c]
  /\ DropArtifacts(r)
  /\ UNCHANGED <<nextId, active, draining, stack, disposed>>

(* Context#dispose: the wrapper is flagged first, and whatever becomes of  *)
(* the request (op_dispose_context), the call succeeds.                    *)
DisposeContext(r) ==
  /\ RubyRuns
  /\ r \in 1 .. nextId - 1 /\ r \notin disposed
  /\ disposed' = disposed \cup {r}
  /\ IF draining \/ IsActive(r)
     THEN UNCHANGED <<context, queue, owned, retiring, modules, recorder>>
     ELSE /\ Retire(context[r], {})
          /\ context' = [s \in DOMAIN context \ {r} |-> context[s]]
          /\ DropArtifacts(r)
  /\ UNCHANGED <<nextId, active, draining, stack>>

(* op_compile_module and op_compile_script, which run no JavaScript.       *)
Compile(r) ==
  /\ RubyRuns
  /\ Known(r)
  /\ Cardinality(modules) < MaxModules
  /\ modules' = modules \cup {[realm |-> r, context |-> context[r]]}
  /\ UNCHANGED <<realmVars, active, draining, stack, recorder, disposed>>

(* NS.setPromiseRejectHandler with a function of context c: id_of_context  *)
(* names its realm, and 0 stands for a context that is no realm's.         *)
SetRecorder(c) ==
  /\ ScriptRuns
  /\ recorder' =
       IF c \in Current
       THEN {[realm |-> r, context |-> c] : r \in {s \in DOMAIN context : context[s] = c}}
       ELSE {[realm |-> Main, context |-> c]}
  /\ UNCHANGED <<realmVars, active, draining, stack, modules, disposed>>

-----------------------------------------------------------------------------
Init ==
  /\ context = [r \in {Main} |-> 1]
  /\ queue = [c \in {1} |-> 1]
  /\ owned = {1}
  /\ retiring = {}
  /\ nextId = 1
  /\ active = <<>>
  /\ draining = FALSE
  /\ stack = <<>>
  /\ modules = {}
  /\ recorder = {}
  /\ disposed = {}

Next ==
  \/ \E r \in DOMAIN context :
        Request(r) \/ CallRuby(r) \/ Reset(r) \/ DisposeContext(r) \/ Compile(r)
  \/ \E c \in Built : PumpTask(c) \/ SetRecorder(c)
  \/ StartCheckpoint \/ NextQueue \/ EndCheckpoint
  \/ ReturnRuby \/ Finish \/ CreateContext

Spec == Init /\ [][Next]_vars
-----------------------------------------------------------------------------
Frame == [kind : {"request", "checkpoint", "callback"},
          realm : {NoRealm} \cup Nat, context : Nat,
          todo : SUBSET Nat, before : BOOLEAN]

Artifact == [realm : Nat, context : Nat]

\* Types; a realm's context is built and not retiring, and ids are not used again.
TypeOK ==
  /\ DOMAIN context \subseteq 0 .. nextId - 1 /\ Main \in DOMAIN context
  /\ Built = 1 .. Cardinality(Built)
  /\ Current \subseteq Built /\ retiring \subseteq Built \ Current
  /\ \A c \in Built : queue[c] \in {c, Graveyard}
  /\ owned \subseteq Built
  /\ nextId \in Nat \ {0}
  /\ active \in Seq(Nat)
  /\ draining \in BOOLEAN
  /\ stack \in Seq(Frame)
  /\ modules \subseteq Artifact /\ recorder \subseteq Artifact
  /\ disposed \subseteq 1 .. nextId - 1

\* No v8::Context that JavaScript may still reach points at a queue that has
\* been freed, so a promise of a realm that is gone resolves into valid memory.
NoFreedQueue == \A c \in Built : queue[c] \in owned \cup {Graveyard}

\* The queues a checkpoint has still to run are those of realms in use: nothing
\* its microtasks do, and no request they issue, takes one of them away.
SnapshotIsCurrent == \A k \in DOMAIN stack : stack[k].todo \subseteq Current

\* A suspended request finds its realm as it left it: same id, same v8::Context.
RequestKeepsRealm ==
  \A k \in DOMAIN stack :
     stack[k].kind = "request" /\ stack[k].realm # NoRealm =>
        Known(stack[k].realm) /\ context[stack[k].realm] = stack[k].context

\* Modules, scripts and the promise-reject recorder end with their context: one that
\* survives it would run in the wrong realm under the same id.
ArtifactsDieWithContext ==
  [][\A c \in Current \ Current' : \A h \in modules' \cup recorder' : h.context # c]_vars

\* Between requests no realm waits to be torn down and no queue of a realm that
\* is gone is kept: the leak per reset that the per-realm queues are there to fix.
NothingLeftWhenIdle == stack = <<>> => retiring = {} /\ owned = Current

=============================================================================
