------------------------------- MODULE Modules ------------------------------
(***************************************************************************)
(* ES modules of one isolate: instantiate and evaluate requests, import()  *)
(* and the two resolvers (ext/rusty_racer/src/lib.rs and ops.rs).          *)
(*                                                                         *)
(* V8's linking and evaluation run on the owner thread and call back into  *)
(* Ruby: a resolver names the module of an import, a host function does    *)
(* anything.  Ruby may there issue further requests, so frames of V8 and   *)
(* of Ruby alternate on one stack.  instantiate_module parks its resolver  *)
(* in the isolate's state, where resolve_imported finds it; when none is   *)
(* parked, the isolate's dynamic_import_resolver is asked.  A thread       *)
(* interrupt may arrive as instantiate_module's request returns.           *)
(*                                                                         *)
(* A module imports at most one other, so the modules of a link are asked  *)
(* about one after the other.                                              *)
(***************************************************************************)
EXTENDS Integers, Sequences, FiniteSets

LOCAL INSTANCE FiniteSetsExt

CONSTANTS
  Realms,      \* the realm ids
  NoRealm,     \* no realm: Option::None
  MaxModules,  \* bound: modules compiled
  MaxCalls,    \* bound: calls of instantiate_module
  MaxImports,  \* bound: import() calls
  MaxResets,   \* bound: resets, of all realms together
  MaxFrames,   \* bound: frames on the stack
  Interrupts   \* whether the thread may be interrupted: a set of BOOLEAN

ASSUME NoRealmAssumption == NoRealm \notin Realms
ASSUME BoundsAssumption ==
  {MaxModules, MaxCalls, MaxImports, MaxResets, MaxFrames} \subseteq Nat
ASSUME InterruptsAssumption == Interrupts \subseteq BOOLEAN

VARIABLES
  stack,          \* the frames of V8 and Ruby
  mods,           \* the modules compiled; by_id holds those still registered
  instantiating,  \* IsolateState.instantiating
  parked,         \* instantiate_resolve: the call whose block is parked
  parkedErr,      \* instantiate_resolve_err: the call whose block raised it
  epoch,          \* how often each realm was reset
  promises,       \* the import() promises
  terminated,     \* a termination unwinds the frames on top
  reports,        \* what each instantiate_module raised of its block's
  raised          \* the calls during whose link a block raised

vars == <<stack, mods, instantiating, parked, parkedErr, epoch, promises,
          terminated, reports, raised>>

None == 0
Interrupted == -1
Failed == -1
Unlinked == "uninstantiated"
Linking == "instantiating"
Linked == "instantiated"
Evaluating == "evaluating"
Evaluated == "evaluated"
Errored == "errored"

-----------------------------------------------------------------------------
Top == stack[Len(stack)]
Pop == SubSeq(stack, 1, Len(stack) - 1)
Frame(kind, realm, module, promise) ==
  [kind |-> kind, realm |-> realm, module |-> module, at |-> None,
   call |-> None, promise |-> promise, epoch |-> 0, saved |-> <<None, None>>]

Ruby == {"resolver", "importer", "callback"}
Script == {"eval", "evaluate", "body"}
Links == {"instantiate", "link"}
Request == {"instantiate", "eval", "evaluate"}

RubyRuns == stack # <<>> => Top.kind \in Ruby
ScriptRuns == stack # <<>> /\ Top.kind \in Script /\ ~terminated

\* active_realms: the realms of the requests on the stack.
Active == {stack[k].realm : k \in {j \in DOMAIN stack : stack[j].kind \in Request}}

\* id_of_context: the realm whose context this one is now.
RealmOf(r, e) == IF epoch[r] = e THEN r ELSE NoRealm

\* What an answer of a resolver finds: a module by_id has, of the realm |here|.
Usable(a, here) == a # None /\ mods[a].registered /\ mods[a].realm = here

SetStatus(S, status) ==
  [m \in DOMAIN mods |-> IF m \in S THEN [mods[m] EXCEPT !.status = status] ELSE mods[m]]

\* The module of a link that is asked about next, once m is part of it.
Next_(m) == IF mods[m].imports THEN m ELSE None

\* The modules m imports, directly or not, and m.
Graph(m) ==
  LET upto[k \in 0 .. Len(mods)] ==
        IF k = 0 THEN {m}
        ELSE upto[k - 1] \cup ({mods[n].dep : n \in upto[k - 1]} \ {None})
  IN upto[Len(mods)]

-----------------------------------------------------------------------------
(* op_compile_module                                                       *)
Compile(r, imports) ==
  /\ RubyRuns
  /\ Len(mods) < MaxModules
  /\ mods' = Append(mods, [realm |-> r, epoch |-> epoch[r], status |-> Unlinked,
                           imports |-> imports, dep |-> None, registered |-> TRUE])
  /\ UNCHANGED <<stack, instantiating, parked, parkedErr, epoch, promises,
                 terminated, reports, raised>>

(* op_dispose_module: V8 keeps the module as long as a link needs it.      *)
DisposeModule(m) ==
  /\ RubyRuns
  /\ mods' = [mods EXCEPT ![m].registered = FALSE]
  /\ UNCHANGED <<stack, instantiating, parked, parkedErr, epoch, promises,
                 terminated, reports, raised>>

\* How many resets there were.
Resets == MapThenSumSet(LAMBDA r : epoch[r], Realms)

\* Mutant: a realm with a suspended request is not refused.
ResetActive(r) ==
  /\ RubyRuns
  /\ Resets < MaxResets
  /\ epoch' = [epoch EXCEPT ![r] = @ + 1]
  /\ mods' = [m \in DOMAIN mods |->
                IF mods[m].realm = r THEN [mods[m] EXCEPT !.registered = FALSE] ELSE mods[m]]
  /\ UNCHANGED <<stack, instantiating, parked, parkedErr, promises, terminated,
                 reports, raised>>

(* op_reset: another context under the same id; its modules are dropped.   *)
Reset(r) ==
  /\ RubyRuns
  /\ r \notin Active
  /\ Resets < MaxResets
  /\ epoch' = [epoch EXCEPT ![r] = @ + 1]
  /\ mods' = [m \in DOMAIN mods |->
                IF mods[m].realm = r THEN [mods[m] EXCEPT !.registered = FALSE] ELSE mods[m]]
  /\ UNCHANGED <<stack, instantiating, parked, parkedErr, promises, terminated,
                 reports, raised>>

(* A request that runs JavaScript: eval, call, run_script.                 *)
Eval(r) ==
  /\ RubyRuns
  /\ Len(stack) < MaxFrames
  /\ stack' = Append(stack, Frame("eval", r, None, None))
  /\ UNCHANGED <<mods, instantiating, parked, parkedErr, epoch, promises,
                 terminated, reports, raised>>

(* A host function called by JavaScript, and its return.                   *)
CallHost ==
  /\ ScriptRuns
  /\ Len(stack) < MaxFrames
  /\ stack' = Append(stack, Frame("callback", NoRealm, None, None))
  /\ UNCHANGED <<mods, instantiating, parked, parkedErr, epoch, promises,
                 terminated, reports, raised>>

ReturnHost ==
  /\ stack # <<>> /\ Top.kind = "callback"
  /\ stack' = Pop
  /\ UNCHANGED <<mods, instantiating, parked, parkedErr, epoch, promises,
                 terminated, reports, raised>>

-----------------------------------------------------------------------------
\* op_instantiate_module links: no other link is on the stack, and there is work.
MayLink(m) ==
  ~instantiating /\ mods[m].registered /\ mods[m].status = Unlinked

(* instantiate_module parks its block, saving the pair parked before, and  *)
(* puts that pair back when its request has returned.                      *)
Instantiate(m) ==
  /\ RubyRuns
  /\ MayLink(m)
  /\ Len(reports) < MaxCalls /\ Len(stack) < MaxFrames
  /\ reports' = Append(reports, None)
  /\ parked' = Len(reports') /\ parkedErr' = None
  /\ stack' = Append(stack,
                [Frame("instantiate", mods[m].realm, m, None) EXCEPT
                   !.call = Len(reports'), !.at = Next_(m), !.epoch = mods[m].epoch,
                   !.saved = <<parked, parkedErr>>])
  /\ instantiating' = TRUE
  /\ mods' = SetStatus({m}, Linking)
  /\ UNCHANGED <<epoch, promises, terminated, raised>>

\* Mutant: the slot is cleared and what was parked is not put back.
InstantiateForgetting(m) ==
  /\ RubyRuns
  /\ ~MayLink(m)
  /\ Len(reports) < MaxCalls
  /\ reports' = Append(reports, None)
  /\ parked' = None /\ parkedErr' = None
  /\ UNCHANGED <<stack, mods, instantiating, epoch, promises, terminated, raised>>

(* An instantiate that links nothing: another link is on the stack, the    *)
(* module is unknown, linked already or errored.  It parks all the same.   *)
InstantiateInVain(m) ==
  /\ RubyRuns
  /\ ~MayLink(m)
  /\ Len(reports) < MaxCalls
  /\ \E interrupted \in Interrupts :
        IF interrupted
        THEN /\ reports' = Append(reports, Interrupted)
             /\ parked' = Len(reports') /\ parkedErr' = None
        ELSE /\ reports' = Append(reports, None)
             /\ UNCHANGED <<parked, parkedErr>>
  /\ UNCHANGED <<stack, mods, instantiating, epoch, promises, terminated, raised>>

(* resolve_imported asks the block parked, or the importer, having noted   *)
(* the realm being linked.                                                 *)
AskResolver ==
  /\ stack # <<>> /\ Top.kind \in Links /\ Top.at > None /\ ~terminated
  /\ Len(stack) < MaxFrames
  /\ stack' = Append(stack, [Frame("resolver", RealmOf(mods[Top.module].realm, Top.epoch),
                                   Top.at, None) EXCEPT !.call = parked])
  /\ UNCHANGED <<mods, instantiating, parked, parkedErr, epoch, promises,
                 terminated, reports, raised>>

\* The link below a resolver goes on at module n, or has failed.
LinkGoesOn(n) == [Pop EXCEPT ![Len(stack) - 1].at = n]

(* The resolver names module a, or None: nil, or a disposed module.        *)
ResolverAnswers(a) ==
  /\ stack # <<>> /\ Top.kind = "resolver"
  /\ IF Usable(a, Top.realm)
     THEN IF mods[a].status = Unlinked
          THEN /\ mods' = [mods EXCEPT ![Top.module].dep = a, ![a].status = Linking]
               /\ stack' = LinkGoesOn(Next_(a))
          ELSE /\ mods' = [mods EXCEPT ![Top.module].dep = a]
               /\ stack' = LinkGoesOn(None)
     ELSE /\ stack' = LinkGoesOn(Failed)
          /\ UNCHANGED mods
  /\ UNCHANGED <<instantiating, parked, parkedErr, epoch, promises, terminated,
                 reports, raised>>

\* The link a resolver works for.
Asking == stack[Len(stack) - 1]

(* The resolver raises: a parked block's exception is stashed.             *)
ResolverRaises ==
  /\ stack # <<>> /\ Top.kind = "resolver"
  /\ stack' = LinkGoesOn(Failed)
  /\ parkedErr' = IF Top.call # None THEN Top.call ELSE parkedErr
  /\ raised' = raised \cup ({Asking.call} \ {None})
  /\ UNCHANGED <<mods, instantiating, parked, epoch, promises, terminated, reports>>

-----------------------------------------------------------------------------
(* V8 ends a link: all of it is linked, or all of it is as it was before,  *)
(* with its imports forgotten.  A missing export fails it at the end.      *)
InLink == {m \in DOMAIN mods : mods[m].status = Linking}

LinkEnds(ok) ==
  /\ stack # <<>> /\ Top.kind \in Links
  /\ Top.at > None => terminated
  /\ ok => Top.at = None /\ ~terminated

ResetGraph ==
  [m \in DOMAIN mods |->
     IF m \in InLink THEN [mods[m] EXCEPT !.status = Unlinked, !.dep = None] ELSE mods[m]]

(* The end of an instantiate request and of instantiate_module: the error  *)
(* that is parked is raised, and the pair saved is parked again unless an  *)
(* interrupt goes past that.                                               *)
EndInstantiate(ok) ==
  /\ LinkEnds(ok) /\ Top.kind = "instantiate"
  /\ mods' = IF ok THEN SetStatus(InLink, Linked) ELSE ResetGraph
  /\ instantiating' = FALSE
  /\ terminated' = FALSE
  /\ stack' = Pop
  /\ \E interrupted \in Interrupts :
        IF interrupted
        THEN /\ reports' = [reports EXCEPT ![Top.call] = Interrupted]
             /\ UNCHANGED <<parked, parkedErr>>
        ELSE /\ reports' = [reports EXCEPT ![Top.call] = parkedErr]
             /\ parked' = Top.saved[1] /\ parkedErr' = Top.saved[2]
  /\ UNCHANGED <<epoch, promises, raised>>

-----------------------------------------------------------------------------
(* import() in a context of realm r: the importer is asked.                *)
Import(r, e) ==
  /\ ScriptRuns
  /\ Len(promises) < MaxImports /\ Len(stack) < MaxFrames
  /\ promises' = Append(promises, "pending")
  /\ stack' = Append(stack, [Frame("importer", r, None, Len(promises')) EXCEPT !.epoch = e])
  /\ UNCHANGED <<mods, instantiating, parked, parkedErr, epoch, terminated,
                 reports, raised>>

\* The frame on top has done with its promise.
Settle(how) ==
  /\ promises' = [promises EXCEPT ![Top.promise] = how]
  /\ stack' = Pop

\* finish_dynamic_import evaluates a module that is linked.
EvaluateBody(m, f) == [Frame("body", NoRealm, m, f.promise) EXCEPT !.epoch = f.epoch]
Replace(f) == Append(Pop, f)

\* dynamic_import_cb has an answer it can use.
Answered(a) ==
  /\ stack # <<>> /\ Top.kind = "importer"
  /\ Usable(a, RealmOf(Top.realm, Top.epoch))

\* Mutant: a link on the stack ends the callback before it has rejected.
RefusedSilently(a) ==
  /\ stack # <<>> /\ Top.kind = "importer"
  /\ Answered(a) => \/ mods[a].status \in {Errored, Linking, Evaluating}
                    \/ mods[a].status = Unlinked /\ instantiating
  /\ IF Answered(a) /\ mods[a].status = Unlinked
     THEN stack' = Pop /\ UNCHANGED promises
     ELSE Settle("rejected")
  /\ UNCHANGED <<mods, instantiating, parked, parkedErr, epoch, terminated,
                 reports, raised>>

(* dynamic_import_cb: nothing usable; finish_dynamic_import: a link is on  *)
(* the stack, the module is errored, or busy.                              *)
ImportRefused(a) ==
  /\ stack # <<>> /\ Top.kind = "importer"
  /\ Answered(a) => \/ mods[a].status \in {Errored, Linking, Evaluating}
                    \/ mods[a].status = Unlinked /\ instantiating
  /\ Settle("rejected")
  /\ UNCHANGED <<mods, instantiating, parked, parkedErr, epoch, terminated,
                 reports, raised>>

\* Mutant: it links under the link on the stack.
ImportLinksNested(a) ==
  /\ Answered(a) /\ mods[a].status = Unlinked
  /\ instantiating' = TRUE
  /\ stack' = Replace([Frame("link", NoRealm, a, Top.promise) EXCEPT
                         !.at = Next_(a), !.epoch = Top.epoch])
  /\ mods' = SetStatus({a}, Linking)
  /\ UNCHANGED <<parked, parkedErr, epoch, promises, terminated, reports, raised>>

(* finish_dynamic_import links a module that is merely compiled.           *)
ImportLinks(a) ==
  /\ Answered(a) /\ mods[a].status = Unlinked /\ ~instantiating
  /\ instantiating' = TRUE
  /\ stack' = Replace([Frame("link", NoRealm, a, Top.promise) EXCEPT
                         !.at = Next_(a), !.epoch = Top.epoch])
  /\ mods' = SetStatus({a}, Linking)
  /\ UNCHANGED <<parked, parkedErr, epoch, promises, terminated, reports, raised>>

(* It evaluates a linked one, and takes an evaluated one's promise.        *)
ImportEvaluates(a) ==
  /\ Answered(a)
  /\ \/ /\ mods[a].status = Linked
        /\ stack' = Replace(EvaluateBody(a, Top))
        /\ mods' = SetStatus({a}, Evaluating)
        /\ UNCHANGED promises
     \/ /\ mods[a].status = Evaluated
        /\ Settle("chained")
        /\ UNCHANGED mods
  /\ UNCHANGED <<instantiating, parked, parkedErr, epoch, terminated, reports, raised>>

(* The link of an import ends: it evaluates, rejects, or is unwound.       *)
EndLink(ok) ==
  /\ LinkEnds(ok) /\ Top.kind = "link"
  /\ instantiating' = FALSE
  /\ IF ok
     THEN /\ mods' = [SetStatus(InLink, Linked) EXCEPT ![Top.module].status = Evaluating]
          /\ stack' = Replace(EvaluateBody(Top.module, Top))
          /\ UNCHANGED promises
     ELSE /\ mods' = ResetGraph
          /\ Settle(IF terminated THEN "cut" ELSE "rejected")
  /\ UNCHANGED <<parked, parkedErr, epoch, terminated, reports, raised>>

-----------------------------------------------------------------------------
(* op_evaluate_module: V8 runs a linked module once; with a reporter a     *)
(* request for one that ran already runs the reporter.                     *)
Evaluate(m) ==
  /\ RubyRuns
  /\ mods[m].registered /\ mods[m].status \in {Linked, Evaluated, Errored}
  /\ Len(stack) < MaxFrames
  /\ stack' = Append(stack, Frame("evaluate", mods[m].realm, m, None))
  /\ mods' = IF mods[m].status = Linked THEN SetStatus({m}, Evaluating) ELSE mods
  /\ UNCHANGED <<instantiating, parked, parkedErr, epoch, promises, terminated,
                 reports, raised>>

(* Terminated JavaScript, and links, unwind to the request they belong to. *)
Terminate ==
  /\ stack # <<>> /\ Top.kind \in Script \cup Links
  /\ ~terminated
  /\ terminated' = TRUE
  /\ UNCHANGED <<stack, mods, instantiating, parked, parkedErr, epoch, promises,
                 reports, raised>>

\* Mutant: the termination outlives the request it ended.
EndStillTerminated(ok) ==
  /\ stack # <<>> /\ Top.kind \in Script
  /\ terminated => ~ok
  /\ mods' = IF Top.module = None \/ mods[Top.module].status # Evaluating THEN mods
             ELSE IF ok
             THEN SetStatus({Top.module} \cup {n \in Graph(Top.module) : mods[n].status = Linked},
                            Evaluated)
             ELSE SetStatus({Top.module}, Errored)
  /\ IF Top.kind = "body"
     THEN Settle(IF terminated THEN "cut" ELSE "chained")
     ELSE stack' = Pop /\ UNCHANGED promises
  /\ UNCHANGED terminated
  /\ UNCHANGED <<instantiating, parked, parkedErr, epoch, reports, raised>>

(* JavaScript ends, well or not, and with it the evaluation it was part    *)
(* of; a module's imports are evaluated before it.                         *)
EndScript(ok) ==
  /\ stack # <<>> /\ Top.kind \in Script
  /\ terminated => ~ok
  /\ mods' = IF Top.module = None \/ mods[Top.module].status # Evaluating THEN mods
             ELSE IF ok
             THEN SetStatus({Top.module} \cup {n \in Graph(Top.module) : mods[n].status = Linked},
                            Evaluated)
             ELSE SetStatus({Top.module}, Errored)
  /\ IF Top.kind = "body"
     THEN /\ Settle(IF terminated THEN "cut" ELSE "chained")
          /\ UNCHANGED terminated
     ELSE /\ stack' = Pop
          /\ terminated' = FALSE
          /\ UNCHANGED promises
  /\ UNCHANGED <<instantiating, parked, parkedErr, epoch, reports, raised>>

-----------------------------------------------------------------------------
Init ==
  /\ stack = <<>>
  /\ mods = <<>>
  /\ instantiating = FALSE
  /\ parked = None /\ parkedErr = None
  /\ epoch = [r \in Realms |-> 0]
  /\ promises = <<>>
  /\ terminated = FALSE
  /\ reports = <<>>
  /\ raised = {}

Next ==
  \/ \E r \in Realms, imports \in BOOLEAN : Compile(r, imports)
  \/ \E r \in Realms : Reset(r) \/ Eval(r)
  \/ \E r \in Realms, e \in 0 .. MaxResets : e <= epoch[r] /\ Import(r, e)
  \/ \E m \in DOMAIN mods :
        DisposeModule(m) \/ Instantiate(m) \/ InstantiateInVain(m) \/ Evaluate(m)
  \/ \E a \in DOMAIN mods \cup {None} : ResolverAnswers(a) \/ ImportRefused(a)
  \/ \E a \in DOMAIN mods : ImportLinks(a) \/ ImportEvaluates(a)
  \/ \E ok \in BOOLEAN : EndInstantiate(ok) \/ EndLink(ok) \/ EndScript(ok)
  \/ AskResolver \/ ResolverRaises \/ CallHost \/ ReturnHost \/ Terminate

Spec == Init /\ [][Next]_vars
-----------------------------------------------------------------------------
ModuleRecord ==
  [realm : Realms, epoch : Nat, imports : BOOLEAN, dep : Nat, registered : BOOLEAN,
   status : {Unlinked, Linking, Linked, Evaluating, Evaluated, Errored}]

FrameRecord ==
  [kind : Ruby \cup Script \cup Links, realm : Realms \cup {NoRealm}, module : Nat,
   at : Nat \cup {Failed}, call : Nat, promise : Nat, epoch : Nat, saved : Nat \X Nat]

\* Types; what is parked belongs to a call there was, and a termination to a frame.
TypeOK ==
  /\ stack \in Seq(FrameRecord)
  /\ mods \in Seq(ModuleRecord)
  /\ instantiating \in BOOLEAN
  /\ parked \in 0 .. Len(reports) /\ parkedErr \in 0 .. Len(reports)
  /\ epoch \in [Realms -> Nat]
  /\ promises \in Seq({"pending", "rejected", "chained", "cut"})
  /\ terminated \in BOOLEAN /\ (terminated => stack # <<>>)
  /\ reports \in Seq(Nat \cup {Interrupted})
  /\ raised \subseteq 1 .. Len(reports)

LinksOnStack == {k \in DOMAIN stack : stack[k].kind \in Links}

\* V8's linking is not re-entrant (a nested one walks a half-built graph and
\* crashes the process): one link at most is on the stack, and the flag says so.
OneLink ==
  /\ Cardinality(LinksOnStack) <= 1
  /\ instantiating <=> LinksOnStack # {}

\* An import met while linking goes to the block given to that instantiate, and
\* to the importer when an import() links.
ResolverIsOwn ==
  \A k \in DOMAIN stack : stack[k].kind = "resolver" => stack[k].call = stack[k - 1].call

\* An instantiate raises the exception of its own block, and always does.
ErrorsAreOwn ==
  \A c \in DOMAIN reports :
     (\A k \in DOMAIN stack : stack[k].kind = "instantiate" => stack[k].call # c) =>
        reports[c] = IF c \in raised THEN c ELSE None

\* Both at once: a nested instantiate, one refused or one that fails leaves
\* nothing of its own to the one around it.
LinksAreOwn == ResolverIsOwn /\ ErrorsAreOwn

SameContext(m, n) == mods[m].realm = mods[n].realm /\ mods[m].epoch = mods[n].epoch

\* A module is never linked with one of another v8::Context, which V8 aborts on:
\* here for what an instantiate request links ...
StaticImportsHere ==
  [][stack # <<>> /\ Top.kind = "resolver" /\ Asking.kind = "instantiate" =>
       \A m \in DOMAIN mods : mods'[m].dep \notin {None, mods[m].dep} =>
                                 SameContext(m, mods'[m].dep)]_vars

\* ... and here for all links.
ImportsHere == \A m \in DOMAIN mods : mods[m].dep # None => SameContext(m, mods[m].dep)

\* An import() that no termination cut off is settled, or a frame on the stack
\* will settle it: no path through the callback forgets its promise.
NoLostImport ==
  \A p \in DOMAIN promises :
     promises[p] = "pending" => \E k \in DOMAIN stack : stack[k].promise = p
=============================================================================
