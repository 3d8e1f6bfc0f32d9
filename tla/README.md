# A verification of rusty_racer

TLA+ models of the parts of `ext/rusty_racer/src` that decide whether V8, Ruby
and the watchdog thread stay out of one another's way, TLC instances that check
them, and theorems about them that TLAPS checks for every value of the
constants. Paths below are relative to the repository; `lib.rs`, `ops.rs`,
`watchdog.rs`, `stack.rs` and `marshal.rs` are those of `ext/rusty_racer/src`.

`PROJECT.json` lists, definition by definition, the lines each definition stands
for, the mutants of the code that each property has been seen to reject, the
hazards and the findings.

## The system

rusty_racer embeds V8 in Ruby. One Ruby thread owns an isolate and runs
everything on it inline: a method of a wrapper becomes a `Request` that
`Core::run` services with the GVL released, JavaScript calls Ruby procs back with
the GVL taken again, and those may issue further requests. So frames of V8 and of
Ruby alternate on one stack, or on several, when Fibers are used. Beside that
thread there is one watchdog thread per isolate, any thread may call
`Isolate#terminate`, and isolates of other threads share the registry of isolates
and that of transferred memory.

| Component | State | Operations | Hard about it |
|---|---|---|---|
| Operations (`Core::run`, `with_gvl`, `without_gvl`, `Drop`) | `Core.depth`, V8's entered isolate, `Shared.disposed`, `ISOLATES`, `LEAKED_ISOLATES` | start, callback, return, finish, dispose, drop | Fibers switch inside callbacks, isolates nest in one another, panics, wrappers collected anywhere |
| Limits (`watchdog.rs`, brackets in `ops.rs`, recovery in `Core::run`) | `WatchdogInner`, `watchdog_fired`, `oom_fired`, `timeout_backtrace`, V8's one termination and interrupt | arm, disarm, expire, interrupt, run out of heap, terminate, sweep, shut down | two threads and a late interrupt; one flag for many nested operations |
| Realms (`V8State`, `op_create_context`, `op_reset`, `op_dispose_context`, checkpoints) | contexts, queues, `retiring`, `active_realms`, `draining`, artifacts, the reject recorder | create, reset, dispose, drain, flush | callbacks change the realms a drain or a suspended request is using |
| Host functions (`ProcTable`, roots array) | slots, free list, generations, roots | attach, call, release | slots are reused while JavaScript keeps old functions; interrupts |
| ES modules (`op_*_module`, `resolve_imported`, `dynamic_import_cb`) | `modules.by_id`, `instantiating`, the parked block and its error, V8's module states | compile, instantiate, evaluate, dispose, `import()` | resolvers run Ruby in the middle of V8's link and may do anything |
| Transfers (`transfer_out` to `transfer_drop`) | `TRANSFER_REGISTRY`, `NEXT_TRANSFER_TOKEN` | out, share, in, drop | threads in parallel, tokens used twice or for the wrong import |
| Stack limits (`stack.rs`) | the limit and the scan start installed in V8, the cache of stack regions | enter, drop of `StackScope` | nested operations on stacks of different Fibers, which the pool reuses |
| Kept thrown values (`keep_thrown`, `take_thrown`) | one slot of an isolate, a process-wide serial | keep, carry, take, clear | nested throws, exceptions Ruby keeps and raises later, several isolates |
| Marshalling (`marshal.rs`) | `JsSeen`, `RbSeen`, `built` while it lasts | graphs there and back | cycles, sharing, depth; user code runs in the middle; Ruby's collector |
| Scripts, snapshots, Ruby classes, ExecJS runtime, error text, platform start | little or none | | see *Not modelled* |

They meet in `Core::run`, which nests operations (component 1) and does the
sweeps of component 2 at its ends; in `service_request`, which keeps
`active_realms` for component 3 and flushes `retiring` when the outermost request
ends; in `Core::reset` and `dispose_context`, where a realm's end (3) releases its
procs (4) and drops its modules (5); and in `with_gvl`, through which 4 and 5 call
Ruby back into 1. `Core::run` also opens and drops the `StackScope` (7) around
each operation and empties the slot of the thrown value (8) as the outermost one
ends; 8 is filled where an operation fails and read where a host function (4)
does; arguments and results of 3, 4 and 5 pass through marshalling (9).

What makes each correct, in a line: operations of an isolate end innermost first
and an isolate is destroyed only when idle (1); an operation is terminated only
for a reason of its own time, and every limit that is hit is reported (2); nothing
that is still reachable points at a freed queue, and nobody's realm changes under
it (3); a function runs its own proc or refuses (4); one link at a time, asked of
its own resolver, within one context (5); memory has one owner (6); V8's limit and
scan start describe the stack that runs (7); a rethrown value is the one its
exception stands for (8); a graph arrives with its identities, and the collector
can reach what is still needed of it (9).

## Modules

| Module | What it is |
|---|---|
| `OpStack` | Operations: Fibers, callbacks, V8's entry stack, the life of isolates |
| `OpNesting` | What V8 asks of its driver: a stack of operations for each isolate. `OpStack` implements it |
| `StackScope` | `OpStack` with addresses: limits, scan starts, stacks of the Fiber pool |
| `Thrown` | `OpStack` with the values operations throw and the exceptions that carry them |
| `Marshal` | A walk of one graph and its rebuild on the other side |
| `OpStackProofs` | Only innermost operations run, and with their isolate current; leaks are counted; `OpStack` implements `OpNesting` |
| `ExtensionsProofs` | `StackScope` and `Thrown` are `OpStack` with more to each step; limit and scan start are of the stack that runs; a host function throws on its own exception's value; idle isolates keep none |
| `MarshalProofs` | Every Ref is found; a graph nobody changed arrives as it was; what is still needed can be reached |
| `Watchdog` | One isolate's deadlines, heap limit, terminations; the watchdog thread |
| `WatchdogProofs` | No limit of one operation reaches another; without nested deadlines, every limit that is hit is reported |
| `Realms` | Realms, queues and checkpoints of one isolate |
| `RealmsProofs` | No queue is freed that is still pointed at; requests and checkpoints keep their realms |
| `HostFns` | The proc table and the roots array |
| `HostFnsProofs` | No function ever runs another's proc; released ones refuse; slots are accounted for |
| `Modules` | Instantiate, evaluate, `import()` and resolvers |
| `ModulesProofs` | One link at a time, with its own block and error; no `import()` is forgotten |
| `Transfer` | The process-wide registry, callbacks cut at their locks |
| `Ownership` | What transferring promises: one owner of a memory. `Transfer` implements it |
| `TransferProofs` | One holder of private memory; tokens work once; `Transfer` implements `Ownership` |
| `MC*` | Instances for TLC: symmetry sets, and the graphs for `Marshal` |

`StackScope` and `Thrown` extend `OpStack`: their actions are its actions with the
component's part of the same function added, so what `StackScope` shows holds under
everything Fibers, nesting and panics can do (`Thrown` leaves the Fibers out: nothing
in it depends on them). The other modules each model the
calls of the others that reach them (a request in `Modules` is a frame, in
`OpStack` an operation with its depth and its Fiber). The seams are the hazards
listed for them.

### OpStack

`stack[f]` is Fiber `f`'s stack of operations and callbacks, one record for each
call of `Core::run` and `with_gvl` with the depth it noted. `Start` is
`Core::run` up to `service_request` (the refusals of `ensure_owner_and_live`, the
`fetch_add`, entering V8 when the isolate is not already current);
`CallRuby` and `ReturnRuby` are `with_gvl` with its comparison of depths and the
abort; `Finish` is the other end of `Core::run` (exit, poisoning after a panic,
`fetch_sub`). `Dispose`, `Teardown` and the three ways of `Drop for Core` are
actions of their own. `Resume`, `Yield`, `Abandon`, `Enter` and `Exit` are Ruby's
and V8's. An aborted process takes no further step.

### StackScope

An address is a number; each stack is `Span` of them, the thread's own above those
of the Fiber pool, as on the main thread. `ScopedStart` is `Start` with the snapshot
of the enclosing scan start (`Enclosing`, read before `Isolate::Enter`) and
`StackScope::enter` (`EnterScope`): the limit of the stack's region (`LimitFor`, with
its clamp below the stack pointer), the widest scan start known to be on this
stack (`ScanFor`), and what the drop owes. `RegionAnswers` is the thread's cache of
regions: a hit, or a query that widens the stack's entry, fills a slot or evicts any.
`ScopedFinish` drops the scope before the isolate is left, after a panic too.
`ScopedResume`, `ScopedYield`, `ScopedAbandon` are the pool, which hands the stack of
a Fiber that ended or was freed to the next one with the same bounds.

### Thrown

`carry[f]` has what is on its way through each frame of `stack[f]`: a JavaScript
value through an operation, Ruby exceptions through a callback (one raised while
another is rescued or ensured lies above it). `FinishThrown` is an operation that
fails with a value: `keep_thrown` and the exception that carries the serial.
`ReturnToJs` is the end of `host_fn_callback`: the exception that leaves the proc is
thrown on as the kept value (`Take`) or as a new `Error`. Ruby code may rescue, keep
and raise exceptions in any order (`Rescue`, `Raise`, `saved`). `owed` is history: the
serial of the value last thrown out of an operation of the isolate.

### Marshal

The data between the sides is a sequence of tokens, in the order the nested `JsVal`
is built and read. `Visit*` and `EnterContainer` are the arms of `js_to_jsval_d` and
`ruby_to_jsval_d`, which differ in what they copy before they walk (`CopiedFirst`,
`Iterated`), in what can go on after an exception, and in which of the two raises.
`SourceChanges` is the code of accessors, Proxies and `to_s` that runs in between.
`Build*` are the arms of `jsval_to_js_d` and `jsval_to_ruby_d`, with the objects they
make, the table `built`, the containers being filled, and Hashes and Sets whose keys
collapse by `eql?` (`Adds`). `early` marks objects that were hashed before they were
full, which Ruby may or may not find again; `dropped` is history, the values a Hash or
Set did not keep. `Reachable` is what Ruby's collector marks: the smallest set that has
the roots and, with an object, its elements. `WordsToHex` and `HexToWords` are the
BigInt codec, compared with the magnitude of all lists of up to three limbs by an
assumption of `MCMarshal`.

### Watchdog

`stack` is the operations in flight on one isolate with the generation each armed.
`Start`, `JsEnds`, `Finish` follow `service_request` and the brackets
(`run_js_bracketed`, or `"drain"` for the two operations that build their outcome
themselves); `LoopStep` is one turn of `watchdog_loop` under its lock, all the
deadlines that have passed at that time; `HandleInterrupt` is `timeout_interrupt`;
`SweepAtStart` and `SweepAtEnd` clear what the request left. V8 is a termination
that is requested, then thrown and unwinding. `cause` and `passed` are history:
why anybody asked for a termination since the outermost operation started, and
whose deadline was seen to pass.

### Realms

A context is numbered as it is built and points at a queue. `Retire`, `Flush`,
`DropArtifacts` are the functions of those names; `StartCheckpoint`, `NextQueue`,
`EndCheckpoint` cut `drain_all_realms` at every queue, since microtasks call Ruby
back. The set a checkpoint has still to drain is in its frame, as the copied
pointers are in the code.

### HostFns

A function is its key, its realm and the proc it was attached with, kept for ever:
JavaScript may hold it. `Alloc` and `Release` are the table's; `Reset`,
`DisposeContext` are the methods of `Core`, in which an interrupt may end the
method between its request and the release (`ReleaseUnless`).

### Modules

`stack` has the frames of V8 and Ruby that matter: instantiate and evaluate
requests, other requests that run JavaScript, host functions, resolvers, and
the frames `import()` adds (the importer's question, its link, its evaluation).
A module record has the context it was compiled in (realm and how often that was
reset), its V8 status and what its import resolved to. `Instantiate` and
`EndInstantiate` are the two halves of `Core::instantiate_module` around its
request, with the saved pair in the frame. A refused or idle instantiate
(`InstantiateInVain`) parks and restores as well. `epoch` in a frame is the context
in which the code runs, which a reset of the realm's id leaves behind.

### Transfer

Each isolate runs on its own thread, so a callback is cut where it does not hold
the registry's lock: taking the store and detaching, drawing a token, inserting;
removing, building. A token is any number JavaScript may pass. `Pinned` stores stand for
buffers `detach` refuses.

## Runs

Passing:

| Run | Instance | Shows |
|---|---|---|
| `stack` | 2 isolates, 3 Fibers on 2 pool stacks, depth 2 each, 3 operations in all, panics, 1 slot in the region cache | Only innermost operations run, each on V8's current isolate; the process stops only for a callback that yielded out of its operation; dropped isolates are counted or torn down idle; limit and scan start are of the stack that runs; refinement of `OpNesting` |
| `thrown` | 2 isolates, 2 values, depth 2, 2 values thrown, 2 exceptions in a callback, 1 kept, panics | A host function throws on its own exception's value or a new Error, the value itself if it was the last; an idle isolate keeps none |
| `marshal` | every graph of a root with 2 elements (or a Map with 1 pair, or 2 with the other objects as keys) and 2 more nodes with at most one, from either side, depth 2, one change meanwhile | No Ref dangles; unchanged graphs arrive in shape and identity; what a Ref will need is reachable, but for what a Hash or Set dropped |
| `limits` | nested deadlines, time 0 to 3, 3 arms, depth 2, both brackets | Nothing of a deadline or an exhausted heap reaches a later operation; a termination always has a cause |
| `outer_limits` | deadlines on outermost operations, `run_js` brackets, time 0 to 3, 2 arms, depth 3, with fairness | Every limit that is hit is reported, whatever nested operations do; a deadline ends JavaScript that would run for ever; teardown gets past its join |
| `realms` | 3 contexts, 4 frames, 1 module | No context in reach points at a freed queue, drains and suspended requests keep their realms, artifacts go with their context, nothing waits when idle |
| `host_fns` | 2 realms, 4 attaches, 2 resets each, no interrupts | A function runs its own proc or none; a standing realm's functions answer and those of a realm that is gone refuse; slots and roots are accounted for |
| `modules` | 2 realms, 2 modules, 2 instantiates, 1 import, 1 reset, 4 frames | One link at a time; a link asks its own block and raises its own error; `import()` settles; a request's link stays in one context |
| `transfer` | 3 isolates, 2 plain, 1 pinned and 1 shared store, 3 tokens | One holder, kinds, tokens once; refinement of `Ownership` |

Violations, each of something the repository says (the quotations are in the
findings):

| Run | Property | What the counterexample does |
|---|---|---|
| `lost_deadline` | `DeadlineStands` | The deadlines of an outer and a nested operation both pass; the record names the nested one, whose disarm consumes it; the outer one runs on with no limit |
| `reset_in_link` | `ImportsHere` | `import()` links in a realm no request addresses; its resolver resets that realm, and a module of the new context passes the check of the realm's id |
| `built_sole` | `NeverSoleReference` | A Set drops an element that is `eql?` to another; only `built`, which the collector does not see, still refers to it when a Ref asks for it |

The passing runs say when the code does keep the promise: `outer_limits` has no
nested deadline and no drain, `host_fns` and `modules` no interrupts, and
`AwaitedRooted` excepts what a Hash or Set dropped. The theorems about `HostFns` hold
with interrupts as well, but for `ReleasedFunctionsRefuse`.

Other disagreements of the code with what is written about it, met while
modelling and reproduced with the models, are not among the runs:

- *Drains that run out of heap.* `op_drain_microtasks` (`ops.rs:692`) and
  `op_pump_message_loop` (`ops.rs:609`) build their outcome from the watchdog alone, so
  one that the heap limit ends returns normally: with `Brackets = {"drain"}`
  `LimitsReported` fails. `run_js_bracketed` forces the outcome "rather than let an
  OOM surface as a bogus success" (`watchdog.rs:328-329`), and README.md:129-130 says
  "Each limit terminates the offending op and raises a catchable error".
- *Interrupted reset.* `Core::reset` and `dispose_context` release the realm's procs
  after `run` has returned (`lib.rs:3176`); an interrupt delivered there "longjmps
  straight past everything written after the call" (`lib.rs:2797-2800`), and the
  functions of the realm that is gone go on running: with `Interrupts` of `TRUE`
  `ReleasedRefuse` fails. README.md:233-237 says such a function "throws `unknown
  host function` when called".
- *Poisoned isolates.* A panic sets `disposed` without a teardown (`lib.rs:2814`), and
  `Drop` returns at once when it is set ("Explicit dispose already tore the isolate
  down", `lib.rs:3483`): in `OpStack`, `leaked = Cardinality(dropped \cap registry)`
  fails with one isolate, one Fiber and `Outcomes = {"reply", "panic"}`, though the
  counter is of "isolates that could not be disposed" (`lib.rs:3531`).
- *Isolates across Fibers.* The depths `with_gvl` compares are one isolate's, so a
  Fiber that yields out of a callback may leave another isolate current:
  `NestsUnlessYielded` without its condition fails, and `exit()` does not find what
  `lib.rs:2786` says it asserts ("A == GetCurrent(), which holds here").
- *Undiscovered scan field.* When V8's field was not found the enclosing start is
  `None`, which also means "outermost" to `StackScope::enter`, so a nested operation
  on another stack does not put the limit back: `LimitFits` fails with
  `FieldFound = FALSE`. `stack.rs:65-66` says of that case "V8 keeps its native
  start, i.e. the rare pre-fix crash", and does not mention the limit.
- *Only the latest value.* `lib.rs:834-836` says one slot is enough, "since only the
  latest thrown value can still be on its way back out". An operation in an `ensure`
  that throws and is rescued replaces a value whose exception is still on its way,
  which then arrives as a new `Error` of the same text. `LatestThrownOn` has the
  condition under which the value itself arrives; `RethrowsOwn` never fails.
- *Reset from a realm's own host function.* README.md:242-245 says it is refused.
  `op_reset` refuses when a request for the realm is suspended (`ops.rs:811`); when
  another realm's JavaScript calls the function there is none.
- *Refused disposals.* `Context#dispose` marks the wrapper and drops every error
  (`lib.rs:3742-3748`), the refusal during a checkpoint included, so a disposed
  wrapper's realm may still be there (`disposed` and `context` of `Realms`).
- *Interrupted instantiate.* An interrupt delivered as `instantiate_module`'s request
  returns skips putting the saved block back (`lib.rs:3264-3266`): `LinksAreOwn` fails
  when `Interrupts` has `TRUE`. The cause is that of the interrupted reset.

### Bounds, and why they are enough

- Two isolates, three Fibers, three operations in all: one isolate entered inside
  the other, on one stack or two, twice over one of them, and a Fiber left suspended
  or dropped with an operation in between. Two pool stacks for two Fibers, and one
  slot in the cache, make stacks change hands and entries be evicted. 10 addresses
  hold the frames of three nested operations above the two reserves; one gap is
  enough, as only the order of addresses and bounds matters.
- Two values thrown, of one isolate or of two, with two exceptions alive in a
  callback: one that is on its way or that Ruby code held on to, and one that
  replaced it or looks like it. That they differ is what a wrong slot would show.
- Three nodes and depth 2: a cycle of each length, an object shared by two, one that
  is too deep on one path and not on another, a container and a buffer below it. One
  change overwrites or removes any element while any node is walked.
- Time 0 to 3 with timeouts 1 and 2 orders an outer and a nested deadline in all
  ways, and leaves time in which an interrupt is late. Three arms: an outer, a
  nested and a next operation, which is where a stale record would show.
- Three contexts are two realms and a successor; four frames are a request, its
  checkpoint, a callback and a request of that. One module is enough for the
  artifacts of a realm that is gone.
- Four attaches with two resets of a realm use a slot three times. Generations
  equal attaches; see the assumption below.
- Two modules are an importer and its import, and the link that another link
  meets. Two instantiates nest one in another's block. Four frames are a request,
  a host function, the link it starts and its resolver. One reset suffices: a
  link's context is compared with one that replaced it.
- Three isolates: a sender and two that want the same token. Three tokens: one of
  each kind and one that comes after a token was used.

The bounds are in the guards of the actions under the names the modules declare.
Deadlock is not checked: a system at its bounds, or one that was disposed or
aborted, has no step left. Symmetry is over isolates, Fibers other than the root,
values, realms, plain stores, or nodes of a graph other than its root, which no
definition tells apart, and only in runs without liveness properties.

### Fairness

Only `outer_limits` needs any (`FairSpec`). Time passes, the watchdog thread and
the thread in teardown are scheduled (weak fairness of `Tick`, `LoopStep`,
`Joined`): they are OS threads blocked on nothing but the lock and the condition
variable, whose wake-ups are in `LoopStep`'s guard. An operation whose
JavaScript is over finishes (`Finish`), for that is straight-line code. Callbacks
return after finitely many operations (`ReturnHost`), which is Ruby's code and an
assumption of the model. JavaScript that keeps running meets V8's stack guards
again and again, where interrupts are handled and terminations thrown
(`HandleInterrupt`, `ThrowTermination`); the fairness is strong because a callback
disables both while Ruby runs. JavaScript itself is never assumed to end.
It gives deadlines to outermost operations only: with nested ones `TimeoutEnds`
does not hold, for the reason `lost_deadline` shows.

## Theorems

All are safety, for every value of the constants that satisfies the modules'
ASSUMEs: any number of isolates, Fibers, realms, stores, stacks and values, and any
bound on depth, time and counts. Where a theorem has a further hypothesis it is named
below, and it is one the run's configuration meets. Of the properties of the passing
runs all are theorems but those listed under *Only model-checked*.

- **`OpStackProofs`.** `NestingInvariant`: `NestInv` holds always;
  `InnermostAlwaysRuns` follows. `InnermostRuns` alone is not inductive: whether
  the operation that becomes the top after a return is its isolate's last depends
  on what other Fibers did meanwhile. `NestInv` adds that operations and callbacks
  alternate and a callback notes its operation's depth (`Alternation`), that
  other Fibers are in Ruby, that depths of an isolate's operations are distinct
  and below its count, and that resumed Fibers form one chain that ends in the
  root. The comparison in `with_gvl` is used where a callback returns: the depth
  it finds is the one it noted, so with distinct depths its operation is the
  last.
  `OperationsNest` is the refinement of `OpNesting`: the stack of isolate `i` there is
  the Fiber of its operation of each depth, a start pushes it, a finish pops it,
  and every other step stutters. It takes `LifeInv` besides (an isolate with an
  operation in flight is registered), from which `LeaksAreCounted` follows too.
  `RunningIsCurrent` is about V8's entered isolate. Which operation is below which in
  the stack of entered isolates is not in the state, so `EnterInv` says there is an
  order of all operations in flight that agrees with the depths of each isolate,
  with the chain of resumes across Fibers and with the positions on each stack, and
  that what each operation found current is the isolate of the one before. While no
  Fiber was yielded out of, a return or an `exit` concerns the last of this order, so
  what is current again is the one before it, and `with_gvl` finds its depth.
  `OpStackTypes` is `TypeOK`.
- **`ExtensionsProofs`, of `StackScope`.** `ScopedOpsNest` takes over all of that, as each step of
  `StackScope` is one of `OpStack`. `LimitsFit` and `ScansFit` are stated where V8's
  field was found (`FieldFound`), as in the run `stack`; without it `LimitFits` fails
  (see above). An operation puts back what it found, so the argument is what that was:
  for each isolate and depth there are a limit and a scan start, which no
  variable holds (`HasGhosts`), such that the operation of that depth runs with them
  and the drop of the one of the next depth restores them (`Described`). They fit the
  stack the operation is on because a stack's frames lie above one another
  (`AddressInv`), a stack has one live Fiber (`PlaceInv`), and a region in the cache
  was measured on its stack (`TopsInv`), the scan of an enclosing operation being
  covered unless its region was evicted. `ScopeTypes` needs no such hypothesis.
- **`ExtensionsProofs`, of `Thrown`.** `ThrownNests` takes over `OpStackProofs`, on the one Fiber
  `Thrown` has (`NestedOnOne`). `ThrownInvariant` says that an exception with the
  serial of a slot is of that isolate and stands for the value kept there, whether it
  is on its way through a frame or Ruby holds it (`CarryInv`, `SlotsInv`): a serial is
  drawn once, and `NothingKeptWhenIdle` is the clearing at depth 0. `ThrowsOwnOn` and
  `LatestGoesOn` are action properties; the second needs that what is `owed` is in the
  slot as long as an operation is in flight (`OwedInv`).
- **`WatchdogProofs`.** `LimitsInvariant` is the conjunction `FiredInFlight`,
  `TermExplained`, `CleanWhenIdle`, `CauseKnown`, which hold each other up: the
  sweep at the end of the outermost request leaves nothing because a termination
  always comes with a flag (`TermExplained`), and the fired record is gone with the
  operation it names (`FiredInFlight`). `BacktraceIsFresh` and
  `NoSpuriousTermination` (an action property) follow from it.
  `OuterDeadlineStands` is under `OuterDeadlines`, that nested operations have no
  deadline, without which `lost_deadline` is a counterexample: then the one record is
  the outermost operation's, and until its end V8 has the interrupt or the
  termination (`PassedHeld`). `OuterLimitsReported` assumes besides that there are
  no drains, which do not report an exhausted heap.
- **`RealmsProofs`.** `RealmsInvariant` has a part for each hazard: realms have
  contexts of their own, in use and not parked (`ContextsInv`); the queues allocated
  are those of contexts in use or parked (`QueuesInv`); nothing is parked between
  requests (`IdleInv`); `draining` stands for the checkpoints on the stack, each of
  which noted what it stood for below (`DrainingInv`); and `active_realms` is what the
  suspended requests pushed. For that the invariant says there are positions in
  the list, one for each frame, below which the entries are those of the frames
  below (`ActiveInv`), so that a request that ends pops its own. `QueuesStand`,
  `DrainedQueuesStay`, `RequestsKeepRealms`, `IdleKeepsNothing` and the action property
  `ArtifactsEnd` follow.
- **`HostFnsProofs`.** `NeverRunsAnother`, `StandingFunctionsAnswer`,
  `SlotsAreAccounted`, from an invariant that adds: a function's generation is at
  most its slot's, generations are fewer than attaches, a slot's latest function is
  its occupant. They rest on `MaxAttach <= Generations`: the code's 32-bit
  generation wraps, and a slot reused 2^32 times under one function that was kept
  would answer it again. Interrupts are included, but for `ReleasedFunctionsRefuse`,
  whose hypothesis `ReleasesRun` is that none skips a release: then a key that is
  current is one of a realm that stands (`CurrentStand`).
- **`ModulesProofs`.** `ModulesInvariant` says what each kind of frame may stand on,
  that the modules of an instantiate request are of the context its realm has, that at
  most one frame is a link and `instantiating` says whether there is one, and that each
  promise not settled has a frame that will settle it. `LinkIsAlone`, `ImportsAreKept`
  and the action property `ImportsStayInContext` follow, with interrupts. `LinksKeepApart`
  is without them (`Interrupts \subseteq {FALSE}`): the block that is parked is that of
  the one instantiate on the stack, with its error, and nothing is parked otherwise
  (`ParkedInv`). With them it fails, as said above.
- **`TransferProofs`.** `OneHolder`, `KindsAreKept`, `TokensWorkOnce`. The invariant
  adds that a token drawn and not inserted yet is nobody else's and names nothing
  (`TokensAreFresh`), without which an insertion could replace an entry and
  lose or double a store, and that what a callback holds has the kind it will
  build (`NativeKind`). `TransfersMoveOwnership` is the refinement of `Ownership`:
  with one holder for each store, each step moves one store from its owner to the
  next, or none.
- **`MarshalProofs`.** The walk and the rebuild meet only in the data, so
  `MarshalInductive` is about the places of tokens: there are functions `par`, the token
  that opened the container a token is in, and `pos`, the element of it the token stands
  for, and both follow from the tokens before (`Nested`). No variable holds them; each
  token emitted extends them by one place, which takes the place of an induction over the
  data. The containers the walk is inside of are a chain of tokens, each in the one
  before (`FramesInv`), and so are the objects being filled later (`FillingInv`): that
  is why the same token that opened a container ends it.
  `IdsInv` says each node that is registered was emitted once, under an id of its own,
  whatever changed or threw meanwhile; with it `TableInv`, that the table of the rebuild
  has one object for each id read so far. `RefsFollowTheirObject` is a part of the
  invariant, `MarshalTypes` and `EveryRefIsFound` follow: `NoDanglingRef` says that a
  Ref's object was emitted before, `RefsFound` that the rebuild has it when it reads
  the Ref.
  `GraphsArriveWhole` takes `ElementsInv`, that while nobody changed the graph and
  nothing threw the tokens in a container stand for its elements, and `ItemsInv`, that
  objects hold copies of those, all of them but in a container that is being filled,
  which lacks those from the one whose turn it is.
  `AwaitedAreRooted` takes `RootedInv`: an object that is not being filled was put into
  one made before it, or was dropped there. A set that holds the containers being
  filled and what they hold then has all objects, for the first it lacked would have
  been put into one that it has; what a Hash or Set dropped is counted with the roots.
  What is `eql?` and what changed early stay opaque in the proofs: `Adds` either appends a
  value or names what is gone. The assumptions are `RootAssumption`,
  `GraphsAssumption` (a buffer has no elements) and a depth limit that lets the root in.

### Only model-checked

Liveness (`TimeoutEnds`, `TeardownEnds`), which TLAPS does not reach, and the BigInt codec
(the assumption of `MCMarshal`), whose folds over digits would take an induction over
data, which TLAPS cannot do here. Every other property of the passing runs is a theorem.

## Not modelled

- Within `StackScope`: the queries of the OS (`native_stack_bounds`,
  `query_region_bounds`) are assumed to answer, and `discover_scan_start_field` is a
  constant; there is one native thread. Three limits of the code are outside its
  properties. The scan reaches the frames of an enclosing operation only when that
  is of the depth before on the same stack (`ScanCoversEnclosing`), and narrows when
  the entry that vouches for it was evicted, as `stack.rs:599-604` says. A start
  inherited from an operation of a Fiber that was dropped, on a stack that was
  reused, may lie just below the operation's own marker, but still above its
  stack pointer. The native limit is not clamped below the stack pointer.
- Within `Marshal`: scalars, encodings and dates are one value `Prim`, so a small
  BigInt that comes back as a Number, lone surrogates that two names of an object
  collapse to, and precision of dates are not told. Property names are not
  enumerated again when they collapse. Arguments are marshalled one by one by the
  code, so identity across them is lost; the model has one root. What is truncated
  depends on the order of the walk, as in the code. Compaction by Ruby's collector is
  left out. What is added to a source past the elements counted is not read.
- Within `Thrown`: one Fiber; how text and backtraces are made.
- Within `Realms`: microtasks are callbacks a checkpoint may make; the realm init
  hook is left out. Within `Modules`: a module imports at most one other, so a link
  asks about one module after another; `set_dynamic_import_resolver` is no
  state, as an unset resolver answers as one that returns nil; top-level await
  counts as part of the evaluation; `namespace`, `status`, `graph_async` only read.
- V8 and Ruby are modelled by what the code relies on: one entered isolate per
  thread, one termination per isolate, module states, detaching, Fibers, garbage
  collection of wrappers.
- Snapshots, code caches, the Ruby wrappers and error classes, stack parsing, the
  ExecJS runtime, platform start-up and the builds: text, straight call sequences
  into V8, or no state.

## Plan

What is left is the composition of `Realms` with `HostFns` and `Modules`: one reset that
touches all three.
