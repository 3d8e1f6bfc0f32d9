---------------------------- MODULE StackScope ----------------------------
(***************************************************************************)
(* What V8 is told of the stack an operation runs on: the stack limit and  *)
(* the start of the conservative GC scan (ext/rusty_racer/src/stack.rs,    *)
(* used by Core::run in lib.rs).  Both are fields of the isolate while the *)
(* stack is the Fiber's, so an operation that runs on another stack than   *)
(* the one around it describes its own and puts the other back.            *)
(*                                                                         *)
(* Addresses are numbers.  Stack n occupies Bottom(n) .. Ceiling(n); an    *)
(* address below a stack's bottom is a guard page.  The thread's own stack *)
(* lies above the stacks of Ruby's fiber pool, as on the main thread.      *)
(***************************************************************************)
EXTENDS OpStack
Sets == INSTANCE FiniteSetsExt

CONSTANTS
  FiberStacks,    \* stacks in Ruby's fiber pool
  Span,           \* addresses in one stack
  Gaps,           \* how far below the last frame the next operation starts
  NativeGuard,    \* NATIVE_GUARD
  FiberReserve,   \* FIBER_RESERVE
  RegionSlots,    \* FIBER_REGION_SLOTS
  MaxOps,         \* bound: operations in flight on the thread
  FieldFound      \* discover_scan_start_field found V8's field

ASSUME AddressAssumption ==
  /\ {FiberStacks, RegionSlots, MaxOps} \subseteq Nat \ {0}
  /\ Gaps \subseteq Nat \ {0}
  /\ FieldFound \in BOOLEAN
  /\ {Span, NativeGuard, FiberReserve} \subseteq Nat \ {0}
  /\ NativeGuard < Span /\ FiberReserve < Span

VARIABLES
  place,      \* place[f]: the stack Fiber f runs on, or NoStack
  limit,      \* installed_limit of each isolate; 0 before its first operation
  scan,       \* *scan_start_field of each isolate
  scopes,     \* scopes[f]: the StackScopes of the operations on f's stack
  regions,    \* FIBER_REGIONS: the entries in use
  evicted     \* history: stacks whose entry was evicted under their operations

scopeVars == <<place, limit, scan, scopes, regions, evicted>>

NativeStack == FiberStacks + 1
NoStack == 0
Bottom(n) == n * Span
Ceiling(n) == n * Span + Span - 1
StackAt(addr) == addr \div Span
NativeTop == Ceiling(NativeStack)

Scope == [top : Nat, restoreLimit : Nat, restoreScan : Nat]

\* The native frame of StackScope::enter lies below the marker of Core::run.
SpBelow(top) == top - 2

\* The lowest address in use on the running Fiber's stack.
LowestFrame ==
  IF scopes[running] = <<>> THEN Ceiling(place[running])
  ELSE SpBelow(scopes[running][Len(scopes[running])].top)

-----------------------------------------------------------------------------
(* A mutant that adds an entry for every stack.                           *)
VictimsNone(lo) ==
  LET same == {r \in regions : r.lo = lo}
  IN IF same # {} THEN {same} ELSE {{}}

\* Which entry a new one for the stack at lo may displace: its own, none while
\* a slot is empty, or any.
Victims(lo) ==
  LET same == {r \in regions : r.lo = lo}
  IN IF same # {} THEN {same}
     ELSE IF Cardinality(regions) < RegionSlots THEN {{}}
     ELSE {{r} : r \in regions}

Hits(addr) == {r \in regions : r.lo <= addr /\ addr <= r.seen}

(* current_region_bounds_cached: a hit answers from the table; a miss asks *)
(* the OS and widens the stack's entry, fills a slot or evicts at random.  *)
RegionAnswers(addr) ==
  IF Hits(addr) # {} THEN {<<r, regions>> : r \in Hits(addr)}
  ELSE LET new == [lo |-> Bottom(StackAt(addr)), seen |-> addr]
       IN {<<new, (regions \ v) \cup {new}>> : v \in Victims(new.lo)}

\* The limit: above the stack's bottom, and on a Fiber kept below the SP.
LimitFor(onNative, lo, sp) ==
  IF onNative THEN Bottom(NativeStack) + NativeGuard
  ELSE IF lo + FiberReserve < sp - 1 THEN lo + FiberReserve ELSE sp - 1

\* The scan start: the native top, the enclosing operation's start if it is
\* known to be on this stack, or this operation's own marker.
ScanFor(onNative, nested, prev, seen, sp, top) ==
  IF onNative THEN NativeTop
  ELSE IF nested /\ prev > sp /\ prev <= seen THEN prev
  ELSE top

(* A mutant that reads the enclosing start after Isolate::Enter.          *)
EnclosingAfterEnter(i, entering) ==
  IF depth[i] > 0 /\ FieldFound THEN IF entering THEN NativeTop ELSE scan[i] ELSE 0

\* enclosing_scan_start: read before Enter; 0 stands for None.
Enclosing(i, entering) == IF depth[i] > 0 /\ FieldFound THEN scan[i] ELSE 0

\* The Fiber stacks with operations on them.
InUse == {place[f] : f \in {g \in Fibers : scopes[g] # <<>>}} \ {NoStack, NativeStack}

(* StackScope::enter, right after Isolate::Enter if there is one.         *)
EnterScope(i, top) ==
  LET entering == depth[i] = 0 \/ current # i
      prev     == Enclosing(i, entering)
      nested   == prev # 0
      onNative == place[running] = NativeStack
      sp       == SpBelow(top)
  IN \E answer \in IF onNative THEN {<<[lo |-> 0, seen |-> 0], regions>>} ELSE RegionAnswers(top) :
       LET newLimit == LimitFor(onNative, answer[1].lo, sp)
           newScan  == ScanFor(onNative, nested, prev, answer[1].seen, sp, top)
       IN /\ limit' = [limit EXCEPT ![i] = newLimit]
          /\ scan' = [scan EXCEPT ![i] =
               IF FieldFound THEN newScan ELSE IF entering THEN NativeTop ELSE @]
          /\ scopes' = [scopes EXCEPT ![running] = Append(@,
               [top |-> top,
                restoreLimit |-> IF nested /\ newLimit # limit[i] THEN limit[i] ELSE 0,
                restoreScan  |-> IF nested /\ prev # newScan THEN prev ELSE 0])]
          /\ regions' = answer[2]
          /\ evicted' = evicted \cup (InUse \ {StackAt(r.lo) : r \in answer[2]})
          /\ UNCHANGED place

(* A mutant that forgets the limit of the operation around this one.      *)
LeaveKeepingLimit(i, last) ==
  /\ scan' = [scan EXCEPT ![i] = IF last.restoreScan # 0 THEN last.restoreScan ELSE @]
  /\ UNCHANGED limit

\* What is put back: the scan start and the limit, where there is one to put.
Leave(i, last) ==
  /\ limit' = [limit EXCEPT ![i] = IF last.restoreLimit # 0 THEN last.restoreLimit ELSE @]
  /\ scan' = [scan EXCEPT ![i] = IF last.restoreScan # 0 THEN last.restoreScan ELSE @]

(* Drop for StackScope, before Isolate::Exit, after a panic too.          *)
LeaveScope(i) ==
  /\ Leave(i, scopes[running][Len(scopes[running])])
  /\ scopes' = [scopes EXCEPT ![running] = SubSeq(@, 1, Len(@) - 1)]
  /\ evicted' = IF Len(scopes[running]) = 1 THEN evicted \ {place[running]} ELSE evicted
  /\ UNCHANGED <<place, regions>>

-----------------------------------------------------------------------------
(* Core::run begins and ends: the operation's steps with its StackScope.   *)
(* Ruby's own overflow check leaves an operation room for its first frames.*)
ScopedStart(i) ==
  /\ Sets!MapThenSumSet(LAMBDA j : depth[j], Isolates) < MaxOps
  /\ Start(i)
  /\ \E gap \in Gaps :
       /\ SpBelow(LowestFrame - gap) > Bottom(place[running]) + 1
       /\ EnterScope(i, LowestFrame - gap)

ScopedFinish(outcome) ==
  /\ Finish(outcome)
  /\ LeaveScope(Top(running).iso)

(* A Fiber takes a stack of the pool when it is first resumed and gives it *)
(* back when it ends or is freed; the next Fiber gets it with the same     *)
(* bounds.                                                                 *)
ScopedResume(g) ==
  /\ Resume(g)
  /\ \E n \in 1 .. FiberStacks :
       /\ IF place[g] = NoStack THEN \A f \in Fibers : place[f] # n ELSE n = place[g]
       /\ place' = [place EXCEPT ![g] = n]
  /\ UNCHANGED <<limit, scan, scopes, regions, evicted>>

ScopedYield ==
  /\ Yield
  /\ place' = IF stack[running] = <<>> THEN [place EXCEPT ![running] = NoStack] ELSE place
  /\ UNCHANGED <<limit, scan, scopes, regions, evicted>>

ScopedAbandon(g) ==
  /\ Abandon(g)
  /\ place' = [place EXCEPT ![g] = NoStack]
  /\ evicted' = evicted \ {place[g]}
  /\ UNCHANGED <<limit, scan, scopes, regions>>

ScopeInit ==
  /\ Init
  /\ place = [f \in Fibers |-> IF f = MainFiber THEN NativeStack ELSE NoStack]
  /\ limit = [i \in Isolates |-> 0]
  /\ scan = [i \in Isolates |-> NativeTop]
  /\ scopes = [f \in Fibers |-> <<>>]
  /\ regions = {}
  /\ evicted = {}

Unscoped ==
  /\ \/ \E i \in Isolates : \/ New(i) \/ Dispose(i) \/ Release(i)
                             \/ DropDisposed(i) \/ DropForeign(i) \/ DropOnOwner(i)
     \/ CallRuby \/ ReturnRuby
  /\ UNCHANGED scopeVars

ScopeNext ==
  \/ \E i \in Isolates : ScopedStart(i)
  \/ \E outcome \in Outcomes : ScopedFinish(outcome)
  \/ \E g \in Fibers : ScopedResume(g) \/ ScopedAbandon(g)
  \/ ScopedYield
  \/ Unscoped

ScopeSpec == ScopeInit /\ [][ScopeNext]_<<vars, scopeVars>>

-----------------------------------------------------------------------------
\* Which of the operations on f's stack the k-th frame is; the last up to there,
\* when it is a callback.
ScopeIndex(f, k) == Cardinality({j \in 1 .. k : stack[f][j].kind = "op"})

\* Types, OpStack's included; every operation on a Fiber's stack has its
\* StackScope.
ScopeTypeOK ==
  /\ TypeOK
  /\ place \in [Fibers -> 0 .. NativeStack]
  /\ limit \in [Isolates -> Nat]
  /\ scan \in [Isolates -> Nat]
  /\ \A f \in Fibers : /\ scopes[f] \in Seq(Scope)
                       /\ Len(scopes[f]) = ScopeIndex(f, Len(stack[f]))
  /\ regions \subseteq [lo : Nat, seen : Nat]
  /\ Cardinality(regions) <= RegionSlots
  /\ evicted \subseteq 1 .. FiberStacks

RunningOp == Top(running)
RunningScope == scopes[running][Len(scopes[running])]

\* While JavaScript runs, its isolate's limit lies above the bottom of the
\* stack it runs on and below its stack pointer, whatever ran in between: too
\* low and recursion runs into the guard page, too high and V8 reports an
\* overflow at once.  The native limit is not clamped: within NATIVE_GUARD of
\* the bottom it is above the SP.
LimitFits ==
  ScriptRuns =>
    LET l == limit[RunningOp.iso]
        n == place[running]
        sp == SpBelow(RunningScope.top)
    IN /\ Bottom(n) < l /\ l <= Ceiling(n)
       /\ l < sp \/ (n = NativeStack /\ sp <= Bottom(n) + NativeGuard)

\* The GC scan goes from the running frame up to a start on the same stack, so
\* that it never walks off the stack into a guard page.
ScanOnStack ==
  ScriptRuns =>
    LET s == scan[RunningOp.iso]
    IN StackAt(s) = place[running] /\ s > SpBelow(RunningScope.top)



\* The scan also reaches the frames of the operation around this one when that
\* is on the same stack: its start is adopted, unless the region cache was too
\* small for the stacks in use and evicted the entry it is vouched by.
ScanCoversEnclosing ==
  ScriptRuns /\ place[running] \notin evicted =>
    \A k \in DOMAIN stack[running] :
      /\ OpOn(RunningOp.iso, running, k)
      /\ stack[running][k].depth = RunningOp.depth - 1
      => scan[RunningOp.iso] > SpBelow(scopes[running][ScopeIndex(running, k)].top)

\* The GC scan of the running operation finds what it must, and no more.
ScanFits == ScanOnStack /\ ScanCoversEnclosing
=============================================================================
