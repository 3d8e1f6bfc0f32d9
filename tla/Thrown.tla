------------------------------ MODULE Thrown ------------------------------
(***************************************************************************)
(* The values JavaScript throws through Ruby (ext/rusty_racer/src/lib.rs:  *)
(* keep_thrown, take_thrown, carrying_thrown).  An operation that fails    *)
(* because JavaScript threw raises a Ruby exception with the text of the   *)
(* value, and the isolate keeps the value in one slot under a serial the   *)
(* exception carries.  A host function the exception leaves throws the     *)
(* value on, if it is still the one kept, or else a new Error of the text. *)
(*                                                                         *)
(* Everything happens on one Fiber, where operations always nest; nothing  *)
(* here depends on the Fiber.                                              *)
(***************************************************************************)
EXTENDS OpStack
Finite == INSTANCE FiniteSetsExt

CONSTANTS
  Values,      \* values a script throws
  NewError,    \* an Error the extension makes from a message
  NoValue,
  MaxInFlight, \* bound: operations in flight on the thread
  MaxSerial,   \* bound: values kept in one run
  MaxErrors,   \* bound: Ruby exceptions alive in one callback
  MaxSaved     \* bound: rescued exceptions Ruby code holds on to

ASSUME ValuesAssumption == {NewError, NoValue} \cap Values = {} /\ NewError # NoValue
ASSUME RepliesAssumption == "reply" \in Outcomes

VARIABLES
  thrown,    \* IsolateState.thrown: [serial, value], or None
  serials,   \* the process-wide SERIAL
  carry,     \* carry[f]: for each frame of stack[f], what is on its way through
             \* it: an operation's pending value, a callback's Ruby exceptions
  saved,     \* exceptions Ruby code rescued and still refers to
  owed       \* history: owed[i], the serial of the last value an operation of i
             \* failed with since its outermost one started; 0 for none, or
             \* when that value has been thrown on

thrownVars == <<thrown, serials, carry, saved, owed>>

Thrownable == Values \cup {NewError}
None == [serial |-> 0, value |-> NoValue]

\* A Ruby exception: the isolate and value it stands for, and the serial
\* thrown_serial_of finds on it, 0 for none.
Error == [iso : Isolates, value : Thrownable, serial : Nat]

\* One that stands for no thrown value.
RubyError(i) == [iso |-> i, value |-> NewError, serial |-> 0]

\* What the running Fiber's last frame carries, and the frames below it.
Carried == carry[running][Len(carry[running])]
Below == SubSeq(carry[running], 1, Len(carry[running]) - 1)
SetCarried(x) == [carry EXCEPT ![running][Len(carry[running])] = x]

\* Ruby code of a callback is executing, with exceptions Carried.
InCallback == RubyRuns /\ stack[running] # <<>>
LastError == Carried[Len(Carried)]

-----------------------------------------------------------------------------
(* JavaScript throws and catches.  While a value is on its way it may call *)
(* Ruby all the same, from a finally block or as its text is taken.        *)
Throw(v) ==
  /\ ScriptRuns
  /\ Carried = NoValue
  /\ carry' = SetCarried(v)
  /\ UNCHANGED <<vars, thrown, serials, saved, owed>>

Catch ==
  /\ ScriptRuns
  /\ Carried # NoValue
  /\ carry' = SetCarried(NoValue)
  /\ UNCHANGED <<vars, thrown, serials, saved, owed>>

(* A mutant in which each isolate numbers by itself.                      *)
KeptByIsolate(i, v) == [serial |-> thrown[i].serial + 1, value |-> v]

\* keep_thrown: what the isolate's one slot holds after v was thrown.
Kept(i, v) == [serial |-> serials + 1, value |-> v]

\* Ruby code may hold on to an exception; one without a serial is like any it
\* could make anew.
MaySave(e) ==
  \/ UNCHANGED saved
  \/ /\ e.serial # 0
     /\ Cardinality(saved) < MaxSaved
     /\ saved' = saved \cup {e}

\* What the operation's caller gets: in a callback one more Ruby exception, at
\* the base of a Fiber one that Ruby code may hold on to.
RaiseToCaller(e) ==
  IF Below = <<>>
  THEN /\ carry' = [carry EXCEPT ![running] = <<>>]
       /\ MaySave(e)
  ELSE /\ carry' = [carry EXCEPT ![running] = [Below EXCEPT ![Len(Below)] = Append(@, e)]]
       /\ Len(Below[Len(Below)]) < MaxErrors
       /\ UNCHANGED saved

StartThrowing(i) ==
  /\ Finite!MapThenSumSet(LAMBDA j : depth[j], Isolates) < MaxInFlight
  /\ Start(i)
  /\ carry' = [carry EXCEPT ![running] = Append(@, NoValue)]
  /\ owed' = IF depth[i] = 0 THEN [owed EXCEPT ![i] = 0] ELSE owed
  /\ UNCHANGED <<thrown, serials, saved>>

CallFromJs ==
  /\ CallRuby
  /\ carry' = [carry EXCEPT ![running] = Append(@, <<>>)]
  /\ UNCHANGED <<thrown, serials, saved, owed>>

(* Mutants: the slot is emptied as every operation ends, or never.        *)
ClearedByAll(i, slot) == None
ClearedByNone(i, slot) == slot

\* The outermost operation empties the slot as it ends.
Cleared(i, slot) == IF Top(running).depth = 0 THEN None ELSE slot

(* The operation returns a value.                                         *)
FinishValue ==
  LET i == Top(running).iso
  IN /\ Finish("reply")
     /\ Carried = NoValue
     /\ carry' = [carry EXCEPT ![running] = Below]
     /\ thrown' = [thrown EXCEPT ![i] = Cleared(i, @)]
     /\ UNCHANGED <<serials, saved, owed>>

(* It fails with what JavaScript threw: the value is kept under a new      *)
(* serial, and vm_err makes the exception that carries it.                 *)
FinishThrown ==
  LET i    == Top(running).iso
      kept == Kept(i, Carried)
  IN /\ Finish("reply")
     /\ Carried # NoValue
     /\ serials < MaxSerial
     /\ serials' = serials + 1
     /\ thrown' = [thrown EXCEPT ![i] = Cleared(i, kept)]
     /\ owed' = [owed EXCEPT ![i] = kept.serial]
     /\ RaiseToCaller([iso |-> i, value |-> Carried, serial |-> kept.serial])

(* It fails otherwise: terminated, out of memory, or by a panic, after     *)
(* which the slot is left alone.                                           *)
FinishWithoutValue(outcome) ==
  LET i == Top(running).iso
  IN /\ Finish(outcome)
     /\ thrown' = IF outcome = "panic" THEN thrown ELSE [thrown EXCEPT ![i] = Cleared(i, @)]
     /\ RaiseToCaller(RubyError(i))
     /\ UNCHANGED <<serials, owed>>

-----------------------------------------------------------------------------
(* Ruby code of a callback rescues the exception it got last, and may hold *)
(* on to it; raises one it held, or one of its own, which a held one with  *)
(* another message counts as (thrown_serial_of).                           *)
Rescue ==
  /\ InCallback
  /\ Carried # <<>>
  /\ carry' = SetCarried(SubSeq(Carried, 1, Len(Carried) - 1))
  /\ MaySave(LastError)
  /\ UNCHANGED <<vars, thrown, serials, owed>>

Raise(e) ==
  /\ InCallback
  /\ Len(Carried) < MaxErrors
  /\ carry' = SetCarried(Append(Carried, e))
  /\ UNCHANGED <<vars, thrown, serials, saved, owed>>

RaiseOwn == stack[running] # <<>> /\ Raise(RubyError(Top(running).iso))

\* take_thrown finds the exception's value.
Take(i, e) == e.serial # 0 /\ thrown[i].serial = e.serial

(* host_fn_callback after with_gvl: the proc returned a value, or the       *)
(* exception that left it (those it displaced are gone) is thrown as the   *)
(* value kept for it or as a new Error.                                    *)
ReturnValue ==
  /\ Carried = <<>>
  /\ carry' = [carry EXCEPT ![running] = Below]
  /\ UNCHANGED <<thrown, owed>>

ThrowInto(v) == carry' = [carry EXCEPT ![running] = [Below EXCEPT ![Len(Below)] = v]]

ReturnError(i) ==
  /\ Carried # <<>>
  /\ IF Take(i, LastError)
     THEN /\ ThrowInto(thrown[i].value)
          /\ thrown' = [thrown EXCEPT ![i] = None]
          /\ owed' = [owed EXCEPT ![i] = 0]
     ELSE ThrowInto(NewError) /\ UNCHANGED <<thrown, owed>>

ReturnToJs ==
  /\ ReturnRuby
  /\ ReturnValue \/ ReturnError(Top(running).iso)
  /\ UNCHANGED <<serials, saved>>

-----------------------------------------------------------------------------
ThrownInit ==
  /\ Init
  /\ thrown = [i \in Isolates |-> None]
  /\ serials = 0
  /\ carry = [f \in Fibers |-> <<>>]
  /\ saved = {}
  /\ owed = [i \in Isolates |-> 0]

NewIsolate == (\E i \in Isolates : New(i)) /\ UNCHANGED thrownVars

ThrownNext ==
  \/ \E i \in Isolates : StartThrowing(i)
  \/ CallFromJs \/ ReturnToJs
  \/ FinishValue \/ FinishThrown
  \/ \E outcome \in Outcomes : FinishWithoutValue(outcome)
  \/ Catch \/ Rescue
  \/ \E v \in Values : Throw(v)
  \/ \E e \in saved : Raise(e)
  \/ RaiseOwn
  \/ NewIsolate

ThrownSpec == ThrownInit /\ [][ThrownNext]_<<vars, thrownVars>>

-----------------------------------------------------------------------------
\* Types; each frame carries what its kind can.
ThrownTypeOK ==
  /\ thrown \in [Isolates -> {None} \cup [serial : Nat \ {0}, value : Thrownable]]
  /\ serials \in Nat
  /\ \A f \in Fibers :
       /\ Len(carry[f]) = Len(stack[f])
       /\ \A k \in DOMAIN stack[f] :
            IF stack[f][k].kind = "op" THEN carry[f][k] \in Thrownable \cup {NoValue}
                                       ELSE carry[f][k] \in Seq(Error)
  /\ saved \subseteq Error
  /\ owed \in [Isolates -> 0 .. serials]

\* The step in which a host function's exception goes on in JavaScript.
FailsToJs ==
  InCallback /\ Carried # <<>> /\ Len(stack'[running]) < Len(stack[running])

\* What that step throws.
ThrownOn == carry'[running][Len(carry'[running])]

\* A host function that fails throws the value its exception stands for or a
\* new Error, never a value another throw left in the slot, nor one of another
\* isolate, whichever exception Ruby code held on to and raised later.
RethrowsOwn ==
  [][FailsToJs => \/ ThrownOn = NewError
                  \/ ThrownOn = LastError.value /\ LastError.iso = Top(running).iso]_<<vars, thrownVars>>

\* It throws the value itself when nothing else was thrown out of an operation
\* of the isolate since, operations of other isolates aside,
\* and it has not been thrown on before.
LatestThrownOn ==
  [][LET i == Top(running).iso
     IN /\ FailsToJs
        /\ LastError.iso = i
        /\ LastError.serial = owed[i] /\ owed[i] # 0
        => ThrownOn = LastError.value]_<<vars, thrownVars>>

\* An isolate no operation is in flight on keeps no value: it would pin the
\* value and its realm.  A poisoned isolate is past that.
NothingKeptWhenIdle ==
  \A i \in Isolates \ disposed : depth[i] = 0 => thrown[i] = None
=============================================================================
