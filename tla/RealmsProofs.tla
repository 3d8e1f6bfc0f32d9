---------------------------- MODULE RealmsProofs ----------------------------
(***************************************************************************)
(* Realms for every bound: no context points at a freed queue, a request   *)
(* finds its realm again, a checkpoint's queues stay, and nothing of a     *)
(* realm outlives it.                                                      *)
(***************************************************************************)
EXTENDS Realms, FiniteSetTheorems, TLAPS

(* Every realm has a context of its own, which is built and in use.        *)
ContextsInv ==
  /\ \E n \in Nat : Built = 1 .. n
  /\ nextId \in Nat \ {0}
  /\ DOMAIN context \subseteq 0 .. nextId - 1 /\ Main \in DOMAIN context
  /\ \A r \in DOMAIN context : context[r] \in Built \ retiring
  /\ \A r, s \in DOMAIN context : context[r] = context[s] => r = s
  /\ disposed \subseteq 1 .. nextId - 1

(* The queues that are allocated are those of the contexts in use and of   *)
(* the contexts parked, and no other context points at a queue of its own. *)
QueuesInv ==
  /\ retiring \subseteq Built
  /\ owned = Current \cup retiring
  /\ \A c \in Built : queue[c] = IF c \in owned THEN c ELSE Graveyard

(* Nothing is parked between requests.                                     *)
IdleInv == stack = <<>> => retiring = {}

(* The outermost frame is a request.                                       *)
BaseInv == stack # <<>> => stack[1].kind = "request"

(* draining stands for the checkpoints on the stack, and each frame noted  *)
(* what it stood for below it.                                             *)
Checkpoint(k) == stack[k].kind = "checkpoint"

DrainingInv ==
  /\ stack \in Seq(Frame)
  /\ draining <=> \E k \in DOMAIN stack : Checkpoint(k)
  /\ draining \in BOOLEAN
  /\ \A k \in DOMAIN stack : stack[k].before <=> \E j \in 1 .. k - 1 : Checkpoint(j)
  /\ \A k \in DOMAIN stack : ~Checkpoint(k) => stack[k].todo = {}
  /\ SnapshotIsCurrent

(* A request that keeps its realm active.                                  *)
InRealm(frame) == frame.kind = "request" /\ frame.realm # NoRealm
Weight(frame) == IF InRealm(frame) THEN 1 ELSE 0

(* at[k] of the realms that are active belong to the lowest k frames.      *)
Positions(at) ==
  /\ at[0] = 0 /\ at[Len(stack)] = Len(active)
  /\ \A k \in DOMAIN stack : at[k] = at[k - 1] + Weight(stack[k])
  /\ \A k, l \in 0 .. Len(stack) : k <= l => at[k] <= at[l]
  /\ \A k \in DOMAIN stack : InRealm(stack[k]) => active[at[k]] = stack[k].realm

ActiveInv ==
  /\ active \in Seq(Nat)
  /\ \E at \in [0 .. Len(stack) -> Nat] : Positions(at)

(* A module, a script or the recorder names the realm of its context,      *)
(* unless that context is no realm's any more.                             *)
ArtifactsInv ==
  /\ modules \subseteq Artifact /\ recorder \subseteq Artifact
  /\ \A h \in modules \cup recorder :
       /\ h.context \in Built
       /\ h.context \in Current => Known(h.realm) /\ context[h.realm] = h.context

IndInv ==
  /\ ContextsInv /\ QueuesInv /\ IdleInv /\ BaseInv /\ DrainingInv
  /\ ActiveInv /\ RequestKeepsRealm /\ ArtifactsInv

-----------------------------------------------------------------------------
(* What a sequence holds after an Append.                                  *)
LEMMA AppendHolds ==
  ASSUME NEW S, NEW s \in Seq(S), NEW x \in S
  PROVE  /\ Append(s, x) \in Seq(S) /\ Len(Append(s, x)) = Len(s) + 1
         /\ Append(s, x) # <<>>
         /\ Append(s, x)[Len(s) + 1] = x
         /\ \A k \in 1 .. Len(s) : Append(s, x)[k] = s[k]
         /\ DOMAIN Append(s, x) = 1 .. Len(s) + 1 /\ DOMAIN s = 1 .. Len(s)
         /\ Len(s) \in Nat
OBVIOUS

(* What a sequence holds without its last element.                         *)
LEMMA FrontHolds ==
  ASSUME NEW S, NEW s \in Seq(S), s # <<>>
  PROVE  /\ Len(s) \in Nat \ {0} /\ s[Len(s)] \in S /\ DOMAIN s = 1 .. Len(s)
         /\ SubSeq(s, 1, Len(s) - 1) \in Seq(S)
         /\ Len(SubSeq(s, 1, Len(s) - 1)) = Len(s) - 1
         /\ DOMAIN SubSeq(s, 1, Len(s) - 1) = 1 .. Len(s) - 1
         /\ \A k \in 1 .. Len(s) - 1 : SubSeq(s, 1, Len(s) - 1)[k] = s[k]
<1>1. Len(s) \in Nat \ {0} /\ s[Len(s)] \in S /\ DOMAIN s = 1 .. Len(s)
  OBVIOUS
<1> DEFINE m == Len(s) - 1
<1>2. m \in Nat /\ m <= Len(s)
  BY <1>1
<1>3. SubSeq(s, 1, m) = [k \in 1 .. m |-> s[k]]
  BY <1>2
<1>4. [k \in 1 .. m |-> s[k]] \in Seq(S) /\ Len([k \in 1 .. m |-> s[k]]) = m
  BY <1>1, <1>2
<1> QED BY <1>1, <1>3, <1>4

(* The next context built has the next number.                             *)
LEMMA NextContext ==
  ASSUME NEW n \in Nat, Built = 1 .. n
  PROVE  /\ Cardinality(Built) = n
         /\ Cardinality(Built) + 1 \notin Built
         /\ Built \cup {Cardinality(Built) + 1} = 1 .. n + 1
<1>1. Cardinality(1 .. n) = n
  BY FS_Interval
<1> QED BY <1>1

(* What retiring a context, with a fresh one built or not, leaves.         *)
LEMMA RetireLeaves ==
  ASSUME ContextsInv, QueuesInv, IdleInv, NEW r \in DOMAIN context, NEW fresh,
         fresh \cap Built = {}, Retire(context[r], fresh)
  PROVE  /\ Built' = Built \cup fresh
         /\ retiring' \subseteq Built
         /\ retiring' = IF Outermost THEN {} ELSE retiring \cup {context[r]}
         /\ owned' = ((Current \cup fresh) \ {context[r]}) \cup retiring'
         /\ \A c \in Built' : queue'[c] = IF c \in owned' THEN c ELSE Graveyard
<1> USE DEF ContextsInv, QueuesInv, IdleInv, Built
<1>1. context[r] \in Built /\ context[r] \notin retiring /\ context[r] \in Current
  BY DEF Current
<1>2. CASE Outermost
  <2>1. retiring = {}
    BY <1>2 DEF Outermost
  <2>2. /\ Built' = Built \cup fresh /\ retiring' = {}
        /\ owned' = (owned \cup fresh) \ {context[r]}
        /\ \A c \in Built' : queue'[c] = IF c \in fresh THEN c
                                         ELSE IF c = context[r] THEN Graveyard ELSE queue[c]
    BY <1>2, <2>1 DEF Retire
  <2>3. owned = Current
    BY <2>1
  <2> QED BY <1>1, <1>2, <2>2, <2>3
<1>3. CASE ~Outermost
  <2>1. /\ Built' = Built \cup fresh
        /\ retiring' = retiring \cup {context[r]}
        /\ owned' = owned \cup fresh
        /\ \A c \in Built' : queue'[c] = IF c \in fresh THEN c ELSE queue[c]
    BY <1>3 DEF Retire
  <2> QED BY <1>1, <1>3, <2>1
<1> QED BY <1>2, <1>3

(* Initially there is the main realm.                                      *)
LEMMA IndInvInit == Init => IndInv
<1> SUFFICES ASSUME Init PROVE IndInv
  OBVIOUS
<1> USE DEF Init
<1>1. Built = 1 .. 1 /\ Current = {1} /\ DOMAIN stack = {}
  BY DEF Built, Current
<1>2. ContextsInv
  BY <1>1 DEF ContextsInv, Main, Built
<1>3. QueuesInv /\ IdleInv
  BY <1>1 DEF QueuesInv, IdleInv, Built
<1>4. DrainingInv /\ RequestKeepsRealm
  <2>1. ~\E k \in DOMAIN stack : Checkpoint(k)
    BY <1>1
  <2>2. \A k \in DOMAIN stack : FALSE
    BY <1>1
  <2>3. stack \in Seq(Frame)
    OBVIOUS
  <2>4. SnapshotIsCurrent /\ RequestKeepsRealm
    BY <2>2 DEF SnapshotIsCurrent, RequestKeepsRealm
  <2> QED BY <2>1, <2>2, <2>3, <2>4 DEF DrainingInv
<1>5. ActiveInv
  <2>1. [k \in 0 .. Len(stack) |-> 0] \in [0 .. Len(stack) -> Nat]
    OBVIOUS
  <2>2. Positions([k \in 0 .. Len(stack) |-> 0])
    BY <1>1 DEF Positions
  <2> QED BY <2>1, <2>2 DEF ActiveInv
<1>6. ArtifactsInv /\ BaseInv
  BY DEF ArtifactsInv, BaseInv
<1> QED BY <1>2, <1>3, <1>4, <1>5, <1>6 DEF IndInv

-----------------------------------------------------------------------------
(* A realm is created with a context that is new.                          *)
LEMMA CreateKeeps ==
  ASSUME IndInv, CreateContext
  PROVE  /\ ContextsInv' /\ QueuesInv' /\ IdleInv'
         /\ Built \subseteq Built' /\ Current \subseteq Current'
         /\ DOMAIN context \subseteq DOMAIN context'
         /\ \A r \in DOMAIN context : context'[r] = context[r]
         /\ Current' \ Current \subseteq Built' \ Built
<1> USE DEF IndInv, ContextsInv, QueuesInv, IdleInv
<1>1. PICK n \in Nat : Built = 1 .. n
  OBVIOUS
<1> DEFINE c == Cardinality(Built) + 1
<1>2. /\ c \notin Built /\ Built \cup {c} = 1 .. n + 1
  BY <1>1, NextContext
<1>3. /\ queue' = [d \in Built \cup {c} |-> IF d = c THEN c ELSE queue[d]]
      /\ context' = [r \in DOMAIN context \cup {nextId} |-> IF r = nextId THEN c ELSE context[r]]
      /\ owned' = owned \cup {c}
      /\ nextId' = nextId + 1
      /\ UNCHANGED <<retiring, stack, disposed>>
  BY DEF CreateContext, NewRealm
<1> HIDE DEF c
<1>4. Built' = Built \cup {c} /\ Built' = 1 .. n + 1
  BY <1>2, <1>3 DEF Built
<1>5. nextId \notin DOMAIN context
  OBVIOUS
<1>6. /\ DOMAIN context' = DOMAIN context \cup {nextId} /\ context'[nextId] = c
      /\ \A r \in DOMAIN context : context'[r] = context[r]
  BY <1>3, <1>5
<1>7. Current' = Current \cup {c}
  BY <1>6 DEF Current
<1>8. ContextsInv'
  <2>1. \E m \in Nat : Built' = 1 .. m
    BY <1>4
  <2>2. nextId' \in Nat \ {0} /\ DOMAIN context' \subseteq 0 .. nextId' - 1 /\ Main \in DOMAIN context'
    BY <1>3, <1>6
  <2>3. \A r \in DOMAIN context' : context'[r] \in Built' \ retiring'
    BY <1>2, <1>3, <1>4, <1>6
  <2>4. \A r, s \in DOMAIN context' : context'[r] = context'[s] => r = s
    BY <1>2, <1>6
  <2>5. disposed' \subseteq 1 .. nextId' - 1
    BY <1>3
  <2> QED BY <2>1, <2>2, <2>3, <2>4, <2>5
<1>9. QueuesInv'
  BY <1>2, <1>3, <1>4, <1>7
<1> QED BY <1>2, <1>3, <1>4, <1>6, <1>7, <1>8, <1>9

(* Reset gives the realm a context that is new and parks the old one.      *)
LEMMA ResetKeeps ==
  ASSUME IndInv, NEW r \in DOMAIN context, Reset(r)
  PROVE  /\ ContextsInv' /\ QueuesInv' /\ IdleInv'
         /\ Built \subseteq Built' /\ Current \ Current' = {context[r]}
         /\ DOMAIN context' = DOMAIN context
         /\ \A s \in DOMAIN context \ {r} : context'[s] = context[s]
         /\ Current' \ Current \subseteq Built' \ Built
<1> USE DEF IndInv, ContextsInv, QueuesInv, IdleInv
<1>1. PICK n \in Nat : Built = 1 .. n
  OBVIOUS
<1> DEFINE c == Cardinality(Built) + 1
<1>2. /\ c \notin Built /\ Built \cup {c} = 1 .. n + 1
  BY <1>1, NextContext
<1>3. /\ Retire(context[r], {c}) /\ context' = [context EXCEPT ![r] = c]
      /\ UNCHANGED <<nextId, stack, disposed>>
  BY DEF Reset
<1> HIDE DEF c
<1>4. /\ Built' = Built \cup {c}
      /\ retiring' \subseteq Built
      /\ retiring' = IF Outermost THEN {} ELSE retiring \cup {context[r]}
      /\ owned' = ((Current \cup {c}) \ {context[r]}) \cup retiring'
      /\ \A d \in Built' : queue'[d] = IF d \in owned' THEN d ELSE Graveyard
  <2>1. {c} \cap Built = {}
    BY <1>2
  <2> HIDE DEF IndInv, ContextsInv, QueuesInv, IdleInv
  <2> QED BY <1>3, <2>1, RetireLeaves DEF IndInv
<1>5. /\ DOMAIN context' = DOMAIN context /\ context'[r] = c
      /\ \A s \in DOMAIN context \ {r} : context'[s] = context[s]
  BY <1>3
<1>6. Current' = (Current \cup {c}) \ {context[r]}
  <2>1. c # context[r]
    BY <1>2
  <2> QED BY <1>5, <2>1 DEF Current
<1>7. ContextsInv'
  <2>1. \E m \in Nat : Built' = 1 .. m
    BY <1>2, <1>4
  <2>2. nextId' \in Nat \ {0} /\ DOMAIN context' \subseteq 0 .. nextId' - 1 /\ Main \in DOMAIN context'
    BY <1>3, <1>5
  <2>3. \A s \in DOMAIN context' : context'[s] \in Built' \ retiring'
    BY <1>2, <1>4, <1>5
  <2>4. \A s, t \in DOMAIN context' : context'[s] = context'[t] => s = t
    BY <1>2, <1>5
  <2>5. disposed' \subseteq 1 .. nextId' - 1
    BY <1>3
  <2> QED BY <2>1, <2>2, <2>3, <2>4, <2>5
<1>8. QueuesInv' /\ IdleInv'
  BY <1>3, <1>4, <1>6 DEF Outermost
<1>9. context[r] \in Current /\ Current \subseteq Built
  BY DEF Current
<1>10. Current \ Current' = {context[r]} /\ Current' \ Current \subseteq Built' \ Built
  BY <1>2, <1>4, <1>6, <1>9
<1> HIDE DEF IndInv, ContextsInv, QueuesInv, IdleInv
<1> QED BY <1>4, <1>5, <1>7, <1>8, <1>10

(* A realm disposed of loses its context, or its wrapper alone is flagged. *)
LEMMA DisposeKeeps ==
  ASSUME IndInv, NEW r \in DOMAIN context, DisposeContext(r)
  PROVE  /\ ContextsInv' /\ QueuesInv' /\ IdleInv'
         /\ \/ UNCHANGED <<context, queue, modules, recorder>>
            \/ /\ ~draining /\ ~IsActive(r) /\ DropArtifacts(r)
               /\ Built' = Built /\ Current \ Current' = {context[r]}
               /\ DOMAIN context' = DOMAIN context \ {r}
               /\ \A s \in DOMAIN context \ {r} : context'[s] = context[s]
               /\ Current' \subseteq Current
<1> USE DEF IndInv, ContextsInv, QueuesInv, IdleInv
<1>1. /\ r \in 1 .. nextId - 1 /\ disposed' = disposed \cup {r}
      /\ UNCHANGED <<nextId, stack>>
  BY DEF DisposeContext
<1>2. CASE draining \/ IsActive(r)
  <2>1. UNCHANGED <<context, queue, owned, retiring, modules, recorder>>
    BY <1>2 DEF DisposeContext
  <2>2. Built' = Built /\ Current' = Current
    BY <2>1 DEF Built, Current
  <2>3. ContextsInv'
    BY <1>1, <2>1, <2>2
  <2>4. QueuesInv' /\ IdleInv'
    BY <1>1, <2>1, <2>2
  <2> HIDE DEF IndInv, ContextsInv, QueuesInv, IdleInv
  <2> QED BY <2>1, <2>3, <2>4
<1>3. CASE ~(draining \/ IsActive(r))
  <2>1. /\ Retire(context[r], {})
        /\ context' = [s \in DOMAIN context \ {r} |-> context[s]]
        /\ DropArtifacts(r)
    BY <1>3 DEF DisposeContext
  <2>2. /\ Built' = Built
        /\ retiring' \subseteq Built
        /\ retiring' = IF Outermost THEN {} ELSE retiring \cup {context[r]}
        /\ owned' = (Current \ {context[r]}) \cup retiring'
        /\ \A d \in Built' : queue'[d] = IF d \in owned' THEN d ELSE Graveyard
    <3>1. {} \cap Built = {}
      OBVIOUS
    <3>2. /\ Built' = Built \cup {}
          /\ retiring' \subseteq Built
          /\ retiring' = IF Outermost THEN {} ELSE retiring \cup {context[r]}
          /\ owned' = ((Current \cup {}) \ {context[r]}) \cup retiring'
          /\ \A d \in Built' : queue'[d] = IF d \in owned' THEN d ELSE Graveyard
      <4> HIDE DEF IndInv, ContextsInv, QueuesInv, IdleInv
      <4> QED BY <2>1, <3>1, RetireLeaves DEF IndInv
    <3> HIDE DEF IndInv, ContextsInv, QueuesInv, IdleInv
    <3> QED BY <3>2
  <2>3. /\ DOMAIN context' = DOMAIN context \ {r}
        /\ \A s \in DOMAIN context \ {r} : context'[s] = context[s]
    BY <2>1
  <2>4. Current' = Current \ {context[r]} /\ context[r] \in Current
    BY <2>3 DEF Current
  <2>5. ContextsInv'
    <3>1. \E m \in Nat : Built' = 1 .. m
      BY <2>2
    <3>2. nextId' \in Nat \ {0} /\ DOMAIN context' \subseteq 0 .. nextId' - 1 /\ Main \in DOMAIN context'
      BY <1>1, <2>3 DEF Main
    <3>3. \A s \in DOMAIN context' : context'[s] \in Built' \ retiring'
      BY <2>2, <2>3
    <3>4. \A s, t \in DOMAIN context' : context'[s] = context'[t] => s = t
      BY <2>3
    <3>5. disposed' \subseteq 1 .. nextId' - 1
      BY <1>1
    <3> QED BY <3>1, <3>2, <3>3, <3>4, <3>5
  <2>6. QueuesInv' /\ IdleInv'
    BY <1>1, <2>2, <2>4 DEF Outermost
  <2>7. Current \ Current' = {context[r]} /\ Current' \subseteq Current
    BY <2>4
  <2> HIDE DEF IndInv, ContextsInv, QueuesInv, IdleInv
  <2> QED BY <1>3, <2>1, <2>2, <2>3, <2>5, <2>6, <2>7
<1> HIDE DEF IndInv, ContextsInv, QueuesInv, IdleInv
<1> QED BY <1>2, <1>3

(* The end of the outermost request leaves no queue but the realms'.       *)
LEMMA FinishKeeps ==
  ASSUME IndInv, Finish
  PROVE  /\ ContextsInv' /\ QueuesInv' /\ IdleInv'
         /\ Built' = Built /\ UNCHANGED context
<1> USE DEF IndInv, ContextsInv, QueuesInv, IdleInv
<1>1. UNCHANGED <<context, nextId, disposed>> /\ Current' = Current
  BY DEF Finish, Current
<1>2. stack # <<>> /\ stack \in Seq(Frame) /\ stack' = Pop
  BY DEF Finish, DrainingInv, ScriptRuns
<1>3. Len(stack') = Len(stack) - 1 /\ Len(stack) \in Nat \ {0}
  BY <1>2, FrontHolds DEF Pop
<1>4. CASE Len(stack) = 1
  <2>1. Flush
    BY <1>4 DEF Finish
  <2>2. /\ Built' = Built /\ owned' = owned \ retiring /\ retiring' = {}
        /\ \A c \in Built : queue'[c] = IF c \in retiring THEN Graveyard ELSE queue[c]
    BY <2>1 DEF Flush, Built
  <2>3. Current \cap retiring = {}
    BY DEF Current
  <2>4. owned' = Current
    BY <2>2, <2>3
  <2>5. ContextsInv'
    BY <1>1, <2>2
  <2>6. QueuesInv' /\ IdleInv'
    BY <1>1, <2>2, <2>4
  <2> QED BY <1>1, <2>2, <2>5, <2>6
<1>5. CASE Len(stack) # 1
  <2>1. UNCHANGED <<queue, owned, retiring>> /\ Built' = Built
    BY <1>5 DEF Finish, Built
  <2>2. stack' # <<>>
    BY <1>3, <1>5
  <2>3. ContextsInv'
    BY <1>1, <2>1
  <2>4. QueuesInv' /\ IdleInv'
    BY <1>1, <2>1, <2>2
  <2> QED BY <1>1, <2>1, <2>3, <2>4
<1> QED BY <1>4, <1>5

(* The steps that leave the realms alone.                                  *)
LEMMA RestKeeps ==
  ASSUME IndInv, UNCHANGED <<realmVars, disposed>>
  PROVE  /\ ContextsInv' /\ QueuesInv'
         /\ Built' = Built /\ Current' = Current
<1>1. Built' = Built /\ Current' = Current
  BY DEF realmVars, Built, Current
<1>2. UNCHANGED <<context, queue, owned, retiring, nextId, disposed>>
  BY DEF realmVars
<1>3. ContextsInv'
  BY <1>1, <1>2 DEF IndInv, ContextsInv
<1>4. QueuesInv'
  BY <1>1, <1>2 DEF IndInv, QueuesInv
<1> QED BY <1>1, <1>3, <1>4

-----------------------------------------------------------------------------
(* The realm of a request on the stack is active.                          *)
LEMMA RequestsAreActive ==
  ASSUME IndInv, NEW k \in DOMAIN stack, InRealm(stack[k])
  PROVE  IsActive(stack[k].realm)
<1> USE DEF IndInv
<1>1. PICK at \in [0 .. Len(stack) -> Nat] : Positions(at)
  BY DEF ActiveInv
<1>2. Len(stack) \in Nat /\ DOMAIN stack = 1 .. Len(stack)
  BY DEF DrainingInv
<1>3. active \in Seq(Nat) /\ DOMAIN active = 1 .. Len(active)
  BY DEF ActiveInv
<1>4. at[k] = at[k - 1] + 1 /\ at[k - 1] \in Nat
  <2>1. at[k] = at[k - 1] + Weight(stack[k])
    BY <1>1 DEF Positions
  <2>2. k - 1 \in 0 .. Len(stack)
    BY <1>2
  <2> QED BY <2>1, <2>2 DEF Weight
<1>5. at[k] <= Len(active)
  BY <1>1, <1>2 DEF Positions
<1>6. at[k] \in DOMAIN active
  BY <1>2, <1>3, <1>4, <1>5
<1>7. active[at[k]] = stack[k].realm
  BY <1>1 DEF Positions
<1> QED BY <1>6, <1>7 DEF IsActive

(* A new frame.                                                            *)
LEMMA PushKeeps ==
  ASSUME IndInv, NEW f \in Frame, Push(f), UNCHANGED <<context, retiring>>,
         f.before = draining,
         f.kind = "checkpoint" => f.todo \subseteq Current /\ draining' = TRUE,
         f.kind # "checkpoint" => f.todo = {} /\ draining' = draining,
         stack = <<>> => f.kind = "request",
         IF InRealm(f) THEN active' = Append(active, f.realm) ELSE active' = active,
         InRealm(f) => Known(f.realm) /\ context[f.realm] = f.context
  PROVE  DrainingInv' /\ ActiveInv' /\ RequestKeepsRealm' /\ BaseInv' /\ IdleInv'
<1> USE DEF IndInv
<1>1. stack \in Seq(Frame) /\ active \in Seq(Nat) /\ draining \in BOOLEAN
  BY DEF DrainingInv, ActiveInv
<1>0. PICK N \in Nat : N = Len(stack)
  BY <1>1
<1>2. /\ stack' \in Seq(Frame) /\ Len(stack') = N + 1 /\ stack' # <<>> /\ stack'[N + 1] = f
      /\ \A k \in 1 .. N : stack'[k] = stack[k]
      /\ DOMAIN stack' = 1 .. N + 1 /\ DOMAIN stack = 1 .. N /\ N \in Nat
  BY <1>0, <1>1, AppendHolds DEF Push
<1>3. \A k \in 1 .. N + 1 : k = N + 1 \/ k \in 1 .. N
  BY <1>2
<1>4. Current' = Current
  BY DEF Current
<1>5. DrainingInv'
  <2>1. draining' <=> \E k \in DOMAIN stack' : Checkpoint(k)'
    <3>1. CASE f.kind = "checkpoint"
      <4>1. N + 1 \in DOMAIN stack'
        BY <1>2
      <4> QED BY <1>2, <3>1, <4>1 DEF Checkpoint
    <3>2. CASE f.kind # "checkpoint"
      <4>1. draining <=> \E k \in 1 .. N : stack[k].kind = "checkpoint"
        BY <1>2 DEF DrainingInv, Checkpoint
      <4>2. \A k \in 1 .. N : k \in 1 .. N + 1
        BY <1>2
      <4>3. (\E k \in 1 .. N + 1 : stack'[k].kind = "checkpoint") <=> \E k \in 1 .. N : stack[k].kind = "checkpoint"
        BY <1>2, <1>3, <3>2, <4>2
      <4> QED BY <1>2, <3>2, <4>1, <4>3 DEF Checkpoint
    <3> QED BY <3>1, <3>2
  <2>2. draining' \in BOOLEAN
    BY <1>1
  <2>3. ASSUME NEW k \in DOMAIN stack' PROVE stack'[k].before <=> \E j \in 1 .. k - 1 : Checkpoint(j)'
    <3>1. \A j \in 1 .. k - 1 : j \in 1 .. N
      BY <1>2
    <3>2. (\E j \in 1 .. k - 1 : Checkpoint(j)') <=> \E j \in 1 .. k - 1 : Checkpoint(j)
      BY <1>2, <3>1 DEF Checkpoint
    <3>3. CASE k = N + 1
      <4>1. stack'[k].before = draining
        BY <1>2, <3>3
      <4>2. draining <=> \E j \in 1 .. N : Checkpoint(j)
        BY <1>2 DEF DrainingInv
      <4>3. k - 1 = N
        BY <1>2, <3>3
      <4> QED BY <3>2, <4>1, <4>2, <4>3
    <3>4. CASE k \in 1 .. N
      <4>1. stack'[k].before <=> \E j \in 1 .. k - 1 : Checkpoint(j)
        BY <1>2, <3>4 DEF DrainingInv
      <4> QED BY <3>2, <4>1
    <3> QED BY <1>2, <1>3, <3>3, <3>4
  <2>4. \A k \in DOMAIN stack' : ~Checkpoint(k)' => stack'[k].todo = {}
    BY <1>2, <1>3 DEF DrainingInv, Checkpoint
  <2>5. SnapshotIsCurrent'
    BY <1>2, <1>3, <1>4 DEF DrainingInv, Checkpoint, SnapshotIsCurrent
  <2> QED BY <1>2, <2>1, <2>2, <2>3, <2>4, <2>5 DEF DrainingInv
<1>6. ActiveInv'
  <2>1. PICK at \in [0 .. N -> Nat] : Positions(at)
    BY <1>0 DEF ActiveInv
  <2>0. PICK M \in Nat : M = Len(active)
    BY <1>1
  <2>2. M \in Nat /\ DOMAIN active = 1 .. M
    BY <1>1, <2>0
  <2>3. /\ active' \in Seq(Nat) /\ Len(active') = M + Weight(f) /\ Weight(f) \in {0, 1}
        /\ \A k \in 1 .. M : active'[k] = active[k]
        /\ InRealm(f) => active'[M + 1] = f.realm
    <3>1. CASE InRealm(f)
      <4>1. f.realm \in Nat /\ active' = Append(active, f.realm)
        BY <3>1 DEF InRealm, Frame
      <4> QED BY <1>1, <2>0, <3>1, <4>1, AppendHolds DEF Weight
    <3>2. CASE ~InRealm(f)
      BY <1>1, <2>0, <2>2, <3>2 DEF Weight
    <3> QED BY <3>1, <3>2
  <2>4. /\ at[0] = 0 /\ at[N] = M
        /\ \A k \in 1 .. N : at[k] = at[k - 1] + Weight(stack[k])
        /\ \A k, l \in 0 .. N : k <= l => at[k] <= at[l]
        /\ \A k \in 1 .. N : InRealm(stack[k]) => active[at[k]] = stack[k].realm
        /\ \A k \in 0 .. N : at[k] \in Nat
    BY <1>0, <1>2, <2>0, <2>1 DEF Positions
  <2>5. \A k \in 0 .. N + 1 : k = N + 1 \/ k \in 0 .. N
    BY <1>2
  <2>6. PICK w \in [0 .. N + 1 -> Nat] :
           w[N + 1] = M + Weight(f) /\ \A k \in 0 .. N : w[k] = at[k]
    <3> DEFINE v == [k \in 0 .. N + 1 |-> IF k = N + 1 THEN M + Weight(f) ELSE at[k]]
    <3>1. /\ v \in [0 .. N + 1 -> Nat] /\ v[N + 1] = M + Weight(f) /\ \A k \in 0 .. N : v[k] = at[k]
      BY <1>2, <2>2, <2>3, <2>4, <2>5
    <3> QED BY <3>1
  <2>7. w[0] = 0 /\ w[Len(stack')] = Len(active')
    BY <1>2, <2>3, <2>4, <2>6
  <2>8. ASSUME NEW k \in DOMAIN stack' PROVE w[k] = w[k - 1] + Weight(stack'[k])
    <3>1. CASE k = N + 1
      <4>1. k - 1 = N /\ N \in 0 .. N
        BY <1>2, <3>1
      <4> QED BY <1>2, <2>4, <2>6, <3>1, <4>1
    <3>2. CASE k \in 1 .. N
      <4>1. k - 1 \in 0 .. N /\ k \in 0 .. N
        BY SMTT(30), <1>2, <3>2
      <4> QED BY <1>2, <2>4, <2>6, <3>2, <4>1
    <3> QED BY <1>2, <1>3, <3>1, <3>2
  <2>9. ASSUME NEW k \in 0 .. N + 1, NEW l \in 0 .. N + 1, k <= l PROVE w[k] <= w[l]
    <3>1. CASE l = N + 1
      <4>1. \A j \in 0 .. N : at[j] <= M
        BY <1>2, <2>4
      <4>2. w[l] = M + Weight(f) /\ M <= M + Weight(f)
        BY <2>3, <2>6, <3>1
      <4>3. CASE k = N + 1
        BY <2>3, <3>1, <4>2, <4>3
      <4>4. CASE k \in 0 .. N
        <5>1. w[k] = at[k] /\ at[k] \in Nat /\ at[k] <= M
          BY <2>4, <2>6, <4>1, <4>4
        <5> QED BY <2>3, <4>2, <5>1
      <4> QED BY <2>5, <4>3, <4>4
    <3>2. CASE l # N + 1
      <4>1. k \in 0 .. N /\ l \in 0 .. N
        BY <1>2, <2>9, <3>2
      <4> QED BY <2>4, <2>6, <2>9, <4>1
    <3> QED BY <3>1, <3>2
  <2>10. ASSUME NEW k \in DOMAIN stack', InRealm(stack'[k]) PROVE active'[w[k]] = stack'[k].realm
    <3>1. CASE k = N + 1
      BY <1>2, <2>3, <2>6, <2>10, <3>1 DEF Weight
    <3>2. CASE k \in 1 .. N
      <4>1. /\ k \in 0 .. N /\ k - 1 \in 0 .. N /\ N \in 0 .. N /\ k <= N
            /\ stack'[k] = stack[k]
        BY SMTT(30), <1>2, <3>2
      <4>2. at[k] = at[k - 1] + 1
        BY <2>4, <2>10, <3>2, <4>1 DEF Weight
      <4>3. at[k] \in 1 .. M
        BY SMTT(30), <2>2, <2>4, <4>1, <4>2
      <4>4. active'[w[k]] = active[at[k]]
        BY <2>3, <2>6, <4>1, <4>3
      <4>5. active[at[k]] = stack[k].realm
        BY <2>4, <2>10, <3>2, <4>1
      <4> QED BY <4>1, <4>4, <4>5
    <3> QED BY <1>2, <1>3, <3>1, <3>2
  <2>11. Positions(w)'
    BY <1>2, <2>7, <2>8, <2>9, <2>10 DEF Positions
  <2> QED BY <1>2, <2>3, <2>6, <2>11 DEF ActiveInv
<1>7. RequestKeepsRealm'
  <2> SUFFICES ASSUME NEW k \in DOMAIN stack', InRealm(stack'[k])
               PROVE  Known(stack'[k].realm) /\ context[stack'[k].realm] = stack'[k].context
    BY DEF RequestKeepsRealm, InRealm, Known
  <2>1. CASE k = N + 1
    BY <1>2, <2>1
  <2>2. CASE k \in 1 .. N
    BY <1>2, <2>2 DEF RequestKeepsRealm, InRealm
  <2> QED BY <1>2, <1>3, <2>1, <2>2
<1>8. BaseInv'
  <2>1. CASE stack = <<>>
    <3>1. N = 0
      BY <1>0, <2>1
    <3> QED BY <1>2, <2>1, <3>1 DEF BaseInv
  <2>2. CASE stack # <<>>
    <3>1. N # 0
      BY <1>0, <1>1, <2>2
    <3> QED BY <1>2, <2>2, <3>1 DEF BaseInv
  <2> QED BY <2>1, <2>2
<1>9. IdleInv'
  BY <1>2 DEF IdleInv
<1> QED BY <1>5, <1>6, <1>7, <1>8, <1>9

(* A frame that is done.                                                   *)
LEMMA PopKeeps ==
  ASSUME IndInv, stack # <<>>, stack' = Pop, UNCHANGED context,
         draining' = IF Top.kind = "checkpoint" THEN Top.before ELSE draining,
         active' = IF InRealm(Top) THEN SubSeq(active, 1, Len(active) - 1) ELSE active
  PROVE  DrainingInv' /\ ActiveInv' /\ RequestKeepsRealm' /\ BaseInv'
<1> USE DEF IndInv
<1>1. stack \in Seq(Frame) /\ active \in Seq(Nat) /\ draining \in BOOLEAN
  BY DEF DrainingInv, ActiveInv
<1>2. PICK N \in Nat : N = Len(stack) - 1
  BY SMTT(30), <1>1, FrontHolds
<1>3. /\ stack' \in Seq(Frame) /\ Len(stack') = N /\ Len(stack) = N + 1
      /\ \A k \in 1 .. N : stack'[k] = stack[k]
      /\ DOMAIN stack' = 1 .. N /\ DOMAIN stack = 1 .. N + 1
      /\ Top = stack[N + 1] /\ Top \in Frame
  BY <1>1, <1>2, FrontHolds DEF Pop, Top
<1>4. \A k \in 1 .. N : k \in 1 .. N + 1
  OBVIOUS
<1>5. Current' = Current
  BY DEF Current
<1>6. DrainingInv'
  <2>1. (\E k \in DOMAIN stack' : Checkpoint(k)') <=> \E k \in 1 .. N : Checkpoint(k)
    BY <1>3 DEF Checkpoint
  <2>2. draining' \in BOOLEAN /\ (draining' <=> \E k \in 1 .. N : Checkpoint(k))
    <3>1. CASE Top.kind = "checkpoint"
      <4>1. stack[N + 1].before <=> \E k \in 1 .. (N + 1) - 1 : Checkpoint(k)
        BY <1>3 DEF DrainingInv
      <4>2. (N + 1) - 1 = N
        OBVIOUS
      <4>3. draining' = stack[N + 1].before /\ draining' \in BOOLEAN
        BY <1>3, <3>1 DEF Frame
      <4> QED BY <4>1, <4>2, <4>3
    <3>2. CASE Top.kind # "checkpoint"
      <4>1. ~Checkpoint(N + 1)
        BY <1>3, <3>2 DEF Checkpoint
      <4>2. \A k \in 1 .. N + 1 : k = N + 1 \/ k \in 1 .. N
        OBVIOUS
      <4>3. draining <=> \E k \in 1 .. N + 1 : Checkpoint(k)
        BY <1>3 DEF DrainingInv
      <4>4. draining <=> \E k \in 1 .. N : Checkpoint(k)
        BY <1>4, <4>1, <4>2, <4>3
      <4> QED BY <1>1, <3>2, <4>4
    <3> QED BY <3>1, <3>2
  <2>3. ASSUME NEW k \in DOMAIN stack' PROVE stack'[k].before <=> \E j \in 1 .. k - 1 : Checkpoint(j)'
    <3>1. \A j \in 1 .. k - 1 : j \in 1 .. N
      BY <1>3
    <3>2. (\E j \in 1 .. k - 1 : Checkpoint(j)') <=> \E j \in 1 .. k - 1 : Checkpoint(j)
      BY <1>3, <3>1 DEF Checkpoint
    <3>3. stack[k].before <=> \E j \in 1 .. k - 1 : Checkpoint(j)
      BY <1>3, <1>4 DEF DrainingInv
    <3> QED BY <1>3, <3>2, <3>3
  <2>4. \A k \in DOMAIN stack' : ~Checkpoint(k)' => stack'[k].todo = {}
    BY <1>3, <1>4 DEF DrainingInv, Checkpoint
  <2>5. SnapshotIsCurrent'
    BY <1>3, <1>4, <1>5 DEF DrainingInv, SnapshotIsCurrent
  <2> QED BY <1>3, <2>1, <2>2, <2>3, <2>4, <2>5 DEF DrainingInv
<1>7. ActiveInv'
  <2>1. PICK at \in [0 .. N + 1 -> Nat] : Positions(at)
    BY <1>3 DEF ActiveInv
  <2>2. PICK M \in Nat : M = Len(active)
    BY <1>1
  <2>3. /\ at[0] = 0 /\ at[N + 1] = M
        /\ \A k \in 1 .. N + 1 : at[k] = at[k - 1] + Weight(stack[k])
        /\ \A k, l \in 0 .. N + 1 : k <= l => at[k] <= at[l]
        /\ \A k \in 1 .. N + 1 : InRealm(stack[k]) => active[at[k]] = stack[k].realm
        /\ \A k \in 0 .. N + 1 : at[k] \in Nat
    BY <1>3, <2>1, <2>2 DEF Positions
  <2>4. at[N + 1] = at[N] + Weight(Top)
    <3>1. at[N + 1] = at[(N + 1) - 1] + Weight(stack[N + 1])
      BY <2>3
    <3>2. (N + 1) - 1 = N
      OBVIOUS
    <3> QED BY <1>3, <3>1, <3>2
  <2>5. /\ active' \in Seq(Nat) /\ Len(active') = at[N]
        /\ \A k \in 1 .. at[N] : active'[k] = active[k]
    <3>0. at[N] \in Nat
      BY <2>3
    <3>1. CASE InRealm(Top)
      <4>1. M = at[N] + 1
        BY <2>3, <2>4, <3>1 DEF Weight
      <4>2. active # <<>>
        BY SMTT(30), <2>2, <3>0, <4>1
      <4>3. /\ active' \in Seq(Nat) /\ Len(active') = Len(active) - 1
            /\ \A k \in 1 .. Len(active) - 1 : active'[k] = active[k]
        BY <1>1, <3>1, <4>2, FrontHolds
      <4>4. Len(active) - 1 = at[N]
        BY <2>2, <3>0, <4>1
      <4> QED BY <4>3, <4>4
    <3>2. CASE ~InRealm(Top)
      <4>1. M = at[N]
        BY <2>3, <2>4, <3>0, <3>2 DEF Weight
      <4> QED BY <1>1, <2>2, <3>2, <4>1
    <3> QED BY <3>1, <3>2
  <2>6. \A k \in 0 .. N : k \in 0 .. N + 1 /\ k <= N
    OBVIOUS
  <2>7. PICK w \in [0 .. N -> Nat] : \A k \in 0 .. N : w[k] = at[k]
    <3> DEFINE v == [k \in 0 .. N |-> at[k]]
    <3>1. v \in [0 .. N -> Nat] /\ \A k \in 0 .. N : v[k] = at[k]
      BY <2>3, <2>6
    <3> QED BY <3>1
  <2>8. w[0] = 0 /\ w[Len(stack')] = Len(active')
    BY <1>3, <2>3, <2>5, <2>7
  <2>9. ASSUME NEW k \in DOMAIN stack' PROVE w[k] = w[k - 1] + Weight(stack'[k])
    <3>1. k - 1 \in 0 .. N /\ k \in 0 .. N /\ k \in 1 .. N + 1
      BY SMTT(30), <1>3
    <3> QED BY <1>3, <2>3, <2>7, <3>1
  <2>10. \A k, l \in 0 .. N : k <= l => w[k] <= w[l]
    BY <2>3, <2>6, <2>7
  <2>11. ASSUME NEW k \in DOMAIN stack', InRealm(stack'[k]) PROVE active'[w[k]] = stack'[k].realm
    <3>1. k - 1 \in 0 .. N + 1 /\ k \in 0 .. N /\ k \in 1 .. N + 1 /\ N \in 0 .. N + 1 /\ k <= N
      BY <1>3
    <3>2. stack'[k] = stack[k] /\ w[k] = at[k] /\ at[k - 1] \in Nat
      BY <1>3, <2>3, <2>7, <3>1
    <3>3. at[k] = at[k - 1] + 1
      BY <2>3, <2>11, <3>1, <3>2 DEF Weight
    <3>4. at[k] <= at[N]
      BY <2>3, <2>6, <3>1
    <3>5. at[k] \in 1 .. at[N]
      BY <2>3, <3>1, <3>2, <3>3, <3>4
    <3>6. active'[w[k]] = active[at[k]]
      BY <2>5, <3>2, <3>5
    <3> QED BY <2>3, <2>11, <3>1, <3>2, <3>6
  <2>12. Positions(w)'
    BY <1>3, <2>8, <2>9, <2>10, <2>11 DEF Positions
  <2> QED BY <1>3, <2>5, <2>7, <2>12 DEF ActiveInv
<1>8. RequestKeepsRealm'
  BY <1>3, <1>4 DEF RequestKeepsRealm, Known
<1>9. BaseInv'
  <2>1. CASE N = 0
    BY <1>3, <2>1 DEF BaseInv
  <2>2. CASE N # 0
    <3>1. 1 \in 1 .. N
      BY <2>2
    <3> QED BY <1>3, <3>1 DEF BaseInv
  <2> QED BY <2>1, <2>2
<1> QED BY <1>6, <1>7, <1>8, <1>9

(* A checkpoint that has done with a queue.                                *)
LEMMA QueueDoneKeeps ==
  ASSUME IndInv, NextQueue
  PROVE  DrainingInv' /\ ActiveInv' /\ RequestKeepsRealm' /\ BaseInv' /\ IdleInv'
<1> USE DEF IndInv
<1>1. stack \in Seq(Frame) /\ stack # <<>> /\ Top.kind = "checkpoint"
  BY DEF DrainingInv, NextQueue, ScriptRuns
<1>2. PICK N \in Nat \ {0} : N = Len(stack)
  BY <1>1, FrontHolds
<1>3. DOMAIN stack = 1 .. N /\ Top = stack[N] /\ stack[N] \in Frame /\ N \in 1 .. N
  BY <1>1, <1>2, FrontHolds DEF Top
<1>0. PICK q \in Top.todo : stack' = [stack EXCEPT ![Len(stack)].todo = @ \ {q}]
  BY DEF NextQueue
<1>4. stack' = [stack EXCEPT ![N].todo = @ \ {q}]
  BY <1>0, <1>2
<1>5. [stack[N] EXCEPT !.todo = @ \ {q}] \in Frame
  BY <1>3 DEF Frame
<1>6. /\ stack' \in Seq(Frame) /\ Len(stack') = N /\ DOMAIN stack' = 1 .. N /\ stack' # <<>>
  BY <1>1, <1>2, <1>3, <1>4, <1>5
<1>7. \A k \in 1 .. N : /\ stack'[k].kind = stack[k].kind /\ stack'[k].realm = stack[k].realm
                        /\ stack'[k].context = stack[k].context
                        /\ stack'[k].before = stack[k].before
                        /\ stack'[k].todo \subseteq stack[k].todo
  <2> TAKE k \in 1 .. N
  <2>1. CASE k = N
    <3>1. stack'[N] = [stack[N] EXCEPT !.todo = @ \ {q}]
      BY <1>3, <1>4 DEF Frame
    <3> QED BY <1>3, <2>1, <3>1 DEF Frame
  <2>2. CASE k # N
    BY <1>3, <1>4, <2>2
  <2> QED BY <2>1, <2>2
<1>8. UNCHANGED <<context, active, draining, retiring>> /\ Current' = Current
  BY DEF NextQueue, realmVars, Current
<1>9. DrainingInv'
  <2>1. \A k \in 1 .. N : Checkpoint(k)' <=> Checkpoint(k)
    BY <1>7 DEF Checkpoint
  <2>2. draining' \in BOOLEAN /\ (draining' <=> \E k \in DOMAIN stack' : Checkpoint(k)')
    BY <1>3, <1>6, <1>8, <2>1 DEF DrainingInv
  <2>3. ASSUME NEW k \in DOMAIN stack' PROVE stack'[k].before <=> \E j \in 1 .. k - 1 : Checkpoint(j)'
    <3>1. \A j \in 1 .. k - 1 : j \in 1 .. N
      BY <1>6
    <3> QED BY <1>3, <1>6, <1>7, <2>1, <3>1 DEF DrainingInv
  <2>4. ASSUME NEW k \in DOMAIN stack', ~Checkpoint(k)' PROVE stack'[k].todo = {}
    <3>1. stack[k].todo = {}
      BY <1>3, <1>6, <2>1, <2>4 DEF DrainingInv
    <3>2. stack'[k].todo \subseteq stack[k].todo
      BY <1>6, <1>7
    <3> QED BY <3>1, <3>2
  <2>5. SnapshotIsCurrent'
    BY <1>3, <1>6, <1>7, <1>8 DEF DrainingInv, SnapshotIsCurrent
  <2> QED BY <1>6, <2>2, <2>3, <2>4, <2>5 DEF DrainingInv
<1>10. ActiveInv'
  <2>1. PICK at \in [0 .. N -> Nat] : Positions(at)
    BY <1>2 DEF ActiveInv
  <2>2. \A k \in 1 .. N : (InRealm(stack'[k]) <=> InRealm(stack[k])) /\ Weight(stack'[k]) = Weight(stack[k])
    BY <1>7 DEF InRealm, Weight
  <2>3. Positions(at)'
    BY <1>2, <1>3, <1>6, <1>7, <1>8, <2>1, <2>2 DEF Positions
  <2> QED BY <1>6, <1>8, <2>1, <2>3 DEF ActiveInv
<1>11. RequestKeepsRealm'
  BY <1>3, <1>6, <1>7, <1>8 DEF RequestKeepsRealm, Known
<1>12. BaseInv' /\ IdleInv'
  <2>1. 1 \in 1 .. N
    OBVIOUS
  <2> QED BY <1>1, <1>6, <1>7, <2>1 DEF BaseInv, IdleInv
<1> QED BY <1>9, <1>10, <1>11, <1>12

(* The stack stays: the realms of requests must, and a checkpoint's queues.*)
LEMMA StayKeeps ==
  ASSUME IndInv, UNCHANGED <<stack, draining, active>>,
         draining => Current \subseteq Current',
         \A r \in DOMAIN context : IsActive(r) => r \in DOMAIN context' /\ context'[r] = context[r]
  PROVE  DrainingInv' /\ ActiveInv' /\ RequestKeepsRealm' /\ BaseInv'
<1> USE DEF IndInv
<1>1. DrainingInv'
  <2>1. \A k : Checkpoint(k)' <=> Checkpoint(k)
    BY DEF Checkpoint
  <2>2. SnapshotIsCurrent'
    <3>1. CASE draining
      BY <3>1 DEF DrainingInv, SnapshotIsCurrent
    <3>2. CASE ~draining
      BY <3>2 DEF DrainingInv, SnapshotIsCurrent
    <3> QED BY <3>1, <3>2
  <2> QED BY <2>1, <2>2 DEF DrainingInv
<1>2. ActiveInv'
  BY DEF ActiveInv, Positions
<1>3. RequestKeepsRealm'
  <2> SUFFICES ASSUME NEW k \in DOMAIN stack, InRealm(stack[k])
               PROVE  /\ stack[k].realm \in DOMAIN context'
                      /\ context'[stack[k].realm] = stack[k].context
    BY DEF RequestKeepsRealm, InRealm, Known
  <2>1. IsActive(stack[k].realm)
    BY RequestsAreActive
  <2>2. stack[k].realm \in DOMAIN context /\ context[stack[k].realm] = stack[k].context
    BY DEF RequestKeepsRealm, InRealm, Known
  <2> QED BY <2>1, <2>2
<1> QED BY <1>1, <1>2, <1>3 DEF BaseInv

-----------------------------------------------------------------------------
(* An artifact stays the realm's of its context, or its context is none's. *)
LEMMA ArtifactsStay ==
  ASSUME IndInv, Built \subseteq Built', Current' \ Current \subseteq Built' \ Built,
         modules' \subseteq modules, recorder' \subseteq recorder,
         \A h \in modules' \cup recorder' :
            h.context \in Current \cap Current' =>
               h.realm \in DOMAIN context' /\ context'[h.realm] = context[h.realm]
  PROVE  ArtifactsInv'
<1>1. modules' \subseteq Artifact /\ recorder' \subseteq Artifact
  BY DEF IndInv, ArtifactsInv
<1> SUFFICES ASSUME NEW h \in modules' \cup recorder'
             PROVE  /\ h.context \in Built'
                    /\ h.context \in Current' => Known(h.realm)' /\ context'[h.realm] = h.context
  BY <1>1 DEF ArtifactsInv
<1>2. h \in modules \cup recorder /\ h.context \in Built /\ h.context \in Built'
  BY DEF IndInv, ArtifactsInv
<1>3. ASSUME h.context \in Current' PROVE h.context \in Current
  BY <1>2, <1>3
<1>4. h.context \in Current => context[h.realm] = h.context
  BY <1>2 DEF IndInv, ArtifactsInv
<1> QED BY <1>2, <1>3, <1>4 DEF Known

(* Contexts are numbers, and what is compiled or set is an artifact.       *)
LEMMA ContextNumbers ==
  ASSUME IndInv
  PROVE  /\ Built \subseteq Nat /\ Current \subseteq Built
         /\ \A r \in DOMAIN context : r \in Nat /\ context[r] \in Current
<1> USE DEF IndInv, ContextsInv
<1>1. Built \subseteq Nat
  OBVIOUS
<1>2. \A r \in DOMAIN context : r \in Nat /\ context[r] \in Built
  OBVIOUS
<1> QED BY <1>1, <1>2 DEF Current

(* The frames the requests, checkpoints and callbacks push.                *)
LEMMA FramesAreTyped ==
  ASSUME IndInv, NEW kind \in {"request", "checkpoint", "callback"},
         NEW r \in {NoRealm} \cup Nat, NEW c \in Nat, NEW todo \in SUBSET Nat
  PROVE  [kind |-> kind, realm |-> r, context |-> c, todo |-> todo, before |-> draining] \in Frame
BY DEF IndInv, DrainingInv, Frame

(* IndInv is inductive, one case for each action.                          *)
LEMMA IndInvStep == IndInv /\ [Next]_vars => IndInv'
<1> SUFFICES ASSUME IndInv, [Next]_vars PROVE IndInv'
  OBVIOUS
<1>0. ASSUME UNCHANGED <<realmVars, disposed, modules, recorder>>
      PROVE  ContextsInv' /\ QueuesInv' /\ ArtifactsInv'
  <2>1. ContextsInv' /\ QueuesInv' /\ Built' = Built /\ Current' = Current
    BY <1>0, RestKeeps
  <2>2. UNCHANGED context
    BY <1>0 DEF realmVars
  <2>3. /\ Built \subseteq Built' /\ Current' \ Current \subseteq Built' \ Built
        /\ modules' \subseteq modules /\ recorder' \subseteq recorder
        /\ \A h \in modules' \cup recorder' :
              h.context \in Current \cap Current' =>
                 h.realm \in DOMAIN context' /\ context'[h.realm] = context[h.realm]
    BY <1>0, <2>1, <2>2 DEF IndInv, ArtifactsInv, Known
  <2>4. ArtifactsInv'
    BY <2>3, ArtifactsStay
  <2> QED BY <2>1, <2>4
<1>1. ASSUME NEW r \in DOMAIN context, Request(r) PROVE IndInv'
  <2> DEFINE f == [kind |-> "request", realm |-> r, context |-> context[r],
                   todo |-> {}, before |-> draining]
  <2>1. /\ Push(f) /\ active' = Append(active, r)
        /\ UNCHANGED <<realmVars, draining, modules, recorder, disposed>>
    BY <1>1 DEF Request
  <2>2. f \in Frame /\ InRealm(f)
    <3>1. r \in Nat /\ context[r] \in Nat
      BY ContextNumbers
    <3> QED BY <3>1, FramesAreTyped DEF InRealm, NoRealm
  <2>3. f.kind = "request" /\ f.before = draining /\ f.todo = {} /\ f.realm = r /\ f.context = context[r]
    OBVIOUS
  <2>4. UNCHANGED <<context, retiring>>
    BY <2>1 DEF realmVars
  <2> HIDE DEF f
  <2>5. DrainingInv' /\ ActiveInv' /\ RequestKeepsRealm' /\ BaseInv' /\ IdleInv'
    BY <2>1, <2>2, <2>3, <2>4, PushKeeps DEF Known
  <2> QED BY <1>0, <2>1, <2>5 DEF IndInv
<1>2. ASSUME NEW c \in Built, PumpTask(c) PROVE IndInv'
  <2> DEFINE f == [kind |-> "request", realm |-> NoRealm, context |-> c,
                   todo |-> {}, before |-> draining]
  <2>1. /\ Push(f)
        /\ UNCHANGED <<realmVars, active, draining, modules, recorder, disposed>>
    BY <1>2 DEF PumpTask
  <2>2. f \in Frame /\ ~InRealm(f)
    <3>1. c \in Nat
      BY ContextNumbers
    <3> QED BY <3>1, FramesAreTyped DEF InRealm
  <2>3. f.kind = "request" /\ f.before = draining /\ f.todo = {}
    OBVIOUS
  <2>4. UNCHANGED <<context, retiring>>
    BY <2>1 DEF realmVars
  <2> HIDE DEF f
  <2>5. DrainingInv' /\ ActiveInv' /\ RequestKeepsRealm' /\ BaseInv' /\ IdleInv'
    BY <2>1, <2>2, <2>3, <2>4, PushKeeps
  <2> QED BY <1>0, <2>1, <2>5 DEF IndInv
<1>3. ASSUME StartCheckpoint PROVE IndInv'
  <2> DEFINE f == [kind |-> "checkpoint", realm |-> NoRealm, context |-> NoContext,
                   todo |-> Current, before |-> draining]
  <2>1. /\ Push(f) /\ stack # <<>> /\ draining' = TRUE
        /\ UNCHANGED <<realmVars, active, modules, recorder, disposed>>
    BY <1>3 DEF StartCheckpoint, ScriptRuns
  <2>2. f \in Frame /\ ~InRealm(f)
    <3>1. Current \in SUBSET Nat /\ NoContext \in Nat
      BY ContextNumbers DEF NoContext
    <3> QED BY <3>1, FramesAreTyped DEF InRealm
  <2>3. f.kind = "checkpoint" /\ f.before = draining /\ f.todo = Current
    OBVIOUS
  <2>4. UNCHANGED <<context, retiring>>
    BY <2>1 DEF realmVars
  <2> HIDE DEF f
  <2>5. DrainingInv' /\ ActiveInv' /\ RequestKeepsRealm' /\ BaseInv' /\ IdleInv'
    BY <2>1, <2>2, <2>3, <2>4, PushKeeps
  <2> QED BY <1>0, <2>1, <2>5 DEF IndInv
<1>4. ASSUME NextQueue PROVE IndInv'
  <2>1. UNCHANGED <<realmVars, disposed, modules, recorder>>
    BY <1>4 DEF NextQueue
  <2> QED BY <1>0, <1>4, <2>1, QueueDoneKeeps DEF IndInv
<1>5. ASSUME EndCheckpoint PROVE IndInv'
  <2>1. /\ stack # <<>> /\ Top.kind = "checkpoint" /\ stack' = Pop /\ draining' = Top.before
        /\ UNCHANGED <<realmVars, active, disposed, modules, recorder>>
    BY <1>5 DEF EndCheckpoint, ScriptRuns
  <2>2. ~InRealm(Top) /\ UNCHANGED context
    BY <2>1 DEF InRealm, realmVars
  <2>3. DrainingInv' /\ ActiveInv' /\ RequestKeepsRealm' /\ BaseInv'
    BY <2>1, <2>2, PopKeeps
  <2>4. IdleInv'
    <3>1. stack \in Seq(Frame) /\ stack[1].kind = "request"
      BY <2>1 DEF IndInv, DrainingInv, BaseInv
    <3>2. Len(stack) \in Nat \ {0} /\ Len(stack) # 1
      BY <2>1, <3>1, FrontHolds DEF Top
    <3>3. Len(stack') = Len(stack) - 1
      BY <2>1, <3>1, FrontHolds DEF Pop
    <3> QED BY <3>2, <3>3 DEF IdleInv
  <2> QED BY <1>0, <2>1, <2>3, <2>4 DEF IndInv
<1>6. ASSUME NEW r \in DOMAIN context, CallRuby(r) PROVE IndInv'
  <2> DEFINE f == [kind |-> "callback", realm |-> r, context |-> context[r],
                   todo |-> {}, before |-> draining]
  <2>1. /\ Push(f) /\ stack # <<>>
        /\ UNCHANGED <<realmVars, active, draining, modules, recorder, disposed>>
    BY <1>6 DEF CallRuby, ScriptRuns
  <2>2. f \in Frame /\ ~InRealm(f)
    <3>1. r \in Nat /\ context[r] \in Nat
      BY ContextNumbers
    <3> QED BY <3>1, FramesAreTyped DEF InRealm
  <2>3. f.kind = "callback" /\ f.before = draining /\ f.todo = {}
    OBVIOUS
  <2>4. UNCHANGED <<context, retiring>>
    BY <2>1 DEF realmVars
  <2> HIDE DEF f
  <2>5. DrainingInv' /\ ActiveInv' /\ RequestKeepsRealm' /\ BaseInv' /\ IdleInv'
    BY <2>1, <2>2, <2>3, <2>4, PushKeeps
  <2> QED BY <1>0, <2>1, <2>5 DEF IndInv
<1>7. ASSUME ReturnRuby PROVE IndInv'
  <2>1. /\ stack # <<>> /\ Top.kind = "callback" /\ stack' = Pop
        /\ UNCHANGED <<realmVars, active, draining, disposed, modules, recorder>>
    BY <1>7 DEF ReturnRuby
  <2>2. ~InRealm(Top) /\ UNCHANGED context
    BY <2>1 DEF InRealm, realmVars
  <2>3. DrainingInv' /\ ActiveInv' /\ RequestKeepsRealm' /\ BaseInv'
    BY <2>1, <2>2, PopKeeps
  <2>4. IdleInv'
    <3>1. stack \in Seq(Frame) /\ stack[1].kind = "request"
      BY <2>1 DEF IndInv, DrainingInv, BaseInv
    <3>2. Len(stack) \in Nat \ {0} /\ Len(stack) # 1
      BY <2>1, <3>1, FrontHolds DEF Top
    <3>3. Len(stack') = Len(stack) - 1
      BY <2>1, <3>1, FrontHolds DEF Pop
    <3> QED BY <3>2, <3>3 DEF IdleInv
  <2> QED BY <1>0, <2>1, <2>3, <2>4 DEF IndInv
<1>8. ASSUME Finish PROVE IndInv'
  <2>1. /\ stack # <<>> /\ Top.kind = "request" /\ stack' = Pop
        /\ active' = IF Top.realm = NoRealm THEN active ELSE SubSeq(active, 1, Len(active) - 1)
        /\ UNCHANGED <<context, draining, modules, recorder>>
    BY <1>8 DEF Finish, ScriptRuns
  <2>2. ContextsInv' /\ QueuesInv' /\ IdleInv' /\ Built' = Built
    BY <1>8, FinishKeeps
  <2>3. active' = IF InRealm(Top) THEN SubSeq(active, 1, Len(active) - 1) ELSE active
    BY <2>1 DEF InRealm
  <2>4. DrainingInv' /\ ActiveInv' /\ RequestKeepsRealm' /\ BaseInv'
    BY <2>1, <2>3, PopKeeps
  <2>5. Current' = Current
    BY <2>1 DEF Current
  <2>6. ArtifactsInv'
    BY <2>1, <2>2, <2>5 DEF IndInv, ArtifactsInv, Known
  <2> QED BY <2>2, <2>4, <2>6 DEF IndInv
<1>9. ASSUME CreateContext PROVE IndInv'
  <2>1. UNCHANGED <<retiring, active, draining, stack, modules, recorder, disposed>>
    BY <1>9 DEF CreateContext
  <2>2. /\ ContextsInv' /\ QueuesInv' /\ IdleInv'
        /\ Built \subseteq Built' /\ Current \subseteq Current'
        /\ DOMAIN context \subseteq DOMAIN context'
        /\ \A r \in DOMAIN context : context'[r] = context[r]
        /\ Current' \ Current \subseteq Built' \ Built
    BY <1>9, CreateKeeps
  <2>3. DrainingInv' /\ ActiveInv' /\ RequestKeepsRealm' /\ BaseInv'
    BY <2>1, <2>2, StayKeeps
  <2>4. \A h \in modules' \cup recorder' :
           h.context \in Current \cap Current' =>
              h.realm \in DOMAIN context' /\ context'[h.realm] = context[h.realm]
    BY <2>1, <2>2 DEF IndInv, ArtifactsInv, Known
  <2>5. ArtifactsInv'
    BY <2>1, <2>2, <2>4, ArtifactsStay
  <2> QED BY <2>2, <2>3, <2>5 DEF IndInv
<1>10. ASSUME NEW r \in DOMAIN context, Reset(r) PROVE IndInv'
  <2>1. /\ ~draining /\ ~IsActive(r) /\ DropArtifacts(r)
        /\ UNCHANGED <<active, draining, stack, disposed>>
    BY <1>10 DEF Reset
  <2>2. /\ ContextsInv' /\ QueuesInv' /\ IdleInv'
        /\ Built \subseteq Built' /\ Current \ Current' = {context[r]}
        /\ DOMAIN context' = DOMAIN context
        /\ \A s \in DOMAIN context \ {r} : context'[s] = context[s]
        /\ Current' \ Current \subseteq Built' \ Built
    BY <1>10, ResetKeeps
  <2>3. DrainingInv' /\ ActiveInv' /\ RequestKeepsRealm' /\ BaseInv'
    BY <2>1, <2>2, StayKeeps
  <2>4. /\ modules' \subseteq modules /\ recorder' \subseteq recorder
        /\ \A h \in modules' \cup recorder' : h.realm # r
    BY <2>1 DEF DropArtifacts
  <2>5. \A h \in modules' \cup recorder' :
           h.context \in Current \cap Current' =>
              h.realm \in DOMAIN context' /\ context'[h.realm] = context[h.realm]
    BY <2>2, <2>4 DEF IndInv, ArtifactsInv, Known
  <2>6. ArtifactsInv'
    BY <2>2, <2>4, <2>5, ArtifactsStay
  <2> QED BY <2>2, <2>3, <2>6 DEF IndInv
<1>11. ASSUME NEW r \in DOMAIN context, DisposeContext(r) PROVE IndInv'
  <2>1. UNCHANGED <<nextId, active, draining, stack>>
    BY <1>11 DEF DisposeContext
  <2>2. /\ ContextsInv' /\ QueuesInv' /\ IdleInv'
        /\ \/ UNCHANGED <<context, queue, modules, recorder>>
           \/ /\ ~draining /\ ~IsActive(r) /\ DropArtifacts(r)
              /\ Built' = Built /\ Current \ Current' = {context[r]}
              /\ DOMAIN context' = DOMAIN context \ {r}
              /\ \A s \in DOMAIN context \ {r} : context'[s] = context[s]
              /\ Current' \subseteq Current
    BY <1>11, DisposeKeeps
  <2>3. CASE UNCHANGED <<context, queue, modules, recorder>>
    <3>1. Current' = Current /\ Built' = Built
      BY <2>3 DEF Current, Built
    <3>2. DrainingInv' /\ ActiveInv' /\ RequestKeepsRealm' /\ BaseInv'
      BY <2>1, <2>3, <3>1, StayKeeps
    <3>3. ArtifactsInv'
      BY <2>3, <3>1 DEF IndInv, ArtifactsInv, Known
    <3> QED BY <2>2, <3>2, <3>3 DEF IndInv
  <2>4. CASE ~ UNCHANGED <<context, queue, modules, recorder>>
    <3>1. DrainingInv' /\ ActiveInv' /\ RequestKeepsRealm' /\ BaseInv'
      BY <2>1, <2>2, <2>4, StayKeeps
    <3>2. /\ modules' \subseteq modules /\ recorder' \subseteq recorder
          /\ \A h \in modules' \cup recorder' : h.realm # r
      BY <2>2, <2>4 DEF DropArtifacts
    <3>3. \A h \in modules' \cup recorder' :
             h.context \in Current \cap Current' =>
                h.realm \in DOMAIN context' /\ context'[h.realm] = context[h.realm]
      BY <2>2, <2>4, <3>2 DEF IndInv, ArtifactsInv, Known
    <3>4. ArtifactsInv'
      BY <2>2, <2>4, <3>2, <3>3, ArtifactsStay
    <3> QED BY <2>2, <3>1, <3>4 DEF IndInv
  <2> QED BY <2>3, <2>4
<1>12. ASSUME NEW r \in DOMAIN context, Compile(r) PROVE IndInv'
  <2>1. /\ modules' = modules \cup {[realm |-> r, context |-> context[r]]}
        /\ UNCHANGED <<realmVars, active, draining, stack, recorder, disposed>>
    BY <1>12 DEF Compile
  <2>2. ContextsInv' /\ QueuesInv' /\ Built' = Built /\ Current' = Current
    BY <2>1, RestKeeps
  <2>3. UNCHANGED <<context, retiring>>
    BY <2>1 DEF realmVars
  <2>4. DrainingInv' /\ ActiveInv' /\ RequestKeepsRealm' /\ BaseInv'
    BY <2>1, <2>2, <2>3, StayKeeps
  <2>5. IdleInv'
    BY <2>1, <2>3 DEF IndInv, IdleInv
  <2>6. ArtifactsInv'
    <3>1. r \in Nat /\ context[r] \in Current /\ context[r] \in Built /\ context[r] \in Nat
      BY ContextNumbers
    <3>2. [realm |-> r, context |-> context[r]] \in Artifact
      BY <3>1 DEF Artifact
    <3> QED BY <2>1, <2>2, <2>3, <3>1, <3>2 DEF IndInv, ArtifactsInv, Known
  <2> QED BY <2>2, <2>4, <2>5, <2>6 DEF IndInv
<1>13. ASSUME NEW c \in Built, SetRecorder(c) PROVE IndInv'
  <2>1. UNCHANGED <<realmVars, active, draining, stack, modules, disposed>>
    BY <1>13 DEF SetRecorder
  <2>2. ContextsInv' /\ QueuesInv' /\ Built' = Built /\ Current' = Current
    BY <2>1, RestKeeps
  <2>3. UNCHANGED <<context, retiring>>
    BY <2>1 DEF realmVars
  <2>4. DrainingInv' /\ ActiveInv' /\ RequestKeepsRealm' /\ BaseInv'
    BY <2>1, <2>2, <2>3, StayKeeps
  <2>5. IdleInv'
    BY <2>1, <2>3 DEF IndInv, IdleInv
  <2>6. \A h \in recorder' :
           /\ h \in Artifact /\ h.context \in Built
           /\ h.context \in Current => Known(h.realm) /\ context[h.realm] = h.context
    <3>1. c \in Nat /\ Main \in Nat /\ \A r \in DOMAIN context : r \in Nat
      BY ContextNumbers DEF Main
    <3>2. CASE c \in Current
      <4>1. recorder' = {[realm |-> r, context |-> c] : r \in {s \in DOMAIN context : context[s] = c}}
        BY <1>13, <3>2 DEF SetRecorder
      <4> QED BY <3>1, <4>1 DEF Artifact, Known
    <3>3. CASE c \notin Current
      <4>1. recorder' = {[realm |-> Main, context |-> c]}
        BY <1>13, <3>3 DEF SetRecorder
      <4> QED BY <3>1, <3>3, <4>1 DEF Artifact
    <3> QED BY <3>2, <3>3
  <2>7. ArtifactsInv'
    BY <2>1, <2>2, <2>3, <2>6 DEF IndInv, ArtifactsInv, Known
  <2> QED BY <2>2, <2>4, <2>5, <2>7 DEF IndInv
<1>14. ASSUME UNCHANGED vars PROVE IndInv'
  <2>1. UNCHANGED <<realmVars, disposed, modules, recorder, stack, draining, active>>
    BY <1>14 DEF vars
  <2>2. UNCHANGED <<context, retiring>>
    BY <2>1 DEF realmVars
  <2>3. Current' = Current
    BY <2>2 DEF Current
  <2>4. DrainingInv' /\ ActiveInv' /\ RequestKeepsRealm' /\ BaseInv'
    BY <2>1, <2>2, <2>3, StayKeeps
  <2> QED BY <1>0, <2>1, <2>2, <2>4 DEF IndInv, IdleInv
<1> QED
  BY <1>1, <1>2, <1>3, <1>4, <1>5, <1>6, <1>7, <1>8, <1>9, <1>10, <1>11, <1>12, <1>13, <1>14
  DEF Next

-----------------------------------------------------------------------------
(* IndInv implies the invariants the realms run checks.                    *)
LEMMA IndInvImplies ==
  ASSUME IndInv
  PROVE  TypeOK /\ NoFreedQueue /\ SnapshotIsCurrent /\ RequestKeepsRealm /\ NothingLeftWhenIdle
<1> USE DEF IndInv, ContextsInv, QueuesInv
<1>1. Current \subseteq Built \ retiring
  BY DEF Current
<1>2. TypeOK
  <2>1. PICK n \in Nat : Built = 1 .. n
    OBVIOUS
  <2>2. Built = 1 .. Cardinality(Built)
    BY <2>1, NextContext
  <2>3. /\ DOMAIN context \subseteq 0 .. nextId - 1 /\ Main \in DOMAIN context
        /\ nextId \in Nat \ {0} /\ disposed \subseteq 1 .. nextId - 1
    OBVIOUS
  <2>4. Current \subseteq Built /\ retiring \subseteq Built \ Current /\ owned \subseteq Built
    BY <1>1
  <2>5. \A c \in Built : queue[c] \in {c, Graveyard}
    OBVIOUS
  <2>6. active \in Seq(Nat) /\ draining \in BOOLEAN /\ stack \in Seq(Frame)
    BY DEF ActiveInv, DrainingInv
  <2>7. modules \subseteq Artifact /\ recorder \subseteq Artifact
    BY DEF ArtifactsInv
  <2> QED BY <2>2, <2>3, <2>4, <2>5, <2>6, <2>7 DEF TypeOK
<1>3. NoFreedQueue
  BY DEF NoFreedQueue
<1>4. SnapshotIsCurrent
  BY DEF DrainingInv
<1>5. NothingLeftWhenIdle
  BY DEF NothingLeftWhenIdle, IdleInv
<1> QED BY <1>2, <1>3, <1>4, <1>5

(* Only a reset and a disposal take a realm its context.                   *)
LEMMA ContextsEndThere ==
  ASSUME IndInv, [Next]_vars
  PROVE  \/ Current \subseteq Current'
         \/ \E r \in DOMAIN context : /\ Current \ Current' = {context[r]}
                                      /\ DropArtifacts(r)
<1>1. ASSUME UNCHANGED realmVars \/ UNCHANGED context PROVE Current \subseteq Current'
  BY <1>1 DEF realmVars, Current
<1>2. CASE CreateContext
  BY <1>2, CreateKeeps
<1>3. ASSUME NEW r \in DOMAIN context, Reset(r)
      PROVE  Current \ Current' = {context[r]} /\ DropArtifacts(r)
  BY <1>3, ResetKeeps DEF Reset
<1>4. ASSUME NEW r \in DOMAIN context, DisposeContext(r)
      PROVE  \/ UNCHANGED context
             \/ Current \ Current' = {context[r]} /\ DropArtifacts(r)
  BY <1>4, DisposeKeeps
<1>5. CASE \E r \in DOMAIN context : Request(r) \/ CallRuby(r) \/ Compile(r)
  BY <1>1, <1>5 DEF Request, CallRuby, Compile
<1>6. CASE \E c \in Built : PumpTask(c) \/ SetRecorder(c)
  BY <1>1, <1>6 DEF PumpTask, SetRecorder
<1>7. CASE StartCheckpoint \/ NextQueue \/ EndCheckpoint \/ ReturnRuby
  BY <1>1, <1>7 DEF StartCheckpoint, NextQueue, EndCheckpoint, ReturnRuby
<1>8. CASE Finish
  BY <1>1, <1>8 DEF Finish
<1>9. CASE UNCHANGED vars
  BY <1>1, <1>9 DEF vars
<1> QED BY <1>1, <1>2, <1>3, <1>4, <1>5, <1>6, <1>7, <1>8, <1>9 DEF Next

(* What is left of modules, scripts and recorder is not of a context that  *)
(* a step takes out of use.                                                *)
LEMMA NothingOutlives ==
  ASSUME IndInv, [Next]_vars
  PROVE  \A c \in Current \ Current' : \A h \in modules' \cup recorder' : h.context # c
<1> SUFFICES ASSUME NEW c \in Current \ Current', NEW h \in modules' \cup recorder', h.context = c
             PROVE  FALSE
  OBVIOUS
<1>1. PICK r \in DOMAIN context : Current \ Current' = {context[r]} /\ DropArtifacts(r)
  BY ContextsEndThere
<1>2. h \in modules \cup recorder /\ h.realm # r /\ c = context[r]
  BY <1>1 DEF DropArtifacts
<1>3. h.realm \in DOMAIN context /\ context[h.realm] = context[r]
  BY <1>2 DEF IndInv, ArtifactsInv, Known
<1> QED BY <1>2, <1>3 DEF IndInv, ContextsInv

(* For any number of realms, frames and artifacts: contexts, queues, the   *)
(* drain flag and the active realms belong together as IndInv says.        *)
THEOREM RealmsInvariant == Spec => []IndInv
<1>1. Init => IndInv
  BY IndInvInit
<1>2. IndInv /\ [Next]_vars => IndInv'
  BY IndInvStep
<1> QED BY <1>1, <1>2, PTL DEF Spec

(* The types; an id is not given twice, and a context out of use is built, *)
(* not another realm's.                                                    *)
THEOREM RealmsTypes == Spec => []TypeOK
<1>1. IndInv => TypeOK
  BY IndInvImplies
<1> QED BY <1>1, RealmsInvariant, PTL

(* No v8::Context ever points at a queue flush_retiring has freed.         *)
THEOREM QueuesStand == Spec => []NoFreedQueue
<1>1. IndInv => NoFreedQueue
  BY IndInvImplies
<1> QED BY <1>1, RealmsInvariant, PTL

(* The queues drain_all_realms took at its start stay those of realms in   *)
(* use until it is done, whatever its microtasks request.                  *)
THEOREM DrainedQueuesStay == Spec => []SnapshotIsCurrent
<1>1. IndInv => SnapshotIsCurrent
  BY IndInvImplies
<1> QED BY <1>1, RealmsInvariant, PTL

(* A request that was suspended finds its realm and context again.         *)
THEOREM RequestsKeepRealms == Spec => []RequestKeepsRealm
<1>1. IndInv => RequestKeepsRealm
  BY IndInvImplies
<1> QED BY <1>1, RealmsInvariant, PTL

(* Between requests the queues allocated are those of the realms.          *)
THEOREM IdleKeepsNothing == Spec => []NothingLeftWhenIdle
<1>1. IndInv => NothingLeftWhenIdle
  BY IndInvImplies
<1> QED BY <1>1, RealmsInvariant, PTL

(* Modules, scripts and the recorder end with their context.               *)
THEOREM ArtifactsEnd == Spec => ArtifactsDieWithContext
<1>1. IndInv /\ [Next]_vars =>
        [\A c \in Current \ Current' : \A h \in modules' \cup recorder' : h.context # c]_vars
  BY NothingOutlives
<1> QED BY <1>1, RealmsInvariant, PTL DEF Spec, ArtifactsDieWithContext
=============================================================================
