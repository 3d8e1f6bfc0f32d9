--------------------------- MODULE TransferProofs ---------------------------
(***************************************************************************)
(* Transfer for every set of isolates and of stores: the memory of an      *)
(* ArrayBuffer has one holder, shared memory stays shared, a token works   *)
(* once, and each step moves ownership as Ownership says, or nothing.      *)
(***************************************************************************)
EXTENDS Transfer, TLAPS

(* A token on its way into the registry is no other callback's, names      *)
(* nothing yet and never did.                                              *)
TokensAreFresh ==
  \A i \in Isolates : At(i, "insert") =>
    /\ native[i].token \notin DOMAIN registry
    /\ native[i].token \notin spent
    /\ \A j \in Isolates \ {i} : At(j, "insert") => native[j].token # native[i].token

(* What a callback holds is of the kind it will give it out as.            *)
NativeKind ==
  \A i \in Isolates : native[i].store # NoStore =>
    (native[i].shared <=> native[i].store \in Shared)

(* SoleHolder for each pair of kinds of holders.                           *)
SoleByKind(s) ==
  /\ \A b, c \in buffers : b.store = s /\ c.store = s => b = c
  /\ \A t, u \in DOMAIN registry : registry[t].store = s /\ registry[u].store = s => t = u
  /\ \A i, j \in Isolates : native[i].store = s /\ native[j].store = s => i = j
  /\ \A b \in buffers, t \in DOMAIN registry : ~(b.store = s /\ registry[t].store = s)
  /\ \A b \in buffers, i \in Isolates : ~(b.store = s /\ native[i].store = s)
  /\ \A t \in DOMAIN registry, i \in Isolates : ~(registry[t].store = s /\ native[i].store = s)

Sole == \A s \in Stores \ Shared : SoleByKind(s)

IndInv == TypeOK /\ Sole /\ KindKept /\ NativeKind /\ TokensAreOnce /\ TokensAreFresh

-----------------------------------------------------------------------------
(* The parts together say that a store has one holder.                     *)
LEMMA SoleIsSoleHolder == IndInv => SoleHolder
<1> SUFFICES ASSUME IndInv, NEW s \in Stores \ Shared, NEW x \in Holders(s), NEW y \in Holders(s)
             PROVE  x = y
  BY DEF SoleHolder
<1>1. SoleByKind(s)
  BY DEF IndInv, Sole
<1> QED BY <1>1 DEF SoleByKind, Holders

(* Initially nothing is made, and no token is issued.                      *)
LEMMA IndInvInit == Init => IndInv
BY StoresAssumption, MaxTokensAssumption
DEF Init, IndInv, TypeOK, Sole, SoleByKind, KindKept, NativeKind, TokensAreOnce, TokensAreFresh,
    Idle, At, Stores

(* Every step keeps the types and what a callback holds where.             *)
LEMMA TypePreserved ==
  ASSUME IndInv, [Next]_vars
  PROVE  TypeOK'
<1> USE StoresAssumption, MaxTokensAssumption DEF IndInv, TypeOK, At, Idle, Held, Buffer
<1>1. ASSUME NEW i \in Isolates, NEW s \in Stores, MakeBuffer(i, s) PROVE TypeOK'
  <2>1. /\ made' = made \cup {s} /\ made' \subseteq Stores
        /\ \A c \in buffers' : \/ c \in buffers
                              \/ c = [iso |-> i, store |-> s, shared |-> s \in Shared]
        /\ UNCHANGED <<registry, next, native, spent>>
    BY <1>1 DEF MakeBuffer
  <2>2. buffers' \subseteq [iso : Isolates, store : made', shared : BOOLEAN]
    <3>1. (s \in Shared) \in BOOLEAN
      OBVIOUS
    <3>2. [iso |-> i, store |-> s, shared |-> s \in Shared]
            \in [iso : Isolates, store : made', shared : BOOLEAN]
      BY <2>1, <3>1
    <3>3. \A c \in buffers : c \in [iso : Isolates, store : made', shared : BOOLEAN]
      BY <2>1
    <3> QED BY <2>1, <3>2, <3>3
  <2> QED BY <2>1, <2>2
<1>2. ASSUME NEW i \in Isolates, NEW s \in Stores, TransferOut(i, s) PROVE TypeOK'
  BY <1>2 DEF TransferOut, TypeOK
<1>3. ASSUME NEW i \in Isolates, NEW s \in Stores, ShareOut(i, s) PROVE TypeOK'
  BY <1>3 DEF ShareOut, TypeOK
<1>4. ASSUME NEW b \in buffers, Collect(b) PROVE TypeOK'
  BY <1>4 DEF Collect, TypeOK
<1>5. ASSUME NEW i \in Isolates, Number(i) PROVE TypeOK'
  <2>1. /\ native' = [native EXCEPT ![i].at = "insert", ![i].token = next]
        /\ next' = next + 1 /\ next \in 1 .. MaxTokens
        /\ UNCHANGED <<made, buffers, registry, spent>>
    BY <1>5 DEF Number
  <2>2. next' \in 1 .. MaxTokens + 1 /\ 1 .. next - 1 \subseteq 1 .. next' - 1
    BY <2>1
  <2>3. native'[i] = [native[i] EXCEPT !.at = "insert", !.token = next]
    BY <2>1
  <2>4. \A j \in Isolates \ {i} : native'[j] = native[j]
    BY <2>1
  <2>5. native' \in [Isolates -> [at : {"idle", "number", "insert", "build"},
                                 store : made \cup {NoStore}, shared : BOOLEAN,
                                 token : 0 .. MaxTokens]]
    <3>1. next \in 0 .. MaxTokens
      BY <2>1
    <3>2. [native[i] EXCEPT !.at = "insert", !.token = next]
            \in [at : {"idle", "number", "insert", "build"}, store : made \cup {NoStore},
                 shared : BOOLEAN, token : 0 .. MaxTokens]
      BY ZenonT(60), <3>1
    <3>3. native' = [native EXCEPT ![i] = [native[i] EXCEPT !.at = "insert", !.token = next]]
      BY <2>1
    <3> QED BY <3>2, <3>3
  <2>6. native[i].store # NoStore
    BY <1>5 DEF Number
  <2>7. next \in 1 .. next' - 1
    BY <2>1
  <2>8. \A j \in Isolates : /\ native'[j].store = NoStore <=> native'[j].at = "idle"
                            /\ native'[j].at = "insert" => native'[j].token \in 1 .. next' - 1
    <3>1. native'[i].store = native[i].store /\ native'[i].at = "insert"
          /\ native'[i].token = next
      BY <2>3
    <3>2. \A j \in Isolates \ {i} :
             /\ native'[j].store = NoStore <=> native'[j].at = "idle"
             /\ native'[j].at = "insert" => native'[j].token \in 1 .. next' - 1
      BY <2>2, <2>4
    <3> QED BY <3>1, <3>2, <2>6, <2>7
  <2> QED BY <2>1, <2>2, <2>5, <2>8
<1>6. ASSUME NEW i \in Isolates, Insert(i) PROVE TypeOK'
  BY <1>6 DEF Insert, TypeOK
<1>7. ASSUME NEW i \in Isolates, Build(i) PROVE TypeOK'
  BY <1>7 DEF Build, TypeOK
<1>8. ASSUME NEW i \in Isolates, NEW t \in DOMAIN registry, NEW shared \in BOOLEAN,
            Take(i, t, shared)
      PROVE TypeOK'
  <2>1. /\ registry' = [u \in DOMAIN registry \ {t} |-> registry[u]]
        /\ native' = [native EXCEPT ![i] = [at |-> "build", store |-> registry[t].store,
                                           shared |-> shared, token |-> 0]]
        /\ spent' = spent \cup {t}
        /\ UNCHANGED <<made, buffers, next>>
    BY <1>8 DEF Take
  <2>2. registry[t].store \in made /\ registry[t].store # NoStore /\ t \in 1 .. next - 1
    BY DEF Stores
  <2>3. /\ DOMAIN registry' \subseteq 1 .. next - 1
        /\ \A u \in DOMAIN registry' : registry'[u] \in [store : made, shared : BOOLEAN]
    BY <2>1
  <2>4. native' \in [Isolates -> [at : {"idle", "number", "insert", "build"},
                                 store : made \cup {NoStore}, shared : BOOLEAN,
                                 token : 0 .. MaxTokens]]
    <3>1. [at |-> "build", store |-> registry[t].store, shared |-> shared, token |-> 0]
            \in [at : {"idle", "number", "insert", "build"}, store : made \cup {NoStore},
                 shared : BOOLEAN, token : 0 .. MaxTokens]
      BY <2>2
    <3> QED BY <2>1, <3>1
  <2>6. native'[i].at = "build" /\ native'[i].store # NoStore
    BY <2>1, <2>2
  <2>7. \A j \in Isolates \ {i} : native'[j] = native[j]
    BY <2>1
  <2>5. \A j \in Isolates : /\ native'[j].store = NoStore <=> native'[j].at = "idle"
                            /\ native'[j].at = "insert" => native'[j].token \in 1 .. next - 1
    BY <2>6, <2>7
  <2> QED BY <2>1, <2>2, <2>3, <2>4, <2>5
<1>9. ASSUME NEW i \in Isolates, NEW t \in DOMAIN registry, TransferDrop(i, t) PROVE TypeOK'
  BY <1>9 DEF TransferDrop, TypeOK
<1>10. CASE UNCHANGED vars
  BY <1>10 DEF vars, TypeOK
<1> QED
  BY <1>1, <1>2, <1>3, <1>4, <1>5, <1>6, <1>7, <1>8, <1>9, <1>10 DEF Next

(* No step gives a store a second holder.                                  *)
LEMMA SolePreserved ==
  ASSUME IndInv, [Next]_vars
  PROVE  Sole'
<1> USE StoresAssumption, MaxTokensAssumption DEF IndInv, TypeOK, At, Idle, Held, Buffer
<1>1. ASSUME NEW i \in Isolates, NEW s \in Stores, MakeBuffer(i, s) PROVE Sole'
  BY <1>1 DEF MakeBuffer, Sole, SoleByKind
<1>2. ASSUME NEW i \in Isolates, NEW s \in Stores, TransferOut(i, s) PROVE Sole'
  BY <1>2 DEF TransferOut, Sole, SoleByKind
<1>3. ASSUME NEW i \in Isolates, NEW s \in Stores, ShareOut(i, s) PROVE Sole'
  BY <1>3 DEF ShareOut, Sole, SoleByKind, KindKept
<1>4. ASSUME NEW b \in buffers, Collect(b) PROVE Sole'
  BY <1>4 DEF Collect, Sole, SoleByKind
<1>5. ASSUME NEW i \in Isolates, Number(i) PROVE Sole'
  BY <1>5 DEF Number, Sole, SoleByKind
<1>6. ASSUME NEW i \in Isolates, Insert(i) PROVE Sole'
  BY <1>6 DEF Insert, Sole, SoleByKind
<1>7. ASSUME NEW i \in Isolates, Build(i) PROVE Sole'
  BY <1>7 DEF Build, Sole, SoleByKind
<1>8. ASSUME NEW i \in Isolates, NEW t \in DOMAIN registry, NEW shared \in BOOLEAN,
            Take(i, t, shared)
      PROVE Sole'
  BY <1>8 DEF Take, Sole, SoleByKind
<1>9. ASSUME NEW i \in Isolates, NEW t \in DOMAIN registry, TransferDrop(i, t) PROVE Sole'
  BY <1>9 DEF TransferDrop, Sole, SoleByKind
<1>10. CASE UNCHANGED vars
  BY <1>10 DEF vars, Sole, SoleByKind
<1> QED
  BY <1>1, <1>2, <1>3, <1>4, <1>5, <1>6, <1>7, <1>8, <1>9, <1>10 DEF Next

(* No step changes the kind of a store.                                    *)
LEMMA KindPreserved ==
  ASSUME IndInv, [Next]_vars
  PROVE  KindKept' /\ NativeKind'
<1> USE StoresAssumption, MaxTokensAssumption DEF IndInv, TypeOK, At, Idle, Held, Buffer
<1>1. ASSUME NEW i \in Isolates, NEW s \in Stores, MakeBuffer(i, s) PROVE KindKept' /\ NativeKind'
  <2>1. /\ \A c \in buffers' : \/ c \in buffers
                              \/ c = [iso |-> i, store |-> s, shared |-> s \in Shared]
        /\ UNCHANGED <<registry, native>>
    BY <1>1 DEF MakeBuffer
  <2>2. \A c : c = [iso |-> i, store |-> s, shared |-> s \in Shared] =>
               (c.shared <=> c.store \in Shared)
    <3> TAKE c
    <3> HAVE c = [iso |-> i, store |-> s, shared |-> s \in Shared]
    <3>1. c.store = s
      BY SMT
    <3>2. c.shared = (s \in Shared)
      BY Zenon
    <3> QED BY <3>1, <3>2
  <2> QED BY <2>1, <2>2 DEF KindKept, NativeKind
<1>2. ASSUME NEW i \in Isolates, NEW s \in Stores, TransferOut(i, s) PROVE KindKept' /\ NativeKind'
  BY <1>2 DEF TransferOut, KindKept, NativeKind
<1>3. ASSUME NEW i \in Isolates, NEW s \in Stores, ShareOut(i, s) PROVE KindKept' /\ NativeKind'
  BY <1>3 DEF ShareOut, KindKept, NativeKind
<1>4. ASSUME NEW b \in buffers, Collect(b) PROVE KindKept' /\ NativeKind'
  BY <1>4 DEF Collect, KindKept, NativeKind
<1>5. ASSUME NEW i \in Isolates, Number(i) PROVE KindKept' /\ NativeKind'
  BY <1>5 DEF Number, KindKept, NativeKind
<1>6. ASSUME NEW i \in Isolates, Insert(i) PROVE KindKept' /\ NativeKind'
  BY <1>6 DEF Insert, KindKept, NativeKind
<1>7. ASSUME NEW i \in Isolates, Build(i) PROVE KindKept' /\ NativeKind'
  BY <1>7 DEF Build, KindKept, NativeKind
<1>8. ASSUME NEW i \in Isolates, NEW t \in DOMAIN registry, NEW shared \in BOOLEAN,
            Take(i, t, shared)
      PROVE KindKept' /\ NativeKind'
  BY <1>8 DEF Take, KindKept, NativeKind
<1>9. ASSUME NEW i \in Isolates, NEW t \in DOMAIN registry, TransferDrop(i, t) PROVE KindKept' /\ NativeKind'
  BY <1>9 DEF TransferDrop, KindKept, NativeKind
<1>10. CASE UNCHANGED vars
  BY <1>10 DEF vars, KindKept, NativeKind
<1> QED
  BY <1>1, <1>2, <1>3, <1>4, <1>5, <1>6, <1>7, <1>8, <1>9, <1>10 DEF Next

(* No step issues a token again.                                           *)
LEMMA TokensPreserved ==
  ASSUME IndInv, [Next]_vars
  PROVE  TokensAreOnce' /\ TokensAreFresh'
<1> USE StoresAssumption, MaxTokensAssumption DEF IndInv, TypeOK, At, Idle, Held, Buffer
<1>1. ASSUME NEW i \in Isolates, NEW s \in Stores, MakeBuffer(i, s) PROVE TokensAreOnce' /\ TokensAreFresh'
  BY <1>1 DEF MakeBuffer, TokensAreOnce, TokensAreFresh
<1>2. ASSUME NEW i \in Isolates, NEW s \in Stores, TransferOut(i, s) PROVE TokensAreOnce' /\ TokensAreFresh'
  BY <1>2 DEF TransferOut, TokensAreOnce, TokensAreFresh
<1>3. ASSUME NEW i \in Isolates, NEW s \in Stores, ShareOut(i, s) PROVE TokensAreOnce' /\ TokensAreFresh'
  BY <1>3 DEF ShareOut, TokensAreOnce, TokensAreFresh
<1>4. ASSUME NEW b \in buffers, Collect(b) PROVE TokensAreOnce' /\ TokensAreFresh'
  BY <1>4 DEF Collect, TokensAreOnce, TokensAreFresh
<1>5. ASSUME NEW i \in Isolates, Number(i) PROVE TokensAreOnce' /\ TokensAreFresh'
  BY <1>5 DEF Number, TokensAreOnce, TokensAreFresh
<1>6. ASSUME NEW i \in Isolates, Insert(i) PROVE TokensAreOnce' /\ TokensAreFresh'
  BY <1>6 DEF Insert, TokensAreOnce, TokensAreFresh
<1>7. ASSUME NEW i \in Isolates, Build(i) PROVE TokensAreOnce' /\ TokensAreFresh'
  BY <1>7 DEF Build, TokensAreOnce, TokensAreFresh
<1>8. ASSUME NEW i \in Isolates, NEW t \in DOMAIN registry, NEW shared \in BOOLEAN,
            Take(i, t, shared)
      PROVE TokensAreOnce' /\ TokensAreFresh'
  BY <1>8 DEF Take, TokensAreOnce, TokensAreFresh
<1>9. ASSUME NEW i \in Isolates, NEW t \in DOMAIN registry, TransferDrop(i, t) PROVE TokensAreOnce' /\ TokensAreFresh'
  BY <1>9 DEF TransferDrop, TokensAreOnce, TokensAreFresh
<1>10. CASE UNCHANGED vars
  BY <1>10 DEF vars, TokensAreOnce, TokensAreFresh
<1> QED
  BY <1>1, <1>2, <1>3, <1>4, <1>5, <1>6, <1>7, <1>8, <1>9, <1>10 DEF Next

-----------------------------------------------------------------------------
(* The registry's invariant, for any number of isolates on any threads.    *)
THEOREM TransferInvariant == Spec => []IndInv
<1>1. IndInv /\ [Next]_vars => IndInv'
  BY TypePreserved, SolePreserved, KindPreserved, TokensPreserved DEF IndInv
<1> QED BY <1>1, IndInvInit, PTL DEF Spec

(* The memory of an ArrayBuffer is never in two isolates, nor in one and   *)
(* in the registry: transfer_out detaches first and take_store takes under *)
(* the lock.                                                               *)
THEOREM OneHolder == Spec => []SoleHolder
BY SoleIsSoleHolder, TransferInvariant, PTL

(* A crossed import rebuilds no buffer of the wrong kind.                  *)
THEOREM KindsAreKept == Spec => []KindKept
<1>1. IndInv => KindKept
  BY DEF IndInv
<1> QED BY <1>1, TransferInvariant, PTL

(* A token that was used or dropped names nothing for ever after.          *)
THEOREM TokensWorkOnce == Spec => []TokensAreOnce
<1>1. IndInv => TokensAreOnce
  BY DEF IndInv
<1> QED BY <1>1, TransferInvariant, PTL
-----------------------------------------------------------------------------
(* The registry or a callback has the store.                               *)
InPost(s) ==
  \/ \E t \in DOMAIN registry : registry[t].store = s
  \/ \E i \in Isolates : native[i].store = s

(* The owner the refinement gives a memory is the party that holds it.     *)
LEMMA OwnerIsHolder ==
  IndInv => \A s \in Plain :
    /\ \A b \in buffers : b.store = s => Owner[s] = b.iso
    /\ (\A b \in buffers : b.store # s) =>
         Owner[s] = IF InPost(s) THEN "post" ELSE "nobody"
<1> SUFFICES ASSUME IndInv, NEW s \in Plain
             PROVE  /\ \A b \in buffers : b.store = s => Owner[s] = b.iso
                    /\ (\A b \in buffers : b.store # s) =>
                         Owner[s] = IF InPost(s) THEN "post" ELSE "nobody"
  OBVIOUS
<1>1. \A b, c \in buffers : b.store = s /\ c.store = s => b = c
  BY StoresAssumption DEF IndInv, Sole, SoleByKind, Stores
<1>2. ASSUME NEW b \in buffers, b.store = s
      PROVE  Owner[s] = b.iso
  <2>1. (CHOOSE c \in buffers : c.store = s) = b
    BY <1>1, <1>2
  <2> QED BY <1>2, <2>1 DEF Owner
<1>3. Holders(s) # {} <=> (\E b \in buffers : b.store = s) \/ InPost(s)
  BY DEF Holders, InPost
<1> QED BY <1>2, <1>3 DEF Owner

(* A step that touches the holders of one memory moves that one only.      *)
LEMMA OwnerMoves ==
  ASSUME NEW s \in Plain, NEW o, Owner'[s] = o,
         \A m \in Plain \ {s} : Owner'[m] = Owner[m]
  PROVE  Owner' = [Owner EXCEPT ![s] = o]
<1>1. Owner = [m \in Plain |-> Owner[m]] /\ Owner' = [m \in Plain |-> Owner'[m]]
  BY DEF Owner
<1> QED BY <1>1

(* Where a memory's holders are as they were, so is its owner.             *)
LEMMA OwnerStays ==
  ASSUME IndInv, IndInv', NEW m \in Plain,
         \A b : b.store = m => (b \in buffers <=> b \in buffers'),
         InPost(m)' <=> InPost(m)
  PROVE  Owner'[m] = Owner[m]
<1>1. (IndInv => \A s \in Plain :
          /\ \A b \in buffers : b.store = s => Owner[s] = b.iso
          /\ (\A b \in buffers : b.store # s) =>
               Owner[s] = IF InPost(s) THEN "post" ELSE "nobody")'
  BY OwnerIsHolder, PTL
<1> QED BY <1>1, OwnerIsHolder

(* Each callback is a step of its memory's owner, or none.                 *)
LEMMA StepMovesOwner ==
  ASSUME IndInv, IndInv', [Next]_vars
  PROVE  [Own!Next]_Owner
<1> USE StoresAssumption DEF At, Idle, Held, Buffer
<1> HIDE DEF IndInv
<1>0. (IndInv => \A s \in Plain :
          /\ \A b \in buffers : b.store = s => Owner[s] = b.iso
          /\ (\A b \in buffers : b.store # s) =>
               Owner[s] = IF InPost(s) THEN "post" ELSE "nobody")'
  BY OwnerIsHolder, PTL
<1>a. ASSUME \A m \in Plain : Owner'[m] = Owner[m]
      PROVE  UNCHANGED Owner
  BY <1>a DEF Owner
<1>1. ASSUME NEW i \in Isolates, NEW s \in Stores, MakeBuffer(i, s)
      PROVE  [Own!Next]_Owner
  <2>1. /\ s \notin made
        /\ buffers' = buffers \cup {[iso |-> i, store |-> s, shared |-> s \in Shared]}
        /\ UNCHANGED <<registry, native>>
    BY <1>1 DEF MakeBuffer
  <2> DEFINE new == [iso |-> i, store |-> s, shared |-> s \in Shared]
  <2>2. new.store = s /\ new.iso = i
    OBVIOUS
  <2>3. \A m \in Plain : m # s => Owner'[m] = Owner[m]
    <3> SUFFICES ASSUME NEW m \in Plain, m # s PROVE Owner'[m] = Owner[m]
      OBVIOUS
    <3> HIDE DEF new
    <3>1. \A b : b.store = m => (b \in buffers <=> b \in buffers')
      BY <2>1, <2>2 DEF new
    <3> QED BY <2>1, <3>1, OwnerStays DEF InPost
  <2>4. CASE s \in Plain
    <3>1. (\A b \in buffers : b.store # s) /\ ~InPost(s)
      BY <2>1 DEF IndInv, TypeOK, InPost, Stores
    <3>2. Owner[s] = "nobody"
      BY <2>4, <3>1, OwnerIsHolder
    <3>3. Owner'[s] = i
      BY <2>4, <2>1, <2>2, <1>0
    <3>4. Own!Make(i, s)
      BY <2>3, <2>4, <3>2, <3>3, OwnerMoves DEF Own!Make
    <3> QED BY <2>4, <3>4 DEF Own!Next
  <2>5. CASE s \notin Plain
    BY <2>3, <2>5, <1>a
  <2> QED BY <2>4, <2>5
<1>2. ASSUME NEW i \in Isolates, NEW s \in Stores, TransferOut(i, s)
      PROVE  [Own!Next]_Owner
  <2>1. /\ [iso |-> i, store |-> s, shared |-> FALSE] \in buffers /\ s \notin Pinned
        /\ buffers' = buffers \ {[iso |-> i, store |-> s, shared |-> FALSE]}
        /\ native[i].store = NoStore
        /\ native' = [native EXCEPT ![i] = [at |-> "number", store |-> s,
                                           shared |-> FALSE, token |-> 0]]
        /\ UNCHANGED registry
    BY <1>2 DEF TransferOut, IndInv, TypeOK
  <2>2. s \in Plain
    BY <2>1 DEF IndInv, KindKept, Stores
  <2>3. native'[i].store = s /\ \A j \in Isolates \ {i} : native'[j] = native[j]
    BY <2>1 DEF IndInv, TypeOK
  <2>4. \A m \in Plain \ {s} : Owner'[m] = Owner[m]
    BY <2>1, <2>3, OwnerStays DEF InPost, Stores
  <2>5. Owner[s] = i
    BY <2>1, <2>2, OwnerIsHolder
  <2>6. (\A b \in buffers' : b.store # s) /\ InPost(s)'
    BY <2>1, <2>2, <2>3 DEF InPost, IndInv, Sole, SoleByKind, Stores
  <2>7. Owner'[s] = "post"
    BY <2>2, <2>6, <1>0
  <2>8. Own!Send(i, s)
    BY <2>2, <2>4, <2>5, <2>7, OwnerMoves DEF Own!Send
  <2> QED BY <2>2, <2>8 DEF Own!Next
<1>3. ASSUME NEW i \in Isolates, NEW s \in Stores, ShareOut(i, s)
      PROVE  [Own!Next]_Owner
  <2>1. /\ [iso |-> i, store |-> s, shared |-> TRUE] \in buffers
        /\ native[i].store = NoStore
        /\ native' = [native EXCEPT ![i] = [at |-> "number", store |-> s,
                                           shared |-> TRUE, token |-> 0]]
        /\ UNCHANGED <<buffers, registry>>
    BY <1>3 DEF ShareOut, IndInv, TypeOK
  <2>2. s \notin Plain
    BY <2>1 DEF IndInv, KindKept
  <2>3. native'[i].store = s /\ \A j \in Isolates \ {i} : native'[j] = native[j]
    BY <2>1 DEF IndInv, TypeOK
  <2>4. \A m \in Plain : Owner'[m] = Owner[m]
    BY <2>1, <2>2, <2>3, OwnerStays DEF InPost, Stores
  <2> QED BY <2>4, <1>a
<1>4. ASSUME NEW b \in buffers, Collect(b)
      PROVE  [Own!Next]_Owner
  <2>1. buffers' = buffers \ {b} /\ UNCHANGED <<registry, native>>
    BY <1>4 DEF Collect
  <2>2. \A m \in Plain \ {b.store} : Owner'[m] = Owner[m]
    BY <2>1, OwnerStays DEF InPost
  <2>3. CASE b.store \in Plain
    <3>1. (\A c \in buffers' : c.store # b.store) /\ ~InPost(b.store)'
      BY <2>1, <2>3 DEF InPost, IndInv, Sole, SoleByKind, Stores
    <3>2. Owner'[b.store] = "nobody"
      BY <2>3, <3>1, <1>0
    <3>3. Owner' = [Owner EXCEPT ![b.store] = "nobody"]
      BY <2>2, <2>3, <3>2, OwnerMoves
    <3>4. CASE Owner[b.store] = "nobody"
      BY <2>2, <3>2, <3>4, <1>a
    <3>5. CASE Owner[b.store] # "nobody"
      BY <2>3, <3>3, <3>5 DEF Own!Next, Own!Free
    <3> QED BY <3>4, <3>5
  <2>4. CASE b.store \notin Plain
    BY <2>2, <2>4, <1>a
  <2> QED BY <2>3, <2>4
<1>5. ASSUME NEW i \in Isolates, Number(i)
      PROVE  [Own!Next]_Owner
  <2>1. /\ native' = [native EXCEPT ![i].at = "insert", ![i].token = next]
        /\ UNCHANGED <<buffers, registry>>
    BY <1>5 DEF Number
  <2>2. \A j \in Isolates : native'[j].store = native[j].store
    BY <2>1 DEF IndInv, TypeOK
  <2>3. \A m \in Plain : Owner'[m] = Owner[m]
    BY <2>1, <2>2, OwnerStays DEF InPost
  <2> QED BY <2>3, <1>a
<1>6. ASSUME NEW i \in Isolates, Insert(i)
      PROVE  [Own!Next]_Owner
  <2> DEFINE t == native[i].token
  <2>1. /\ registry' = [u \in DOMAIN registry \cup {t} |->
                          IF u = t THEN [store |-> native[i].store, shared |-> native[i].shared]
                          ELSE registry[u]]
        /\ t \notin DOMAIN registry
        /\ native' = [native EXCEPT ![i] = Idle]
        /\ UNCHANGED buffers
    BY <1>6 DEF Insert, IndInv, TokensAreFresh
  <2>2. /\ DOMAIN registry' = DOMAIN registry \cup {t}
        /\ registry'[t].store = native[i].store
        /\ \A u \in DOMAIN registry : registry'[u] = registry[u]
        /\ native'[i].store = NoStore
        /\ \A j \in Isolates \ {i} : native'[j] = native[j]
    BY <2>1 DEF IndInv, TypeOK
  <2> HIDE DEF t
  <2>3. \A m \in Plain : InPost(m)' <=> InPost(m)
    BY <2>2 DEF InPost, Stores
  <2>4. \A m \in Plain : Owner'[m] = Owner[m]
    BY <2>1, <2>3, OwnerStays
  <2> QED BY <2>4, <1>a
<1>7. ASSUME NEW i \in Isolates, Build(i)
      PROVE  [Own!Next]_Owner
  <2> DEFINE s == native[i].store
             new == [iso |-> i, store |-> s, shared |-> native[i].shared]
  <2>1. /\ buffers' = buffers \cup {new}
        /\ native' = [native EXCEPT ![i] = Idle]
        /\ UNCHANGED registry
    BY <1>7 DEF Build
  <2>2. /\ new.store = s /\ new.iso = i
        /\ native'[i].store = NoStore
        /\ \A j \in Isolates \ {i} : native'[j] = native[j]
    BY <2>1 DEF IndInv, TypeOK
  <2>3. \A m \in Plain \ {s} : Owner'[m] = Owner[m]
    <3> SUFFICES ASSUME NEW m \in Plain \ {s} PROVE Owner'[m] = Owner[m]
      OBVIOUS
    <3> HIDE DEF new
    <3>1. \A b : b.store = m => (b \in buffers <=> b \in buffers')
      BY <2>1, <2>2
    <3>2. InPost(m)' <=> InPost(m)
      BY <2>1, <2>2 DEF InPost, Stores
    <3> QED BY <3>1, <3>2, OwnerStays
  <2>4. CASE s \in Plain
    <3>1. (\A b \in buffers : b.store # s) /\ InPost(s)
      BY <2>4 DEF InPost, IndInv, Sole, SoleByKind, Stores
    <3>2. Owner[s] = "post"
      BY <2>4, <3>1, OwnerIsHolder
    <3>3. new \in buffers'
      BY <2>1
    <3> HIDE DEF new, s
    <3>4. Owner'[s] = i
      BY <2>2, <2>4, <3>3, <1>0
    <3>5. Own!Receive(i, s)
      BY <2>3, <2>4, <3>2, <3>4, OwnerMoves DEF Own!Receive
    <3> QED BY <2>4, <3>5 DEF Own!Next
  <2>5. CASE s \notin Plain
    BY <2>3, <2>5, <1>a
  <2> QED BY <2>4, <2>5
<1>8. ASSUME NEW i \in Isolates, NEW t \in DOMAIN registry, NEW shared \in BOOLEAN,
            Take(i, t, shared)
      PROVE  [Own!Next]_Owner
  <2>1. /\ registry' = [u \in DOMAIN registry \ {t} |-> registry[u]]
        /\ native[i].store = NoStore
        /\ native' = [native EXCEPT ![i] = [at |-> "build", store |-> registry[t].store,
                                           shared |-> shared, token |-> 0]]
        /\ UNCHANGED buffers
    BY <1>8 DEF Take, IndInv, TypeOK
  <2>2. /\ DOMAIN registry' = DOMAIN registry \ {t}
        /\ \A u \in DOMAIN registry' : registry'[u] = registry[u]
        /\ native'[i].store = registry[t].store
        /\ \A j \in Isolates \ {i} : native'[j] = native[j]
    BY <2>1 DEF IndInv, TypeOK
  <2>3. \A m \in Plain : InPost(m)' <=> InPost(m)
    BY <2>1, <2>2 DEF InPost, Stores
  <2>4. \A m \in Plain : Owner'[m] = Owner[m]
    BY <2>1, <2>3, OwnerStays
  <2> QED BY <2>4, <1>a
<1>9. ASSUME NEW i \in Isolates, NEW t \in DOMAIN registry, TransferDrop(i, t)
      PROVE  [Own!Next]_Owner
  <2>0. PICK s : s = registry[t].store
    OBVIOUS
  <2>1. /\ registry' = [u \in DOMAIN registry \ {t} |-> registry[u]]
        /\ UNCHANGED <<buffers, native>>
    BY <1>9 DEF TransferDrop
  <2>2. /\ DOMAIN registry' = DOMAIN registry \ {t}
        /\ \A u \in DOMAIN registry' : registry'[u] = registry[u]
    BY <2>1
  <2>3. \A m \in Plain \ {s} : Owner'[m] = Owner[m]
    BY <2>0, <2>1, <2>2, OwnerStays DEF InPost
  <2>4. CASE s \in Plain
    <3>1. (\A b \in buffers : b.store # s) /\ InPost(s)
      BY <2>0, <2>4 DEF InPost, IndInv, Sole, SoleByKind, Stores
    <3>2. (\A b \in buffers' : b.store # s) /\ ~InPost(s)'
      BY <2>0, <2>1, <2>2, <2>4 DEF InPost, IndInv, Sole, SoleByKind, Stores
    <3>3. Owner[s] = "post" /\ Owner'[s] = "nobody"
      BY <2>4, <3>1, <3>2, <1>0, OwnerIsHolder
    <3>4. Own!Free(s)
      BY <2>3, <2>4, <3>3, OwnerMoves DEF Own!Free
    <3> QED BY <2>4, <3>4 DEF Own!Next
  <2>5. CASE s \notin Plain
    BY <2>3, <2>5, <1>a
  <2> QED BY <2>4, <2>5
<1>10. CASE UNCHANGED vars
  BY <1>10 DEF vars, Owner, Holders
<1> QED
  BY <1>1, <1>2, <1>3, <1>4, <1>5, <1>6, <1>7, <1>8, <1>9, <1>10 DEF Next

(* The registry with its locks, its tokens and its callbacks cut in steps  *)
(* implements the transfer of ownership: memory goes from its one owner to *)
(* the post and from there to one isolate, and nowhere else.               *)
THEOREM TransfersMoveOwnership == Spec => ImplementsOwnership
<1>1. Init => Own!Init
  BY StoresAssumption DEF Init, Own!Init, Owner, Holders, Idle, Stores
<1>2. IndInv /\ IndInv' /\ [Next]_vars => [Own!Next]_Owner
  BY StepMovesOwner
<1> QED BY <1>1, <1>2, TransferInvariant, PTL DEF Spec, ImplementsOwnership, Own!Spec
=============================================================================
