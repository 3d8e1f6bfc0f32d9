--------------------------- MODULE MarshalProofs ----------------------------
(***************************************************************************)
(* Marshal for every source graph, depth limit and number of changes: what *)
(* a walk emits can be rebuilt, a graph nobody changed arrives as it was,  *)
(* and the collector reaches what the rebuild has yet to use.              *)
(*                                                                         *)
(* The walk and the rebuild meet in the data alone, so the argument is     *)
(* about the data: which token opened the container a token is in, and     *)
(* which of its elements the token stands for.  Both follow from the       *)
(* tokens before.  The containers the walk is inside of, and later the     *)
(* objects being filled, are the same chain of tokens, each in the one     *)
(* before it.                                                              *)
(***************************************************************************)
EXTENDS Marshal, WellFoundedInduction, TLAPS

Elements == Nodes \cup {Prim}
Frame == [node : Nodes, copy : Seq(Elements), next : Nat \ {0}]
Value == Nat \cup {Prim, Text}
Object == [kind : Kinds, items : Seq(Value)]

\* A token that gives an id to an object.
Emits(token) == token.t \in {"open", "bytes"}

SourceInv ==
  /\ kind \in [Nodes -> Kinds] /\ kids \in [Nodes -> Seq(Elements)]
  /\ \A n \in Nodes : kind[n] = "bytes" => kids[n] = <<>>
  /\ writes \in Nat

WalkTypeInv ==
  /\ frames \in Seq(Frame)
  /\ nextId \in Nat /\ threw \in BOOLEAN
  /\ msg \in Seq(Token)
  /\ DOMAIN seen \subseteq Nodes
  /\ \A n \in DOMAIN seen : seen[n] \in 0 .. nextId - 1

\* The table b and the objects fill being filled are of the objects objs, and so
\* is what these have for elements.
ValuesOf(objs) == DOMAIN objs \cup {Prim, Text}
ObjectsOf(objs, b, fill) ==
  /\ objs \in Seq(Object)
  /\ \A o \in DOMAIN objs : \A k \in DOMAIN objs[o].items : objs[o].items[k] \in ValuesOf(objs)
  /\ \A id \in DOMAIN b : b[id] \in DOMAIN objs
  /\ fill \in Seq(Nat) /\ \A j \in 1 .. Len(fill) : fill[j] \in DOMAIN objs

RebuildTypeInv ==
  /\ read \in 0 .. Len(msg)
  /\ ObjectsOf(objects, built, filling)
  /\ early \subseteq Made /\ dropped \subseteq Values
  /\ result \in Values

\* What is rebuilt is what a whole walk emitted.
PhaseInv ==
  /\ phase \in {"walk", "rebuild", "done", "failed"}
  /\ phase \in {"rebuild", "done"} => frames = <<>> /\ ~threw /\ msg # <<>>
  /\ phase = "done" => read = Len(msg)
  /\ phase \in {"walk", "failed"} =>
       /\ read = 0 /\ objects = <<>> /\ built = <<>> /\ filling = <<>>
       /\ early = {} /\ dropped = {} /\ result = Prim

\* Each node that is registered was emitted under its id, once, and an id is one
\* node's alone.
IdsInv ==
  /\ \A m, n \in DOMAIN seen : seen[m] = seen[n] => m = n
  /\ \A n \in DOMAIN seen : \E k \in DOMAIN msg : Emits(msg[k]) /\ msg[k].id = seen[n]
  /\ \A k \in DOMAIN msg : Emits(msg[k]) =>
       \E n \in DOMAIN seen : /\ seen[n] = msg[k].id /\ kind[n] = msg[k].kind
                              /\ msg[k].t = "bytes" <=> kind[n] = "bytes"
  /\ \A j, k \in DOMAIN msg :
       Emits(msg[j]) /\ Emits(msg[k]) /\ msg[j].id = msg[k].id => j = k

\* The table has an object of its own, of the right kind, for each id of the first
\* k tokens.
TableOf(objs, b, k) ==
  /\ \A j \in 1 .. k : Emits(msg[j]) => msg[j].id \in DOMAIN b
  /\ \A id \in DOMAIN b : \E j \in 1 .. k : Emits(msg[j]) /\ msg[j].id = id
  /\ \A i, j \in DOMAIN b : b[i] = b[j] => i = j
  /\ \A j \in 1 .. k : Emits(msg[j]) => objs[b[msg[j].id]].kind = msg[j].kind

TableInv == TableOf(objects, built, read)

-----------------------------------------------------------------------------
(* The places of the tokens of m: par[k] is the token that opened the       *)
(* container token k is in, 0 if none did, and pos[k] is the element of it  *)
(* token k stands for.  A close is in the container it closes.              *)

\* The token that opened the container one is in after k tokens, ...
Inside(m, par, k) ==
  IF k = 0 THEN 0
  ELSE IF m[k].t = "open" THEN k
  ELSE IF m[k].t = "close" THEN par[par[k]]
  ELSE par[k]

\* and the element of it whose turn it is.
Turn(m, par, pos, k) ==
  IF k = 0 \/ m[k].t = "open" THEN 1
  ELSE IF m[k].t = "close" THEN pos[par[k]] + 1
  ELSE pos[k] + 1

Nested(m, par, pos) ==
  /\ par \in [1 .. Len(m) -> Nat] /\ pos \in [1 .. Len(m) -> Nat \ {0}]
  /\ \A k \in 1 .. Len(m) :
       /\ par[k] = Inside(m, par, k - 1) /\ pos[k] = Turn(m, par, pos, k - 1)
       /\ par[k] < k /\ (par[k] = 0 <=> k = 1)
       /\ par[k] # 0 => m[par[k]].t = "open"
  /\ Len(m) # 0 => m[1].t # "close"

\* The chain of n containers one is in after k tokens, outermost first.
Chain(m, par, k, n, at) ==
  /\ at \in [0 .. n -> 0 .. k]
  /\ at[0] = 0 /\ at[n] = Inside(m, par, k)
  /\ \A j \in 1 .. n : at[j] # 0 /\ m[at[j]].t = "open" /\ par[at[j]] = at[j - 1]

\* The token stands for the element el of a source with these kinds and ids.
StandsFor(kd, s, token, el) ==
  IF token.t = "prim" THEN el = Prim
  ELSE IF token.t = "text" THEN el \in Nodes /\ kd[el] # "bytes"
  ELSE el \in DOMAIN s /\ s[el] = token.id

\* Of a graph nobody changes, the tokens in a container stand for its elements.
ElementsInv(par, pos) ==
  writes = 0 /\ ~threw =>
    /\ msg # <<>> => StandsFor(kind, seen, msg[1], Root)
    /\ \A k \in 1 .. Len(msg), n \in DOMAIN seen :
         par[k] # 0 /\ seen[n] = msg[par[k]].id =>
           IF msg[k].t = "close" THEN pos[k] = Len(kids[n]) + 1
           ELSE pos[k] <= Len(kids[n]) /\ StandsFor(kind, seen, msg[k], kids[n][pos[k]])

\* The containers the walk is inside of.
FramesInv(par, pos, at) ==
  /\ Chain(msg, par, Len(msg), Len(frames), at)
  /\ \A j \in 1 .. Len(frames) :
       /\ frames[j].node \in DOMAIN seen /\ seen[frames[j].node] = msg[at[j]].id
       /\ frames[j].next = IF j = Len(frames) THEN Turn(msg, par, pos, Len(msg))
                           ELSE pos[at[j + 1]] + 1
       /\ writes = 0 => /\ frames[j].copy = kids[frames[j].node]
                        /\ frames[j].next <= Len(kids[frames[j].node]) + 1

\* x is a copy of the element el, with the objects in the table b.
IsCopy(kd, s, b, x, el) ==
  IF el = Prim THEN x = Prim
  ELSE \/ x = Text /\ kd[el] # "bytes"
       \/ el \in DOMAIN s /\ s[el] \in DOMAIN b /\ x = b[s[el]]

\* The objects being filled are those of a chain of containers, and were made in
\* this order.
FillingOf(at, b, fill) ==
  /\ \A j \in 1 .. Len(fill) : fill[j] = b[msg[at[j]].id]
  /\ \A i, j \in 1 .. Len(fill) : i < j => fill[i] < fill[j]

FillingInv(par, at) ==
  /\ Chain(msg, par, read, Len(filling), at)
  /\ FillingOf(at, built, filling)

\* Each object has copies of the elements in the first k tokens, in order: all of
\* them but in a container that is being filled, which lacks those from the one
\* whose turn it is, or that is being filled itself.
ItemsOf(pos, at, objs, b, fill, k, turn) ==
  /\ \A j \in 1 .. Len(fill) :
       Len(objs[fill[j]].items) + 1 = IF j = Len(fill) THEN turn ELSE pos[at[j + 1]]
  /\ \A i \in 1 .. k, n \in DOMAIN seen :
       Emits(msg[i]) /\ seen[n] = msg[i].id =>
         LET items == objs[b[seen[n]]].items
         IN /\ Len(items) = Len(kids[n]) \/ \E j \in 1 .. Len(fill) : at[j] = i
            /\ \A e \in DOMAIN items : IsCopy(kind, seen, b, items[e], kids[n][e])

ItemsInv(par, pos, at) ==
  writes = 0 /\ dropped = {} =>
    /\ ItemsOf(pos, at, objects, built, filling, read, Turn(msg, par, pos, read))
    /\ read # 0 /\ filling = <<>> => IsCopy(kind, seen, built, result, Root)

\* An object other than x that is not being filled was put into one that was made
\* before it, and is there unless a Hash or Set did not keep it.
RootedBut(x, objs, fill, gone) ==
  \A o \in DOMAIN objs :
    \/ o = x
    \/ \E j \in 1 .. Len(fill) : fill[j] = o
    \/ o \in gone
    \/ \E y \in DOMAIN objs : y < o /\ \E k \in DOMAIN objs[y].items : objs[y].items[k] = o

\* (No object is 0.)
RootedInv == read = 0 \/ filling # <<>> => RootedBut(0, objects, filling, dropped)

WalkInv(par, pos) ==
  /\ Nested(msg, par, pos) /\ ElementsInv(par, pos)
  /\ \E at : FramesInv(par, pos, at)

RebuildInv(par, pos) ==
  \E at : FillingInv(par, at) /\ ItemsInv(par, pos, at)

MarshalTypeInv == SourceInv /\ WalkTypeInv /\ RebuildTypeInv /\ PhaseInv

MarshalInv ==
  /\ MarshalTypeInv /\ IdsInv /\ NoDanglingRef /\ TableInv /\ RootedInv
  /\ \E par, pos : WalkInv(par, pos) /\ RebuildInv(par, pos)

-----------------------------------------------------------------------------
(* A set of numbers has a least one.                                       *)
LEMMA Least ==
  ASSUME NEW T, T \subseteq Nat, T # {}
  PROVE  \E x \in T : \A y \in T : x <= y
<1> DEFINE R == OpToRel(<, Nat)
<1>1. IsWellFoundedOn(R, Nat)
  BY NatLessThanWellFounded
<1>2. PICK x \in T : \A y \in T : ~ (<<y, x>> \in R)
  <2> HIDE DEF R
  <2> QED BY <1>1, WFMin
<1>3. \A y \in T : ~ (y < x)
  BY <1>2 DEF OpToRel
<1> QED BY <1>3

(* m is m0 and then the token.                                             *)
Grows(m, m0, token) ==
  /\ m \in Seq(Token) /\ m0 \in Seq(Token) /\ token \in Token
  /\ Len(m0) \in Nat /\ Len(m) = Len(m0) + 1
  /\ m[Len(m0) + 1] = token /\ \A k \in 1 .. Len(m0) : m[k] = m0[k]

LEMMA Appended ==
  ASSUME NEW m0 \in Seq(Token), NEW token \in Token, NEW m, m = Append(m0, token)
  PROVE  Grows(m, m0, token)
BY DEF Grows

(* t is s without the last.                                                *)
CutOff(t, s, S) ==
  /\ Len(s) \in Nat \ {0}
  /\ t \in Seq(S) /\ Len(t) = Len(s) - 1 /\ \A k \in 1 .. Len(s) - 1 : t[k] = s[k]

LEMMA CutsOff ==
  ASSUME NEW S, NEW s \in Seq(S), s # <<>>, NEW t, t = SubSeq(s, 1, Len(s) - 1)
  PROVE  CutOff(t, s, S)
<1>1. Len(s) \in Nat \ {0}
  OBVIOUS
<1>2. PICK n \in Nat : n = Len(s) - 1
  BY <1>1
<1>3. \A k \in 1 .. n : s[k] \in S
  BY <1>1, <1>2
<1>4. t = [k \in 1 .. n |-> s[k]]
  BY <1>1, <1>2
<1>5. t \in Seq(S) /\ Len(t) = n
  BY <1>2, <1>3, <1>4
<1> QED BY <1>1, <1>2, <1>4, <1>5 DEF CutOff

\* The places of the tokens and of one more.
NextPar(m, par) ==
  [k \in 1 .. Len(m) + 1 |-> IF k = Len(m) + 1 THEN Inside(m, par, Len(m)) ELSE par[k]]
NextPos(m, par, pos) ==
  [k \in 1 .. Len(m) + 1 |-> IF k = Len(m) + 1 THEN Turn(m, par, pos, Len(m)) ELSE pos[k]]

(* Where one is after a token is settled by the tokens up to it.           *)
LEMMA InsideIs ==
  ASSUME NEW m, NEW par, NEW pos, Nested(m, par, pos), Len(m) \in Nat, NEW k \in 0 .. Len(m)
  PROVE  /\ Inside(m, par, k) \in 0 .. k /\ Turn(m, par, pos, k) \in Nat \ {0}
         /\ Inside(m, par, k) # 0 => m[Inside(m, par, k)].t = "open"
<1>1. CASE k = 0
  BY <1>1 DEF Inside, Turn
<1>2. CASE k # 0
  <2>1. /\ k \in 1 .. Len(m) /\ par[k] \in Nat /\ par[k] < k /\ pos[k] \in Nat \ {0}
        /\ par[k] # 0 => par[k] \in 1 .. Len(m) /\ m[par[k]].t = "open"
    BY <1>2 DEF Nested
  <2>2. CASE m[k].t = "close"
    <3>1. k # 1
      BY <2>1, <2>2 DEF Nested
    <3>2. par[k] # 0
      BY <2>1, <3>1 DEF Nested
    <3>3. /\ par[par[k]] \in Nat /\ par[par[k]] < par[k] /\ pos[par[k]] \in Nat \ {0}
          /\ par[par[k]] # 0 => m[par[par[k]]].t = "open"
      BY <2>1, <3>2 DEF Nested
    <3> QED BY <1>2, <2>1, <2>2, <3>3 DEF Inside, Turn
  <2>3. CASE m[k].t # "close"
    BY <1>2, <2>1, <2>3 DEF Inside, Turn
  <2> QED BY <2>2, <2>3
<1> QED BY <1>1, <1>2

(* The token that opened the container of another comes before it.         *)
LEMMA ParentOpens ==
  ASSUME NEW m, NEW par, NEW pos, Nested(m, par, pos), Len(m) \in Nat,
         NEW k \in 1 .. Len(m), par[k] # 0
  PROVE  par[k] \in 1 .. Len(m) /\ par[k] < k /\ m[par[k]].t = "open"
<1>1. par[k] \in Nat /\ par[k] < k /\ m[par[k]].t = "open"
  BY DEF Nested
<1> QED BY <1>1

(* Up to the last token but one, one more changes no place.                *)
LEMMA PlacesStay ==
  ASSUME NEW m0, NEW token, NEW m, Grows(m, m0, token),
         NEW par, NEW pos, Nested(m0, par, pos), NEW k \in 0 .. Len(m0)
  PROVE  /\ Inside(m, NextPar(m0, par), k) = Inside(m0, par, k)
         /\ Turn(m, NextPar(m0, par), NextPos(m0, par, pos), k) = Turn(m0, par, pos, k)
<1> DEFINE p == NextPar(m0, par)
           q == NextPos(m0, par, pos)
<1> SUFFICES /\ Inside(m, p, k) = Inside(m0, par, k)
             /\ Turn(m, p, q, k) = Turn(m0, par, pos, k)
  OBVIOUS
<1>1. \A j \in 1 .. Len(m0) : p[j] = par[j] /\ q[j] = pos[j] /\ m[j] = m0[j]
  BY DEF NextPar, NextPos, Grows
<1>2. CASE k = 0
  BY <1>2 DEF Inside, Turn
<1>3. CASE k # 0
  <2>1. k \in 1 .. Len(m0) /\ par[k] \in Nat /\ par[k] < k
    BY <1>3 DEF Nested, Grows
  <2>2. p[k] = par[k] /\ q[k] = pos[k] /\ m[k] = m0[k]
    BY <1>1, <2>1
  <2>3. CASE m0[k].t = "close"
    <3>1. k # 1
      BY <2>1, <2>3 DEF Nested, Grows
    <3>2. par[k] \in 1 .. Len(m0)
      BY <2>1, <3>1 DEF Nested, Grows
    <3>3. p[par[k]] = par[par[k]] /\ q[par[k]] = pos[par[k]]
      BY <1>1, <3>2
    <3> HIDE DEF p, q
    <3> QED BY <1>3, <2>2, <2>3, <3>3 DEF Inside, Turn
  <2>4. CASE m0[k].t # "close"
    <3> HIDE DEF p, q
    <3> QED BY <1>3, <2>2, <2>4 DEF Inside, Turn
  <2> QED BY <2>3, <2>4
<1> QED BY <1>2, <1>3

(* A token that is not the last of a message is in some container.         *)
Goes(m, par, token) ==
  IF Len(m) = 0 THEN token.t # "close" ELSE Inside(m, par, Len(m)) # 0

LEMMA PlacesExtended ==
  ASSUME NEW m0, NEW token, NEW m, Grows(m, m0, token),
         NEW par, NEW pos, Nested(m0, par, pos), Goes(m0, par, token)
  PROVE  Nested(m, NextPar(m0, par), NextPos(m0, par, pos))
<1> DEFINE p == NextPar(m0, par)
           q == NextPos(m0, par, pos)
           n == Len(m0) + 1
<1>0. /\ Len(m0) \in Nat /\ Len(m) = n /\ DOMAIN m = 1 .. n
      /\ m[n] = token /\ \A k \in 1 .. Len(m0) : m[k] = m0[k]
  BY DEF Grows
<1>1. /\ Inside(m0, par, Len(m0)) \in 0 .. Len(m0) /\ Turn(m0, par, pos, Len(m0)) \in Nat \ {0}
      /\ Inside(m0, par, Len(m0)) # 0 => m0[Inside(m0, par, Len(m0))].t = "open"
  BY <1>0, InsideIs
<1>2. /\ \A j \in 1 .. Len(m0) : p[j] = par[j] /\ q[j] = pos[j]
      /\ p[n] = Inside(m0, par, Len(m0)) /\ q[n] = Turn(m0, par, pos, Len(m0))
  BY <1>0 DEF NextPar, NextPos
<1>3. /\ \A k \in 1 .. Len(m0) : /\ par[k] \in Nat /\ pos[k] \in Nat \ {0}
                                 /\ par[k] < k /\ (par[k] = 0 <=> k = 1)
                                 /\ par[k] # 0 => m0[par[k]].t = "open"
                                 /\ par[k] = Inside(m0, par, k - 1)
                                 /\ pos[k] = Turn(m0, par, pos, k - 1)
      /\ Len(m0) # 0 => m0[1].t # "close"
  BY <1>0 DEF Nested
<1>4. p \in [1 .. Len(m) -> Nat] /\ q \in [1 .. Len(m) -> Nat \ {0}]
  BY <1>0, <1>1, <1>3 DEF NextPar, NextPos
<1>5. ASSUME NEW k \in 1 .. Len(m)
      PROVE  p[k] = Inside(m, p, k - 1) /\ q[k] = Turn(m, p, q, k - 1)
  <2>1. k - 1 \in 0 .. Len(m0)
    BY <1>0
  <2>2. Inside(m, p, k - 1) = Inside(m0, par, k - 1) /\ Turn(m, p, q, k - 1) = Turn(m0, par, pos, k - 1)
    BY <2>1, PlacesStay
  <2>3. CASE k = n
    <3>1. k - 1 = Len(m0)
      BY <1>0, <2>3
    <3> HIDE DEF p, q
    <3> QED BY <1>2, <2>2, <2>3, <3>1
  <2>4. CASE k # n
    <3>1. k \in 1 .. Len(m0)
      BY <1>0, <2>4
    <3> HIDE DEF p, q
    <3> QED BY <1>2, <1>3, <2>2, <3>1
  <2> QED BY <2>3, <2>4
<1>6. Len(m0) # 0 => Inside(m0, par, Len(m0)) # 0
  BY DEF Goes
<1>7. Len(m0) = 0 => Inside(m0, par, Len(m0)) = 0 /\ token.t # "close"
  BY DEF Goes, Inside
<1>8. ASSUME NEW k \in 1 .. Len(m)
      PROVE  p[k] < k /\ (p[k] = 0 <=> k = 1) /\ (p[k] # 0 => m[p[k]].t = "open")
  <2>1. CASE k = n
    <3> HIDE DEF p, q
    <3> QED BY <2>1, <1>0, <1>1, <1>2, <1>6, <1>7
  <2>2. CASE k # n
    <3>1. k \in 1 .. Len(m0)
      BY <1>0, <2>2
    <3>2. p[k] = par[k] /\ par[k] \in Nat /\ par[k] < k /\ (par[k] = 0 <=> k = 1)
          /\ (par[k] # 0 => m0[par[k]].t = "open")
      BY <3>1, <1>2, <1>3
    <3> HIDE DEF p, q
    <3>3. par[k] # 0 => par[k] \in 1 .. Len(m0)
      BY <1>0, <3>1, <3>2
    <3> QED BY <3>2, <3>3, <1>0
  <2> QED BY <2>1, <2>2
<1>9. m[1].t # "close"
  BY <1>0, <1>3, <1>7
<1> HIDE DEF p, q
<1>10. Nested(m, p, q)
  BY <1>4, <1>5, <1>8, <1>9 DEF Nested
<1> QED BY <1>10 DEF p, q

-----------------------------------------------------------------------------
(* A chain is of opens up to where it ends.                                *)
LEMMA ChainAt ==
  ASSUME NEW m, NEW par, NEW k \in Nat, NEW n \in Nat, NEW at, Chain(m, par, k, n, at),
         NEW j \in 1 .. n
  PROVE  at[j] \in 1 .. k /\ m[at[j]].t = "open" /\ par[at[j]] = at[j - 1]
BY DEF Chain

(* A chain of containers is the same in a longer message, ...              *)
LEMMA ChainStays ==
  ASSUME NEW m0, NEW token, NEW m, Grows(m, m0, token),
         NEW par, NEW pos, Nested(m0, par, pos),
         NEW k \in 0 .. Len(m0), NEW n \in Nat, NEW at, Chain(m0, par, k, n, at)
  PROVE  Chain(m, NextPar(m0, par), k, n, at)
<1> DEFINE p == NextPar(m0, par)
<1>1. Inside(m, p, k) = Inside(m0, par, k)
  BY PlacesStay
<1>2. \A j \in 1 .. Len(m0) : p[j] = par[j] /\ m[j] = m0[j]
  BY DEF NextPar, Grows
<1>3. ASSUME NEW j \in 1 .. n
      PROVE  at[j] # 0 /\ m[at[j]].t = "open" /\ p[at[j]] = at[j - 1]
  <2>1. /\ at[j] \in 0 .. k /\ at[j] # 0
        /\ m0[at[j]].t = "open" /\ par[at[j]] = at[j - 1]
    BY DEF Chain
  <2>2. at[j] \in 1 .. Len(m0)
    BY <2>1 DEF Grows
  <2> HIDE DEF p
  <2> QED BY <1>2, <2>1, <2>2
<1> HIDE DEF p
<1>4. Chain(m, p, k, n, at)
  BY <1>1, <1>3 DEF Chain
<1> QED BY <1>4 DEF p

(* One token on: at a value, ...                                           *)
LEMMA ChainPasses ==
  ASSUME NEW m, NEW par, NEW pos, Nested(m, par, pos), Len(m) \in Nat,
         NEW k \in 0 .. Len(m), NEW next \in 1 .. Len(m), next = k + 1,
         m[next].t \notin {"open", "close"},
         NEW n \in Nat, NEW at, Chain(m, par, k, n, at)
  PROVE  Chain(m, par, next, n, at)
<1>1. par[next] = Inside(m, par, k)
  BY DEF Nested
<1>2. Inside(m, par, next) = Inside(m, par, k)
  BY <1>1 DEF Inside
<1>3. at \in [0 .. n -> 0 .. next]
  BY DEF Chain
<1> QED BY <1>2, <1>3 DEF Chain

\* at an open, ...
Deeper(at, n, k) == [j \in 0 .. n + 1 |-> IF j = n + 1 THEN k ELSE at[j]]

LEMMA ChainEnters ==
  ASSUME NEW m, NEW par, NEW pos, Nested(m, par, pos), Len(m) \in Nat,
         NEW k \in 0 .. Len(m), NEW next \in 1 .. Len(m), next = k + 1,
         m[next].t = "open",
         NEW n \in Nat, NEW at, Chain(m, par, k, n, at)
  PROVE  Chain(m, par, next, n + 1, Deeper(at, n, next))
<1> DEFINE a == Deeper(at, n, next)
<1>1. par[next] = Inside(m, par, k)
  BY DEF Nested
<1>2. Inside(m, par, next) = next
  BY DEF Inside
<1>3. /\ \A j \in 0 .. n : a[j] = at[j]
      /\ a[n + 1] = next /\ DOMAIN a = 0 .. n + 1
  BY DEF Deeper
<1>4. /\ \A j \in 0 .. n : at[j] \in 0 .. k
      /\ at[0] = 0 /\ at[n] = Inside(m, par, k)
      /\ \A j \in 1 .. n : at[j] # 0 /\ m[at[j]].t = "open" /\ par[at[j]] = at[j - 1]
  BY DEF Chain
<1>5. a \in [0 .. n + 1 -> 0 .. next]
  BY <1>4 DEF Deeper
<1>6. ASSUME NEW j \in 1 .. n + 1
      PROVE  a[j] # 0 /\ m[a[j]].t = "open" /\ par[a[j]] = a[j - 1]
  <2> HIDE DEF a
  <2>1. CASE j = n + 1
    BY <2>1, <1>1, <1>3, <1>4
  <2>2. CASE j # n + 1
    <3>1. j \in 1 .. n /\ j \in 0 .. n /\ j - 1 \in 0 .. n
      BY <2>2
    <3>2. a[j] = at[j] /\ a[j - 1] = at[j - 1]
      BY <3>1, <1>3
    <3> QED BY <3>1, <3>2, <1>4
  <2> QED BY <2>1, <2>2
<1> HIDE DEF a
<1>7. Chain(m, par, next, n + 1, a)
  BY <1>2, <1>3, <1>4, <1>5, <1>6 DEF Chain
<1> QED BY <1>7 DEF a

\* and at a close.
Outer(at, n) == [j \in 0 .. n - 1 |-> at[j]]

(* There is a container to close.                                          *)
LEMMA ClosesOne ==
  ASSUME NEW m, NEW par, NEW pos, Nested(m, par, pos), Len(m) \in Nat,
         NEW k \in 0 .. Len(m), NEW next \in 1 .. Len(m), next = k + 1,
         m[next].t = "close",
         NEW n \in Nat, NEW at, Chain(m, par, k, n, at)
  PROVE  n # 0
<1>1. par[next] = Inside(m, par, k) /\ next # 1
  BY DEF Nested
<1>2. par[next] # 0
  BY <1>1 DEF Nested
<1> QED BY <1>1, <1>2 DEF Chain

LEMMA ChainLeaves ==
  ASSUME NEW m, NEW par, NEW pos, Nested(m, par, pos), Len(m) \in Nat,
         NEW k \in 0 .. Len(m), NEW next \in 1 .. Len(m), next = k + 1,
         m[next].t = "close",
         NEW n \in Nat, NEW at, Chain(m, par, k, n, at)
  PROVE  Chain(m, par, next, n - 1, Outer(at, n))
<1> DEFINE a == Outer(at, n)
<1>1. n # 0 /\ par[next] = at[n]
  <2>1. n # 0
    BY ClosesOne
  <2>2. par[next] = Inside(m, par, k)
    BY DEF Nested
  <2> QED BY <2>1, <2>2 DEF Chain
<1>2. /\ \A j \in 0 .. n : at[j] \in 0 .. k
      /\ at[0] = 0
      /\ \A j \in 1 .. n : at[j] # 0 /\ m[at[j]].t = "open" /\ par[at[j]] = at[j - 1]
  BY DEF Chain
<1>3. Inside(m, par, next) = at[n - 1]
  BY <1>1, <1>2 DEF Inside
<1>4. /\ \A j \in 0 .. n - 1 : a[j] = at[j]
      /\ a \in [0 .. n - 1 -> 0 .. next]
  BY <1>2 DEF Outer
<1> HIDE DEF a
<1>5. Chain(m, par, next, n - 1, a)
  BY SMTT(30), <1>1, <1>2, <1>3, <1>4 DEF Chain
<1> QED BY <1>5 DEF a

-----------------------------------------------------------------------------
(* The walk.                                                               *)

(* The frames f are those of the walk with the innermost moved on, ...     *)
MovedOn(f) ==
  /\ f \in Seq(Frame) /\ Len(f) = Len(frames)
  /\ \A j \in 1 .. Len(frames) :
       /\ f[j].node = frames[j].node /\ f[j].copy = frames[j].copy
       /\ f[j].next = IF j = Len(frames) THEN frames[j].next + 1 ELSE frames[j].next

LEMMA AdvancedMovesOn ==
  ASSUME frames \in Seq(Frame), HasNext, NEW f, f = Advanced
  PROVE  MovedOn(f)
<1>1. CASE frames = <<>>
  <2>1. f = <<>>
    BY <1>1 DEF HasNext, Advanced
  <2> QED BY <1>1, <2>1 DEF MovedOn
<1>2. CASE frames # <<>>
  <2> DEFINE n == Len(frames)
  <2>1. n \in 1 .. Len(frames) /\ frames[n] \in Frame /\ ~AtRoot
    BY <1>2 DEF AtRoot
  <2>2. f = [frames EXCEPT ![n] = [frames[n] EXCEPT !.next = @ + 1]]
    BY <2>1 DEF Advanced
  <2>3. [frames[n] EXCEPT !.next = @ + 1] \in Frame
    <3>1. \A x \in Frame : [x EXCEPT !.next = @ + 1] \in Frame
      <4> SUFFICES ASSUME NEW x \in Frame PROVE [x EXCEPT !.next = @ + 1] \in Frame
        OBVIOUS
      <4>1. x.next + 1 \in Nat \ {0}
        BY DEF Frame
      <4> QED BY <4>1 DEF Frame
    <3> QED BY <2>1, <3>1
  <2>4. f \in Seq(Frame) /\ Len(f) = n
    BY <2>1, <2>2, <2>3
  <2>5. ASSUME NEW j \in 1 .. n
        PROVE  /\ f[j].node = frames[j].node /\ f[j].copy = frames[j].copy
               /\ f[j].next = IF j = n THEN frames[j].next + 1 ELSE frames[j].next
    <3>1. frames[j] \in Frame
      BY <2>1
    <3>2. CASE j = n
      <4>1. f[j] = [frames[n] EXCEPT !.next = @ + 1]
        BY <2>1, <2>2, <3>2
      <4> QED BY <3>1, <3>2, <4>1 DEF Frame
    <3>3. CASE j # n
      <4>1. f[j] = frames[j]
        BY <2>1, <2>2, <3>3
      <4> QED BY <3>3, <4>1
    <3> QED BY <3>2, <3>3
  <2> QED BY <2>4, <2>5 DEF MovedOn
<1> QED BY <1>1, <1>2

(* The walk emits a token only at the root or inside of a container.       *)
LEMMA WalkGoes ==
  ASSUME WalkTypeInv, NEW par, NEW pos, NEW at, FramesInv(par, pos, at),
         NEW token, IF frames = <<>> THEN msg = <<>> /\ token.t # "close" ELSE TRUE
  PROVE  Goes(msg, par, token)
<1>1. Len(frames) \in Nat /\ Len(msg) \in Nat
  BY DEF WalkTypeInv
<1>2. /\ at[Len(frames)] = Inside(msg, par, Len(msg))
      /\ Len(frames) # 0 => at[Len(frames)] # 0
  BY <1>1 DEF FramesInv, Chain
<1>3. CASE frames = <<>>
  BY <1>3 DEF Goes
<1>4. CASE frames # <<>>
  <2>1. Len(frames) # 0
    BY <1>4 DEF WalkTypeInv
  <2>2. Inside(msg, par, Len(msg)) # 0
    BY <1>2, <2>1
  <2>3. Len(msg) # 0
    BY <2>2 DEF Inside
  <2> QED BY <2>2, <2>3 DEF Goes
<1> QED BY <1>3, <1>4

\* What is registered stays so, and ids remain one node's alone.
SeenGrows ==
  /\ DOMAIN seen \subseteq DOMAIN seen' /\ DOMAIN seen' \subseteq Nodes
  /\ \A n \in DOMAIN seen : seen'[n] = seen[n]
  /\ \A m, n \in DOMAIN seen' : seen'[m] = seen'[n] => m = n

(* What stands for an element goes on doing so.                            *)
LEMMA StandsForStays ==
  ASSUME SeenGrows, NEW token, NEW el, StandsFor(kind, seen, token, el)
  PROVE  StandsFor(kind, seen', token, el)
BY DEF SeenGrows, StandsFor

(* The containers the walk is in, and the place of what it emits next.     *)
LEMMA NextPlace ==
  ASSUME WalkTypeInv, NEW par, NEW pos, Nested(msg, par, pos), NEW at, FramesInv(par, pos, at)
  PROVE  /\ NextPar(msg, par)[Len(msg) + 1] = at[Len(frames)]
         /\ frames # <<>> => /\ NextPos(msg, par, pos)[Len(msg) + 1] = Inner.next
                             /\ Inner.node \in DOMAIN seen /\ seen[Inner.node] = msg[at[Len(frames)]].id
                             /\ at[Len(frames)] \in 1 .. Len(msg)
<1>1. Len(frames) \in Nat /\ Len(msg) \in Nat /\ (frames # <<>> => Len(frames) \in 1 .. Len(frames))
  BY DEF WalkTypeInv
<1>2. /\ at[Len(frames)] = Inside(msg, par, Len(msg))
      /\ at[Len(frames)] \in 0 .. Len(msg)
      /\ Len(frames) # 0 => at[Len(frames)] # 0
  BY <1>1 DEF FramesInv, Chain
<1>3. /\ NextPar(msg, par)[Len(msg) + 1] = Inside(msg, par, Len(msg))
      /\ NextPos(msg, par, pos)[Len(msg) + 1] = Turn(msg, par, pos, Len(msg))
  BY <1>1 DEF NextPar, NextPos
<1>4. ASSUME frames # <<>>
      PROVE  /\ Inner.next = Turn(msg, par, pos, Len(msg))
             /\ Inner.node \in DOMAIN seen /\ seen[Inner.node] = msg[at[Len(frames)]].id
  BY <1>1, <1>4 DEF FramesInv, Inner
<1> QED BY <1>1, <1>2, <1>3, <1>4

(* A token that gives an id gave it to a registered node.                  *)
LEMMA NodeOf ==
  ASSUME IdsInv, NEW k \in DOMAIN msg, Emits(msg[k])
  PROVE  \E n \in DOMAIN seen : seen[n] = msg[k].id /\ kind[n] = msg[k].kind
BY DEF IdsInv

(* What a token emitted stands for.                                        *)
EmitsFor(in, at, token) ==
  writes = 0 /\ ~threw' =>
    /\ msg = <<>> => StandsFor(kind, seen', token, Root)
    /\ \A n \in DOMAIN seen' :
         in # 0 /\ seen'[n] = msg[in].id =>
           IF token.t = "close" THEN at = Len(kids[n]) + 1
           ELSE at <= Len(kids[n]) /\ StandsFor(kind, seen', token, kids[n][at])

LEMMA ElementsExtended ==
  ASSUME IdsInv, SeenGrows, UNCHANGED <<kind, kids, writes>>, ~threw' => ~threw,
         NEW token, Grows(msg', msg, token),
         NEW par, NEW pos, Nested(msg, par, pos), ElementsInv(par, pos),
         NEW p, p = NextPar(msg, par), NEW q, q = NextPos(msg, par, pos),
         p[Len(msg) + 1] \in 0 .. Len(msg),
         EmitsFor(p[Len(msg) + 1], q[Len(msg) + 1], token)
  PROVE  ElementsInv(p, q)'
<1> DEFINE last == Len(msg) + 1
<1> SUFFICES ASSUME writes = 0, ~threw', ~threw
             PROVE  /\ msg' # <<>> => StandsFor(kind, seen', msg'[1], Root)
                    /\ \A k \in 1 .. Len(msg'), n \in DOMAIN seen' :
                         p[k] # 0 /\ seen'[n] = msg'[p[k]].id =>
                           IF msg'[k].t = "close" THEN q[k] = Len(kids[n]) + 1
                           ELSE q[k] <= Len(kids[n]) /\ StandsFor(kind, seen', msg'[k], kids[n][q[k]])
  BY DEF ElementsInv
<1>1. /\ Len(msg) \in Nat /\ Len(msg') = last /\ msg'[last] = token
      /\ \A k \in 1 .. Len(msg) : msg'[k] = msg[k]
      /\ msg = <<>> \/ 1 \in 1 .. Len(msg)
      /\ msg \in Seq(Token)
  BY DEF Grows
<1>2. /\ msg # <<>> => StandsFor(kind, seen, msg[1], Root)
      /\ \A k \in 1 .. Len(msg), n \in DOMAIN seen :
           par[k] # 0 /\ seen[n] = msg[par[k]].id =>
             IF msg[k].t = "close" THEN pos[k] = Len(kids[n]) + 1
             ELSE pos[k] <= Len(kids[n]) /\ StandsFor(kind, seen, msg[k], kids[n][pos[k]])
  BY DEF ElementsInv
<1>3. \A k \in 1 .. Len(msg) : /\ p[k] = par[k] /\ q[k] = pos[k]
                               /\ par[k] # 0 => par[k] \in 1 .. Len(msg) /\ msg[par[k]].t = "open"
  <2>1. \A k \in 1 .. Len(msg) : p[k] = par[k] /\ q[k] = pos[k]
    BY <1>1 DEF NextPar, NextPos
  <2>2. \A k \in 1 .. Len(msg) : par[k] # 0 => par[k] \in 1 .. Len(msg) /\ msg[par[k]].t = "open"
    BY <1>1, ParentOpens
  <2> QED BY <2>1, <2>2
<1>4. StandsFor(kind, seen', msg'[1], Root)
  <2>1. CASE msg = <<>>
    <3>1. StandsFor(kind, seen', token, Root)
      BY <2>1 DEF EmitsFor
    <3>2. msg'[1] = token
      BY <1>1, <2>1
    <3> QED BY <3>1, <3>2
  <2>2. CASE msg # <<>>
    <3>1. StandsFor(kind, seen', msg[1], Root)
      BY <1>2, <2>2, StandsForStays
    <3>2. msg'[1] = msg[1]
      BY <1>1, <2>2
    <3> QED BY <3>1, <3>2
  <2> QED BY <2>1, <2>2
<1>5. ASSUME NEW k \in 1 .. Len(msg'), NEW n \in DOMAIN seen',
             p[k] # 0, seen'[n] = msg'[p[k]].id
      PROVE  IF msg'[k].t = "close" THEN q[k] = Len(kids[n]) + 1
             ELSE q[k] <= Len(kids[n]) /\ StandsFor(kind, seen', msg'[k], kids[n][q[k]])
  <2>1. CASE k = last
    <3>1. p[k] \in 1 .. Len(msg)
      BY <1>5, <2>1
    <3>2. msg'[p[k]] = msg[p[k]] /\ msg'[k] = token
      BY <1>1, <2>1, <3>1
    <3>3. seen'[n] = msg[p[k]].id
      BY <1>5, <3>2
    <3>4. IF token.t = "close" THEN q[k] = Len(kids[n]) + 1
          ELSE q[k] <= Len(kids[n]) /\ StandsFor(kind, seen', token, kids[n][q[k]])
      BY <1>5, <2>1, <3>3 DEF EmitsFor
    <3> QED BY <3>2, <3>4
  <2>2. CASE k # last
    <3>1. k \in 1 .. Len(msg)
      BY <1>1, <2>2
    <3>2. /\ p[k] = par[k] /\ q[k] = pos[k] /\ msg'[k] = msg[k]
          /\ par[k] \in 1 .. Len(msg) /\ msg[par[k]].t = "open"
      BY <1>1, <1>3, <1>5, <3>1
    <3>3. msg'[p[k]] = msg[par[k]]
      BY <1>1, <3>2
    <3>4. PICK m \in DOMAIN seen : seen[m] = msg[par[k]].id
      <4>1. par[k] \in DOMAIN msg /\ Emits(msg[par[k]])
        BY <1>1, <3>2 DEF Emits
      <4> QED BY <4>1, NodeOf
    <3>5. m = n
      BY <1>5, <3>3, <3>4 DEF SeenGrows
    <3>6. IF msg[k].t = "close" THEN pos[k] = Len(kids[n]) + 1
          ELSE pos[k] <= Len(kids[n]) /\ StandsFor(kind, seen, msg[k], kids[n][pos[k]])
      BY <1>2, <3>1, <3>2, <3>4, <3>5
    <3>7. CASE msg[k].t = "close"
      BY <3>2, <3>6, <3>7
    <3>8. CASE msg[k].t # "close"
      <4>1. StandsFor(kind, seen', msg[k], kids[n][pos[k]])
        BY <3>6, <3>8, StandsForStays
      <4>2. q[k] <= Len(kids[n]) /\ StandsFor(kind, seen', msg'[k], kids[n][q[k]])
        BY <4>1, <3>2, <3>6, <3>8
      <4> QED BY <4>2, <3>2, <3>8
    <3> QED BY <3>7, <3>8
  <2> QED BY <2>1, <2>2
<1> QED BY <1>4, <1>5

(* A value is emitted: the walk is where it was.                           *)
LEMMA FramesPass ==
  ASSUME WalkTypeInv, SeenGrows, UNCHANGED <<kids, writes>>, HasNext, MovedOn(frames'),
         writes = 0 /\ frames # <<>> => Inner.next <= Len(kids[Inner.node]),
         NEW token, Grows(msg', msg, token), token.t \notin {"open", "close"},
         NEW par, NEW pos, Nested(msg, par, pos), NEW at, FramesInv(par, pos, at),
         NEW p, p = NextPar(msg, par), NEW q, q = NextPos(msg, par, pos), Nested(msg', p, q)
  PROVE  FramesInv(p, q, at)'
<1> DEFINE n == Len(frames)
           last == Len(msg) + 1
<1>1. /\ Len(msg) \in Nat /\ Len(msg') = last /\ msg'[last] = token
      /\ \A k \in 1 .. Len(msg) : msg'[k] = msg[k]
      /\ last \in 1 .. Len(msg') /\ Len(msg) \in 0 .. Len(msg) /\ Len(msg) \in 0 .. Len(msg')
  BY DEF Grows
<1>2. n \in Nat /\ Len(frames') = n
  BY DEF WalkTypeInv, MovedOn
<1>3. Chain(msg, par, Len(msg), n, at)
  BY DEF FramesInv
<1>4. Chain(msg', p, Len(msg), n, at)
  BY <1>1, <1>2, <1>3, ChainStays
<1>5. Chain(msg', p, last, n, at)
  BY <1>1, <1>2, <1>4, ChainPasses
<1>6. Turn(msg', p, q, last) = Turn(msg, par, pos, Len(msg)) + 1
  <2>1. Turn(msg', p, q, last) = q[last] + 1
    BY <1>1 DEF Turn
  <2>2. q[last] = Turn(msg, par, pos, Len(msg))
    BY <1>1 DEF NextPos
  <2> QED BY <2>1, <2>2
<1>7. \A j \in 1 .. n : at[j] \in 1 .. Len(msg)
  BY <1>1, <1>2, <1>3, ChainAt
<1>8. \A k \in 1 .. Len(msg) : q[k] = pos[k]
  BY <1>1 DEF NextPos
<1>9. ASSUME NEW j \in 1 .. n
      PROVE  /\ frames'[j].node \in DOMAIN seen' /\ seen'[frames'[j].node] = msg'[at[j]].id
             /\ frames'[j].next = IF j = n THEN Turn(msg', p, q, last) ELSE q[at[j + 1]] + 1
             /\ writes = 0 => /\ frames'[j].copy = kids[frames'[j].node]
                              /\ frames'[j].next <= Len(kids[frames'[j].node]) + 1
  <2>1. /\ frames[j].node \in DOMAIN seen /\ seen[frames[j].node] = msg[at[j]].id
        /\ frames[j].next = IF j = n THEN Turn(msg, par, pos, Len(msg)) ELSE pos[at[j + 1]] + 1
        /\ writes = 0 => /\ frames[j].copy = kids[frames[j].node]
                         /\ frames[j].next <= Len(kids[frames[j].node]) + 1
    BY DEF FramesInv
  <2>2. /\ frames'[j].node = frames[j].node /\ frames'[j].copy = frames[j].copy
        /\ frames'[j].next = IF j = n THEN frames[j].next + 1 ELSE frames[j].next
    BY DEF MovedOn
  <2>3. frames'[j].node \in DOMAIN seen' /\ seen'[frames'[j].node] = msg'[at[j]].id
    BY <1>1, <1>7, <2>1, <2>2 DEF SeenGrows
  <2>4. CASE j = n
    <3>1. frames # <<>> /\ Inner = frames[j]
      BY <1>2, <2>4 DEF Inner
    <3>2. frames[j] \in Frame
      BY <1>2 DEF WalkTypeInv
    <3>3. frames[j].next \in Nat
      BY <3>2 DEF Frame
    <3>4. frames'[j].next = Turn(msg', p, q, last)
      BY <1>6, <2>1, <2>2, <2>4
    <3>5. writes = 0 => /\ frames'[j].copy = kids[frames'[j].node]
                        /\ frames'[j].next <= Len(kids[frames'[j].node]) + 1
      <4>1. SUFFICES ASSUME writes = 0
                     PROVE  /\ frames'[j].copy = kids[frames'[j].node]
                            /\ frames'[j].next <= Len(kids[frames'[j].node]) + 1
        OBVIOUS
      <4>2. frames[j].next <= Len(kids[frames[j].node])
        BY <3>1, <4>1
      <4>3. frames[j].node \in Nodes
        BY <3>2 DEF Frame
      <4>4. frames'[j].next = frames[j].next + 1
        BY <2>2, <2>4
      <4>5. frames[j].next + 1 <= Len(kids[frames[j].node]) + 1
        BY <3>3, <4>2, <2>1, <4>1
      <4> QED BY <4>1, <4>4, <4>5, <2>1, <2>2
    <3> QED BY <2>3, <2>4, <3>4, <3>5
  <2>5. CASE j # n
    <3>1. j + 1 \in 1 .. n
      BY <1>2, <2>5
    <3>2. q[at[j + 1]] = pos[at[j + 1]]
      BY <3>1, <1>7, <1>8
    <3>3. frames'[j].next = frames[j].next
      BY <2>2, <2>5
    <3>4. frames'[j].next = q[at[j + 1]] + 1
      BY <2>1, <2>5, <3>2, <3>3
    <3> QED BY <2>1, <2>2, <2>3, <2>5, <3>3, <3>4
  <2> QED BY <2>4, <2>5
<1> QED BY <1>1, <1>2, <1>5, <1>9 DEF FramesInv

(* A container is entered.                                                 *)
LEMMA FramesEnter ==
  ASSUME WalkTypeInv, SeenGrows, UNCHANGED <<kids, writes>>, HasNext,
         NEW f, MovedOn(f), NEW node \in DOMAIN seen', kids[node] \in Seq(Elements),
         NEW fr, fr = [node |-> node, copy |-> kids[node], next |-> 1], frames' = Append(f, fr),
         NEW token, Grows(msg', msg, token), token.t = "open", token.id = seen'[node],
         writes = 0 /\ frames # <<>> => Inner.next <= Len(kids[Inner.node]),
         NEW par, NEW pos, Nested(msg, par, pos), NEW at, FramesInv(par, pos, at),
         NEW p, p = NextPar(msg, par), NEW q, q = NextPos(msg, par, pos), Nested(msg', p, q)
  PROVE  \E a : FramesInv(p, q, a)'
<1> DEFINE n == Len(frames)
           last == Len(msg) + 1
<1>1. /\ Len(msg) \in Nat /\ Len(msg') = last /\ msg'[last] = token
      /\ \A k \in 1 .. Len(msg) : msg'[k] = msg[k]
      /\ last \in 1 .. Len(msg') /\ Len(msg) \in 0 .. Len(msg) /\ Len(msg) \in 0 .. Len(msg')
  BY DEF Grows
<1>2. /\ n \in Nat /\ Len(frames') = n + 1
      /\ frames'[n + 1] = fr /\ \A j \in 1 .. n : frames'[j] = f[j]
  BY DEF WalkTypeInv, MovedOn
<1>3. Chain(msg, par, Len(msg), n, at)
  BY DEF FramesInv
<1>4. Chain(msg', p, Len(msg), n, at)
  BY <1>1, <1>2, <1>3, ChainStays
<1> PICK a : a = Deeper(at, n, last)
  OBVIOUS
<1>5. Chain(msg', p, last, n + 1, a)
  BY <1>1, <1>2, <1>4, ChainEnters
<1>6. /\ Turn(msg', p, q, last) = 1
      /\ q[last] = Turn(msg, par, pos, Len(msg))
  BY <1>1 DEF Turn, NextPos
<1>7. \A j \in 1 .. n : at[j] \in 1 .. Len(msg)
  BY <1>1, <1>2, <1>3, ChainAt
<1>8. \A k \in 1 .. Len(msg) : q[k] = pos[k]
  BY <1>1 DEF NextPos
<1>9. (\A j \in 0 .. n : a[j] = at[j]) /\ a[n + 1] = last
  BY <1>2 DEF Deeper
<1>10. ASSUME NEW j \in 1 .. n + 1
       PROVE  /\ frames'[j].node \in DOMAIN seen' /\ seen'[frames'[j].node] = msg'[a[j]].id
              /\ frames'[j].next = IF j = n + 1 THEN Turn(msg', p, q, last) ELSE q[a[j + 1]] + 1
              /\ writes = 0 => /\ frames'[j].copy = kids[frames'[j].node]
                               /\ frames'[j].next <= Len(kids[frames'[j].node]) + 1
  <2>1. CASE j = n + 1
    <3>1. /\ frames'[j].node = node /\ frames'[j].next = 1 /\ frames'[j].copy = kids[node]
          /\ a[j] = last
      BY <1>2, <1>9, <2>1
    <3>2. 1 <= Len(kids[node]) + 1
      BY DEF SeenGrows
    <3> QED BY <1>1, <1>6, <2>1, <3>1, <3>2
  <2>2. CASE j # n + 1
    <3>0. j \in 1 .. n /\ j \in 0 .. n
      BY <1>2, <2>2
    <3>1. /\ frames[j].node \in DOMAIN seen /\ seen[frames[j].node] = msg[at[j]].id
          /\ frames[j].next = IF j = n THEN Turn(msg, par, pos, Len(msg)) ELSE pos[at[j + 1]] + 1
          /\ writes = 0 => /\ frames[j].copy = kids[frames[j].node]
                           /\ frames[j].next <= Len(kids[frames[j].node]) + 1
      BY <3>0 DEF FramesInv
    <3>2. /\ frames'[j].node = frames[j].node /\ frames'[j].copy = frames[j].copy
          /\ frames'[j].next = IF j = n THEN frames[j].next + 1 ELSE frames[j].next
      BY <3>0, <1>2 DEF MovedOn
    <3>3. frames'[j].node \in DOMAIN seen' /\ seen'[frames'[j].node] = msg'[a[j]].id
      <4>1. a[j] = at[j] /\ msg'[at[j]] = msg[at[j]]
        BY <3>0, <1>1, <1>7, <1>9
      <4>2. frames[j].node \in DOMAIN seen' /\ seen'[frames[j].node] = seen[frames[j].node]
        BY <3>1 DEF SeenGrows
      <4> QED BY <3>1, <3>2, <4>1, <4>2
    <3>4. CASE j = n
      <4>1. frames # <<>> /\ Inner = frames[j]
        BY <1>2, <3>0, <3>4 DEF Inner
      <4>2. frames[j] \in Frame
        BY <1>2, <3>0 DEF WalkTypeInv
      <4>3. frames[j].next \in Nat
        BY <4>2 DEF Frame
      <4>4. frames'[j].next = q[a[j + 1]] + 1
        BY <1>6, <1>9, <3>1, <3>2, <3>4
      <4>5. ASSUME writes = 0
            PROVE  /\ frames'[j].copy = kids[frames'[j].node]
                   /\ frames'[j].next <= Len(kids[frames'[j].node]) + 1
        <5>1. frames[j].next <= Len(kids[frames[j].node])
          BY <4>1, <4>5
        <5>2. frames'[j].next = frames[j].next + 1
          BY <3>2, <3>4
        <5>3. frames[j].node \in Nodes
          BY <4>2 DEF Frame
        <5>4. kids[frames[j].node] = frames[j].copy /\ frames[j].copy \in Seq(Elements)
          BY <4>2, <4>5, <3>1 DEF Frame
        <5>5. frames[j].next + 1 <= Len(kids[frames[j].node]) + 1
          BY <4>3, <5>1, <5>4
        <5> QED BY <3>1, <3>2, <4>5, <5>2, <5>5
      <4> QED BY <2>2, <3>3, <4>4, <4>5
    <3>5. CASE j # n
      <4>1. j + 1 \in 1 .. n /\ j + 1 \in 0 .. n
        BY <1>2, <3>0, <3>5
      <4>2. q[a[j + 1]] = pos[at[j + 1]]
        BY <4>1, <1>7, <1>8, <1>9
      <4>3. frames'[j].next = frames[j].next
        BY <3>2, <3>5
      <4> QED BY <2>2, <3>1, <3>2, <3>3, <3>5, <4>2, <4>3
    <3> QED BY <3>4, <3>5
  <2> QED BY <2>1, <2>2
<1>11. FramesInv(p, q, a)'
  BY <1>1, <1>2, <1>5, <1>10 DEF FramesInv
<1> QED BY <1>11

(* A container is left.                                                    *)
LEMMA FramesLeave ==
  ASSUME WalkTypeInv, SeenGrows, UNCHANGED <<kids, writes>>, frames # <<>>,
         frames' = SubSeq(frames, 1, Len(frames) - 1),
         NEW token, Grows(msg', msg, token), token.t = "close",
         NEW par, NEW pos, Nested(msg, par, pos), NEW at, FramesInv(par, pos, at),
         NEW p, p = NextPar(msg, par), NEW q, q = NextPos(msg, par, pos), Nested(msg', p, q)
  PROVE  \E a : FramesInv(p, q, a)'
<1> DEFINE n == Len(frames)
           last == Len(msg) + 1
<1>1. /\ Len(msg) \in Nat /\ Len(msg') = last /\ msg'[last] = token
      /\ \A k \in 1 .. Len(msg) : msg'[k] = msg[k]
      /\ last \in 1 .. Len(msg') /\ Len(msg) \in 0 .. Len(msg) /\ Len(msg) \in 0 .. Len(msg')
  BY DEF Grows
<1>2. /\ n \in Nat \ {0} /\ Len(frames') = n - 1
      /\ \A j \in 1 .. n - 1 : frames'[j] = frames[j]
  <2>1. CutOff(frames', frames, Frame)
    BY CutsOff DEF WalkTypeInv
  <2> QED BY <2>1 DEF CutOff
<1>3. Chain(msg, par, Len(msg), n, at)
  BY DEF FramesInv
<1>4. Chain(msg', p, Len(msg), n, at)
  BY <1>1, <1>2, <1>3, ChainStays
<1> PICK a : a = Outer(at, n)
  OBVIOUS
<1>5. Chain(msg', p, last, n - 1, a)
  BY <1>1, <1>2, <1>4, ChainLeaves
<1>6. \A j \in 1 .. n : at[j] \in 1 .. Len(msg)
  BY <1>1, <1>2, <1>3, ChainAt
<1>7. \A k \in 1 .. Len(msg) : q[k] = pos[k]
  BY <1>1 DEF NextPos
<1>8. \A j \in 0 .. n - 1 : a[j] = at[j]
  BY <1>2 DEF Outer
<1>9. Turn(msg', p, q, last) = pos[at[n]] + 1
  <2>1. Turn(msg', p, q, last) = q[p[last]] + 1
    BY <1>1 DEF Turn
  <2>2. p[last] = at[n]
    BY <1>1, <1>3 DEF NextPar, Chain
  <2>3. q[at[n]] = pos[at[n]]
    BY <1>2, <1>6, <1>7
  <2> QED BY <2>1, <2>2, <2>3
<1>10. ASSUME NEW j \in 1 .. n - 1
       PROVE  /\ frames'[j].node \in DOMAIN seen' /\ seen'[frames'[j].node] = msg'[a[j]].id
              /\ frames'[j].next = IF j = n - 1 THEN Turn(msg', p, q, last) ELSE q[a[j + 1]] + 1
              /\ writes = 0 => /\ frames'[j].copy = kids[frames'[j].node]
                               /\ frames'[j].next <= Len(kids[frames'[j].node]) + 1
  <2>1. /\ j \in 1 .. n /\ j # n /\ j \in 0 .. n - 1 /\ j + 1 \in 1 .. n
        /\ j # n - 1 => j + 1 \in 0 .. n - 1
    BY <1>2
  <2>2. /\ frames[j].node \in DOMAIN seen /\ seen[frames[j].node] = msg[at[j]].id
        /\ frames[j].next = pos[at[j + 1]] + 1
        /\ writes = 0 => /\ frames[j].copy = kids[frames[j].node]
                         /\ frames[j].next <= Len(kids[frames[j].node]) + 1
    BY <2>1 DEF FramesInv
  <2>3. frames'[j] = frames[j]
    BY <1>2
  <2>4. a[j] = at[j] /\ msg'[at[j]] = msg[at[j]]
    BY <2>1, <1>1, <1>6, <1>8
  <2>5. frames[j].node \in DOMAIN seen' /\ seen'[frames[j].node] = seen[frames[j].node]
    BY <2>2 DEF SeenGrows
  <2>6. frames'[j].next = IF j = n - 1 THEN Turn(msg', p, q, last) ELSE q[a[j + 1]] + 1
    <3>1. CASE j = n - 1
      <4>1. at[j + 1] = at[n]
        BY <1>2, <3>1
      <4> QED BY <1>9, <2>2, <2>3, <3>1, <4>1
    <3>2. CASE j # n - 1
      <4>1. a[j + 1] = at[j + 1] /\ q[at[j + 1]] = pos[at[j + 1]]
        BY <2>1, <3>2, <1>6, <1>7, <1>8
      <4> QED BY <2>2, <2>3, <3>2, <4>1
    <3> QED BY <3>1, <3>2
  <2> QED BY <2>2, <2>3, <2>4, <2>5, <2>6
<1>11. FramesInv(p, q, a)'
  <2>1. Chain(msg', p, Len(msg'), Len(frames'), a)
    BY <1>1, <1>2, <1>5
  <2> QED BY ZenonT(60), <1>1, <1>2, <1>10, <2>1 DEF FramesInv
<1> QED BY <1>11

(* Nothing is registered.                                                  *)
LEMMA IdsPass ==
  ASSUME IdsInv, UNCHANGED <<kind, seen>>,
         NEW token, Grows(msg', msg, token), ~Emits(token)
  PROVE  IdsInv'
<1>1. /\ DOMAIN msg = 1 .. Len(msg) /\ DOMAIN msg' = 1 .. Len(msg) + 1 /\ Len(msg) \in Nat
      /\ msg'[Len(msg) + 1] = token /\ \A k \in 1 .. Len(msg) : msg'[k] = msg[k]
  BY DEF Grows
<1>2. \A k \in DOMAIN msg' : Emits(msg'[k]) => k \in DOMAIN msg /\ msg'[k] = msg[k]
  BY <1>1
<1>3. \A k \in DOMAIN msg : k \in DOMAIN msg' /\ msg'[k] = msg[k]
  BY <1>1
<1>4. \A m, n \in DOMAIN seen' : seen'[m] = seen'[n] => m = n
  BY DEF IdsInv
<1>5. \A n \in DOMAIN seen' : \E k \in DOMAIN msg' : Emits(msg'[k]) /\ msg'[k].id = seen'[n]
  BY <1>3 DEF IdsInv
<1>6. \A k \in DOMAIN msg' : Emits(msg'[k]) =>
        \E n \in DOMAIN seen' : /\ seen'[n] = msg'[k].id /\ kind'[n] = msg'[k].kind
                                /\ msg'[k].t = "bytes" <=> kind'[n] = "bytes"
  BY <1>2 DEF IdsInv
<1>7. \A j, k \in DOMAIN msg' :
        Emits(msg'[j]) /\ Emits(msg'[k]) /\ msg'[j].id = msg'[k].id => j = k
  BY <1>2 DEF IdsInv
<1> QED BY <1>4, <1>5, <1>6, <1>7 DEF IdsInv, Emits

(* A node is registered, under an id no other has.                         *)
LEMMA Registers ==
  ASSUME WalkTypeInv, IdsInv, NEW node \in Nodes, node \notin DOMAIN seen, Register(node)
  PROVE  SeenGrows /\ seen'[node] = nextId /\ DOMAIN seen' = DOMAIN seen \cup {node}
<1>1. /\ DOMAIN seen' = DOMAIN seen \cup {node}
      /\ seen'[node] = nextId
      /\ \A n \in DOMAIN seen : seen'[n] = seen[n]
  BY DEF Register
<1>2. \A n \in DOMAIN seen : seen[n] # nextId
  BY DEF WalkTypeInv
<1>3. \A m, n \in DOMAIN seen' : seen'[m] = seen'[n] => m = n
  BY <1>1, <1>2 DEF IdsInv
<1> QED BY <1>1, <1>3 DEF SeenGrows, WalkTypeInv

LEMMA IdsEmitted ==
  ASSUME WalkTypeInv, IdsInv, NEW node \in Nodes, node \notin DOMAIN seen, Register(node),
         UNCHANGED kind,
         NEW token, Grows(msg', msg, token), Emits(token), token.id = nextId,
         token.kind = kind[node], token.t = "bytes" <=> kind[node] = "bytes"
  PROVE  IdsInv'
<1>1. /\ DOMAIN msg = 1 .. Len(msg) /\ DOMAIN msg' = 1 .. Len(msg) + 1 /\ Len(msg) \in Nat
      /\ msg'[Len(msg) + 1] = token /\ \A k \in 1 .. Len(msg) : msg'[k] = msg[k]
  BY DEF Grows
<1>2. PICK last \in DOMAIN msg' : msg'[last] = token /\ last \notin DOMAIN msg
      /\ \A k \in DOMAIN msg' : k # last => k \in DOMAIN msg /\ msg'[k] = msg[k]
  BY <1>1
<1>3. \A k \in DOMAIN msg : k \in DOMAIN msg' /\ msg'[k] = msg[k]
  BY <1>1
<1>4. SeenGrows /\ seen'[node] = nextId /\ DOMAIN seen' = DOMAIN seen \cup {node}
  BY Registers
<1>5. \A k \in DOMAIN msg : Emits(msg[k]) => msg[k].id # nextId
  <2> SUFFICES ASSUME NEW k \in DOMAIN msg, Emits(msg[k])
               PROVE  msg[k].id # nextId
    OBVIOUS
  <2>1. PICK n \in DOMAIN seen : seen[n] = msg[k].id
    BY NodeOf
  <2>2. seen[n] \in 0 .. nextId - 1 /\ nextId \in Nat
    BY <2>1 DEF WalkTypeInv
  <2> QED BY <2>1, <2>2
<1>6. \A n \in DOMAIN seen' : \E k \in DOMAIN msg' : Emits(msg'[k]) /\ msg'[k].id = seen'[n]
  <2> SUFFICES ASSUME NEW n \in DOMAIN seen'
               PROVE  \E k \in DOMAIN msg' : Emits(msg'[k]) /\ msg'[k].id = seen'[n]
    OBVIOUS
  <2>1. CASE n = node
    BY <2>1, <1>2, <1>4
  <2>2. CASE n # node
    <3>1. n \in DOMAIN seen /\ seen'[n] = seen[n]
      BY <2>2, <1>4 DEF SeenGrows
    <3>2. PICK k \in DOMAIN msg : Emits(msg[k]) /\ msg[k].id = seen[n]
      BY <3>1 DEF IdsInv
    <3> QED BY <3>1, <3>2, <1>3
  <2> QED BY <2>1, <2>2
<1>7. ASSUME NEW k \in DOMAIN msg', Emits(msg'[k])
      PROVE  \E n \in DOMAIN seen' : /\ seen'[n] = msg'[k].id /\ kind'[n] = msg'[k].kind
                                     /\ msg'[k].t = "bytes" <=> kind'[n] = "bytes"
  <2>1. CASE k = last
    <3>1. node \in DOMAIN seen' /\ seen'[node] = msg'[k].id /\ kind'[node] = msg'[k].kind
      BY <2>1, <1>2, <1>4
    <3>2. msg'[k].t = "bytes" <=> kind'[node] = "bytes"
      BY <2>1, <1>2
    <3> QED BY <3>1, <3>2
  <2>2. CASE k # last
    <3>1. k \in DOMAIN msg /\ msg'[k] = msg[k]
      BY <2>2, <1>2
    <3>2. PICK n \in DOMAIN seen : /\ seen[n] = msg[k].id /\ kind[n] = msg[k].kind
                                   /\ msg[k].t = "bytes" <=> kind[n] = "bytes"
      BY <1>7, <3>1 DEF IdsInv
    <3>3. n \in DOMAIN seen' /\ seen'[n] = seen[n]
      BY <1>4 DEF SeenGrows
    <3> QED BY <3>1, <3>2, <3>3
  <2> QED BY <2>1, <2>2
<1>8. \A j, k \in DOMAIN msg' :
        Emits(msg'[j]) /\ Emits(msg'[k]) /\ msg'[j].id = msg'[k].id => j = k
  <2> SUFFICES ASSUME NEW j \in DOMAIN msg', NEW k \in DOMAIN msg',
                      Emits(msg'[j]), Emits(msg'[k]), msg'[j].id = msg'[k].id
               PROVE  j = k
    OBVIOUS
  <2>1. CASE j # last /\ k # last
    BY <2>1, <1>2 DEF IdsInv
  <2>2. CASE j = last /\ k # last
    BY <2>2, <1>2, <1>5
  <2>3. CASE j # last /\ k = last
    BY <2>3, <1>2, <1>5
  <2> QED BY <2>1, <2>2, <2>3
<1>9. \A m, n \in DOMAIN seen' : seen'[m] = seen'[n] => m = n
  BY <1>4 DEF SeenGrows
<1> QED BY <1>6, <1>7, <1>8, <1>9 DEF IdsInv, Emits

(* A Ref that is emitted is to a registered node.                          *)
LEMMA RefsStay ==
  ASSUME NoDanglingRef, IdsInv, NEW token, Grows(msg', msg, token),
         token.t = "ref" => \E n \in DOMAIN seen : seen[n] = token.id
  PROVE  NoDanglingRef'
<1>1. /\ DOMAIN msg = 1 .. Len(msg) /\ DOMAIN msg' = 1 .. Len(msg) + 1 /\ Len(msg) \in Nat
      /\ msg'[Len(msg) + 1] = token /\ \A k \in 1 .. Len(msg) : msg'[k] = msg[k]
  BY DEF Grows
<1> SUFFICES ASSUME NEW k \in DOMAIN msg', msg'[k].t = "ref"
             PROVE  \E j \in 1 .. k - 1 : msg'[j].t \in {"open", "bytes"} /\ msg'[j].id = msg'[k].id
  BY DEF NoDanglingRef
<1>2. CASE k = Len(msg) + 1
  <2>1. PICK n \in DOMAIN seen : seen[n] = token.id
    BY <1>1, <1>2
  <2>2. PICK j \in DOMAIN msg : Emits(msg[j]) /\ msg[j].id = seen[n]
    BY DEF IdsInv
  <2>3. j \in 1 .. k - 1 /\ msg'[j] = msg[j]
    BY <1>1, <1>2
  <2> QED BY <1>1, <1>2, <2>1, <2>2, <2>3 DEF Emits
<1>3. CASE k # Len(msg) + 1
  <2>1. k \in DOMAIN msg /\ msg'[k] = msg[k]
    BY <1>1, <1>3
  <2>2. PICK j \in 1 .. k - 1 : msg[j].t \in {"open", "bytes"} /\ msg[j].id = msg[k].id
    BY <2>1 DEF NoDanglingRef
  <2>3. msg'[j] = msg[j]
    BY <1>1, <2>1
  <2> QED BY <2>1, <2>2, <2>3
<1> QED BY <1>2, <1>3

(* Of a graph nobody changed, the current element is that of the container *)
(* whose turn it is.                                                       *)
LEMMA CurrentIs ==
  ASSUME SourceInv, WalkTypeInv, NEW par, NEW pos, NEW at, FramesInv(par, pos, at),
         HasNext, frames # <<>>, writes = 0
  PROVE  /\ Inner.next \in 1 .. Len(kids[Inner.node])
         /\ Current = kids[Inner.node][Inner.next]
<1>1. Inner \in Frame /\ Len(frames) \in 1 .. Len(frames)
  BY DEF WalkTypeInv, Inner
<1>2. /\ Inner.node \in Nodes /\ Inner.next \in Nat \ {0}
      /\ kids[Inner.node] \in Seq(Elements)
  BY <1>1 DEF Frame, SourceInv
<1>3. Inner.copy = kids[Inner.node]
  BY <1>1 DEF FramesInv, Inner
<1>4. Items(Inner) = kids[Inner.node] /\ Limit(Inner) = Len(kids[Inner.node])
  BY <1>3 DEF Items, Limit
<1>5. Inner.next <= Len(kids[Inner.node])
  BY <1>4 DEF HasNext
<1>6. Inner.next \in DOMAIN kids[Inner.node]
  BY <1>2, <1>5
<1>7. ElementAt(Inner) = kids[Inner.node][Inner.next]
  BY <1>4, <1>6 DEF ElementAt
<1>8. Current = ElementAt(Inner)
  BY DEF Current, AtRoot
<1> QED BY <1>2, <1>6, <1>7, <1>8

(* What is emitted for the current element stands for it.                  *)
LEMMA EmitsCurrent ==
  ASSUME SourceInv, WalkTypeInv, SeenGrows, HasNext,
         NEW token, token.t # "close",
         writes = 0 /\ ~threw' => StandsFor(kind, seen', token, Current),
         NEW par, NEW pos, Nested(msg, par, pos), NEW at, FramesInv(par, pos, at),
         NEW p, p = NextPar(msg, par), NEW q, q = NextPos(msg, par, pos)
  PROVE  EmitsFor(p[Len(msg) + 1], q[Len(msg) + 1], token)
<1> DEFINE last == Len(msg) + 1
<1>1. p[last] = at[Len(frames)]
  BY NextPlace
<1>2. ASSUME frames # <<>>
      PROVE  /\ q[last] = Inner.next
             /\ Inner.node \in DOMAIN seen /\ seen[Inner.node] = msg[at[Len(frames)]].id
             /\ at[Len(frames)] \in 1 .. Len(msg)
  BY <1>2, NextPlace
<1>3. frames = <<>> => at[Len(frames)] = 0
  BY DEF FramesInv, Chain
<1> SUFFICES ASSUME writes = 0, ~threw'
             PROVE  /\ msg = <<>> => StandsFor(kind, seen', token, Root)
                    /\ \A n \in DOMAIN seen' :
                         p[last] # 0 /\ seen'[n] = msg[p[last]].id =>
                           q[last] <= Len(kids[n]) /\ StandsFor(kind, seen', token, kids[n][q[last]])
  BY DEF EmitsFor
<1>4. StandsFor(kind, seen', token, Current)
  OBVIOUS
<1>5. ASSUME msg = <<>> PROVE StandsFor(kind, seen', token, Root)
  <2>1. frames = <<>>
    BY <1>2, <1>5
  <2>2. Current = Root
    BY <1>5, <2>1 DEF Current, AtRoot
  <2> QED BY <1>4, <2>2
<1>6. ASSUME NEW n \in DOMAIN seen', p[last] # 0, seen'[n] = msg[p[last]].id
      PROVE  q[last] <= Len(kids[n]) /\ StandsFor(kind, seen', token, kids[n][q[last]])
  <2>1. frames # <<>>
    BY <1>1, <1>3, <1>6
  <2>2. n = Inner.node
    BY <1>1, <1>2, <1>6, <2>1 DEF SeenGrows
  <2>3. Inner.next \in 1 .. Len(kids[Inner.node]) /\ Current = kids[Inner.node][Inner.next]
    BY <2>1, CurrentIs
  <2> QED BY <1>2, <1>4, <2>1, <2>2, <2>3
<1> QED BY <1>5, <1>6

(* A value is emitted for the current element.                             *)
LEMMA Passes ==
  ASSUME SourceInv, WalkTypeInv, IdsInv, SeenGrows, UNCHANGED <<kind, kids, writes>>,
         ~threw' => ~threw, HasNext, MovedOn(frames'),
         NEW token, Grows(msg', msg, token), token.t \notin {"open", "close"},
         writes = 0 /\ ~threw' => StandsFor(kind, seen', token, Current),
         NEW par, NEW pos, WalkInv(par, pos)
  PROVE  \E p, q : WalkInv(p, q)'
<1>1. Nested(msg, par, pos) /\ ElementsInv(par, pos)
  BY DEF WalkInv
<1>2. PICK at : FramesInv(par, pos, at)
  BY DEF WalkInv
<1>3. PICK p : p = NextPar(msg, par)
  OBVIOUS
<1>4. PICK q : q = NextPos(msg, par, pos)
  OBVIOUS
<1>5. Goes(msg, par, token)
  <2>1. IF frames = <<>> THEN msg = <<>> /\ token.t # "close" ELSE TRUE
    BY DEF HasNext, AtRoot
  <2> QED BY <1>2, <2>1, WalkGoes
<1>6. Nested(msg', p, q)
  BY <1>1, <1>3, <1>4, <1>5, PlacesExtended
<1>7. writes = 0 /\ frames # <<>> => Inner.next <= Len(kids[Inner.node])
  <2> SUFFICES ASSUME writes = 0, frames # <<>>
               PROVE  Inner.next <= Len(kids[Inner.node])
    OBVIOUS
  <2>1. Inner.next \in 1 .. Len(kids[Inner.node])
    BY <1>2, CurrentIs
  <2> QED BY <2>1
<1>8. FramesInv(p, q, at)'
  BY <1>1, <1>2, <1>3, <1>4, <1>6, <1>7, FramesPass
<1>9. EmitsFor(p[Len(msg) + 1], q[Len(msg) + 1], token)
  BY <1>1, <1>2, <1>3, <1>4, EmitsCurrent
<1>10. p[Len(msg) + 1] \in 0 .. Len(msg)
  <2>1. p[Len(msg) + 1] = at[Len(frames)]
    BY <1>1, <1>2, <1>3, NextPlace
  <2>2. Len(frames) \in Nat
    BY DEF WalkTypeInv
  <2> QED BY <1>2, <2>1, <2>2 DEF FramesInv, Chain
<1>11. ElementsInv(p, q)'
  BY <1>1, <1>3, <1>4, <1>9, <1>10, ElementsExtended
<1>12. WalkInv(p, q)'
  BY <1>6, <1>8, <1>11 DEF WalkInv
<1> QED BY <1>12

(* A container is entered for the current element.                         *)
LEMMA Enters ==
  ASSUME SourceInv, WalkTypeInv, IdsInv, SeenGrows, UNCHANGED <<kind, kids, writes>>,
         ~threw' => ~threw, HasNext,
         NEW f, MovedOn(f), NEW node \in DOMAIN seen', kids[node] \in Seq(Elements),
         NEW fr, fr = [node |-> node, copy |-> kids[node], next |-> 1], frames' = Append(f, fr),
         NEW token, Grows(msg', msg, token), token.t = "open", token.id = seen'[node],
         writes = 0 /\ ~threw' => StandsFor(kind, seen', token, Current),
         NEW par, NEW pos, WalkInv(par, pos)
  PROVE  \E p, q : WalkInv(p, q)'
<1>1. Nested(msg, par, pos) /\ ElementsInv(par, pos)
  BY DEF WalkInv
<1>2. PICK at : FramesInv(par, pos, at)
  BY DEF WalkInv
<1>3. PICK p : p = NextPar(msg, par)
  OBVIOUS
<1>4. PICK q : q = NextPos(msg, par, pos)
  OBVIOUS
<1>5. Goes(msg, par, token)
  <2>1. IF frames = <<>> THEN msg = <<>> /\ token.t # "close" ELSE TRUE
    BY DEF HasNext, AtRoot
  <2> QED BY <1>2, <2>1, WalkGoes
<1>6. Nested(msg', p, q)
  BY <1>1, <1>3, <1>4, <1>5, PlacesExtended
<1>7. writes = 0 /\ frames # <<>> => Inner.next <= Len(kids[Inner.node])
  <2> SUFFICES ASSUME writes = 0, frames # <<>>
               PROVE  Inner.next <= Len(kids[Inner.node])
    OBVIOUS
  <2>1. Inner.next \in 1 .. Len(kids[Inner.node])
    BY <1>2, CurrentIs
  <2> QED BY <2>1
<1>8. PICK a : FramesInv(p, q, a)'
  BY <1>1, <1>2, <1>3, <1>4, <1>6, <1>7, FramesEnter
<1>9. EmitsFor(p[Len(msg) + 1], q[Len(msg) + 1], token)
  <2>1. token.t # "close"
    OBVIOUS
  <2> QED BY <1>1, <1>2, <1>3, <1>4, <2>1, EmitsCurrent
<1>10. p[Len(msg) + 1] \in 0 .. Len(msg)
  <2>1. p[Len(msg) + 1] = at[Len(frames)]
    BY <1>1, <1>2, <1>3, NextPlace
  <2>2. Len(frames) \in Nat
    BY DEF WalkTypeInv
  <2> QED BY <1>2, <2>1, <2>2 DEF FramesInv, Chain
<1>11. ElementsInv(p, q)'
  BY <1>1, <1>3, <1>4, <1>9, <1>10, ElementsExtended
<1>12. WalkInv(p, q)'
  BY <1>6, <1>8, <1>11 DEF WalkInv
<1> QED BY <1>12

(* A container is left: all of its elements were emitted.                  *)
LEMMA Leaves ==
  ASSUME SourceInv, WalkTypeInv, IdsInv, UNCHANGED <<kind, kids, writes, seen, threw>>,
         frames # <<>>, ~HasNext, frames' = SubSeq(frames, 1, Len(frames) - 1),
         NEW token, Grows(msg', msg, token), token.t = "close",
         NEW par, NEW pos, WalkInv(par, pos)
  PROVE  \E p, q : WalkInv(p, q)'
<1>0. SeenGrows
  BY DEF SeenGrows, IdsInv, WalkTypeInv
<1>1. Nested(msg, par, pos) /\ ElementsInv(par, pos)
  BY DEF WalkInv
<1>2. PICK at : FramesInv(par, pos, at)
  BY DEF WalkInv
<1>3. PICK p : p = NextPar(msg, par)
  OBVIOUS
<1>4. PICK q : q = NextPos(msg, par, pos)
  OBVIOUS
<1>5. Goes(msg, par, token)
  BY <1>2, WalkGoes
<1>6. Nested(msg', p, q)
  BY <1>1, <1>3, <1>4, <1>5, PlacesExtended
<1>7. PICK a : FramesInv(p, q, a)'
  BY <1>0, <1>1, <1>2, <1>3, <1>4, <1>6, FramesLeave
<1>8. p[Len(msg) + 1] = at[Len(frames)]
  BY <1>1, <1>2, <1>3, NextPlace
<1>9. /\ q[Len(msg) + 1] = Inner.next
      /\ Inner.node \in DOMAIN seen /\ seen[Inner.node] = msg[at[Len(frames)]].id
      /\ at[Len(frames)] \in 1 .. Len(msg)
  BY <1>1, <1>2, <1>4, NextPlace
<1>10. EmitsFor(p[Len(msg) + 1], q[Len(msg) + 1], token)
  <2> SUFFICES ASSUME writes = 0, ~threw', msg # <<>>,
                      NEW n \in DOMAIN seen', seen'[n] = msg[p[Len(msg) + 1]].id
               PROVE  q[Len(msg) + 1] = Len(kids[n]) + 1
    BY <1>9 DEF EmitsFor, WalkTypeInv
  <2>1. n = Inner.node
    BY <1>8, <1>9 DEF IdsInv
  <2>2. Inner \in Frame /\ Len(frames) \in 1 .. Len(frames)
    BY DEF WalkTypeInv, Inner
  <2>3. /\ Inner.next \in Nat /\ Inner.node \in Nodes
        /\ kids[Inner.node] \in Seq(Elements)
    BY <2>2 DEF Frame, SourceInv
  <2>4. Inner.copy = kids[Inner.node] /\ Inner.next <= Len(kids[Inner.node]) + 1
    BY <1>2, <2>2 DEF FramesInv, Inner
  <2>5. Limit(Inner) = Len(kids[Inner.node])
    BY <2>4 DEF Limit
  <2>6. ~(Inner.next <= Len(kids[Inner.node]))
    BY <2>5 DEF HasNext
  <2>7. Inner.next = Len(kids[Inner.node]) + 1
    BY <2>3, <2>4, <2>6
  <2> QED BY <1>9, <2>1, <2>7
<1>11. p[Len(msg) + 1] \in 0 .. Len(msg)
  BY <1>8, <1>9
<1>12. ElementsInv(p, q)'
  BY <1>0, <1>1, <1>3, <1>4, <1>10, <1>11, ElementsExtended
<1>13. WalkInv(p, q)'
  BY <1>6, <1>7, <1>12 DEF WalkInv
<1> QED BY <1>13

-----------------------------------------------------------------------------
(* What holds of the source, the walk and the data.                        *)
EmittedInv ==
  /\ SourceInv /\ WalkTypeInv /\ IdsInv /\ NoDanglingRef
  /\ \E par, pos : WalkInv(par, pos)

(* Before anything is emitted or rebuilt there is nothing to say of it.    *)
WalkIdle == frames = <<>> /\ seen = <<>> /\ nextId = 0 /\ threw = FALSE /\ msg = <<>>

RebuildIdle ==
  /\ read = 0 /\ objects = <<>> /\ built = <<>> /\ filling = <<>>
  /\ early = {} /\ dropped = {} /\ result = Prim

LEMMA IdleWalk ==
  ASSUME SourceInv, WalkIdle
  PROVE  EmittedInv
<1>1. Len(msg) = 0 /\ 1 .. 0 = {} /\ DOMAIN msg = {} /\ DOMAIN seen = {} /\ Len(frames) = 0
  BY DEF WalkIdle
<1>2. WalkTypeInv
  <2>1. frames \in Seq(Frame) /\ msg \in Seq(Token) /\ nextId \in Nat
    BY DEF WalkIdle
  <2>2. threw \in BOOLEAN
    BY DEF WalkIdle
  <2> QED BY <1>1, <2>1, <2>2 DEF WalkTypeInv
<1>3. IdsInv /\ NoDanglingRef
  BY <1>1 DEF IdsInv, NoDanglingRef
<1>4. \E par, pos : WalkInv(par, pos)
  <2>1. PICK places : places = [k \in 1 .. 0 |-> 1]
    OBVIOUS
  <2>2. Nested(msg, places, places)
    <3>1. places \in [1 .. 0 -> Nat] /\ places \in [1 .. 0 -> Nat \ {0}]
      BY <2>1
    <3> QED BY <1>1, <3>1 DEF Nested
  <2>3. ElementsInv(places, places)
    BY <1>1 DEF WalkIdle, ElementsInv
  <2>4. PICK at : at = [j \in 0 .. 0 |-> 0]
    OBVIOUS
  <2>5. Chain(msg, places, 0, 0, at)
    BY <1>1, <2>4 DEF Chain, Inside
  <2>6. FramesInv(places, places, at)
    BY <1>1, <2>5 DEF FramesInv
  <2> QED BY <2>2, <2>3, <2>6 DEF WalkInv
<1> QED BY <1>2, <1>3, <1>4 DEF EmittedInv

LEMMA IdleRebuild ==
  ASSUME RebuildIdle, EmittedInv, PhaseInv
  PROVE  MarshalInv
<1>0. msg \in Seq(Token)
  BY DEF EmittedInv, WalkTypeInv
<1>1. /\ Len(msg) \in Nat /\ 1 .. 0 = {} /\ Len(objects) = 0 /\ DOMAIN objects = {} /\ DOMAIN built = {}
      /\ DOMAIN filling = {} /\ Len(filling) = 0
  BY <1>0 DEF RebuildIdle
<1>2. RebuildTypeInv
  <2>1. objects \in Seq(Object) /\ filling \in Seq(Nat)
    BY DEF RebuildIdle
  <2> QED BY <1>1, <2>1 DEF RebuildIdle, RebuildTypeInv, ObjectsOf, ValuesOf, Made, Values
<1>3. TableInv
  BY <1>1 DEF RebuildIdle, TableInv, TableOf
<1>4. RootedInv
  BY <1>1 DEF RootedInv, RootedBut
<1>5. PICK par, pos : WalkInv(par, pos)
  BY DEF EmittedInv
<1>6. RebuildInv(par, pos)
  <2>1. PICK at : at = [j \in 0 .. 0 |-> 0]
    OBVIOUS
  <2>2. Chain(msg, par, 0, 0, at)
    BY <1>1, <2>1 DEF Chain, Inside
  <2>3. FillingInv(par, at)
    BY <1>1, <2>2 DEF RebuildIdle, FillingInv, FillingOf
  <2>4. ItemsInv(par, pos, at)
    BY <1>1 DEF RebuildIdle, ItemsInv, ItemsOf
  <2> QED BY <2>3, <2>4 DEF RebuildInv
<1> QED BY <1>2, <1>3, <1>4, <1>5, <1>6 DEF MarshalInv, MarshalTypeInv, EmittedInv

(* And in the next state.                                                  *)
LEMMA IdleNext ==
  /\ SourceInv' /\ WalkIdle' => EmittedInv'
  /\ RebuildIdle' /\ EmittedInv' /\ PhaseInv' => MarshalInv'
<1>1. SourceInv /\ WalkIdle => EmittedInv
  BY IdleWalk
<1>2. RebuildIdle /\ EmittedInv /\ PhaseInv => MarshalInv
  BY IdleRebuild
<1> QED BY <1>1, <1>2, PTL

-----------------------------------------------------------------------------
LEMMA PlainIs ==
  ASSUME NEW t \in {"open", "close", "bytes", "ref", "text", "prim"}
  PROVE  Plain(t) \in Token /\ Plain(t).t = t
BY DEF Plain, Token

LEMMA WithIdIs ==
  ASSUME NEW t \in {"open", "close", "bytes", "ref", "text", "prim"},
         NEW k \in Kinds \cup {"none"}, NEW id \in Nat
  PROVE  /\ WithId(t, k, id) \in Token /\ WithId(t, k, id).t = t
         /\ WithId(t, k, id).kind = k /\ WithId(t, k, id).id = id
BY DEF WithId, Token

(* A value is emitted and nothing is registered.                           *)
LEMMA LeafKeeps ==
  ASSUME EmittedInv, UNCHANGED <<sourceVars, seen>>, nextId' \in Nat, nextId' >= nextId,
         threw' \in BOOLEAN, ~threw' => ~threw, HasNext, frames' = Advanced,
         NEW token \in Token, msg' = Append(msg, token), token.t \in {"prim", "text", "ref"},
         token.t = "ref" => \E n \in DOMAIN seen : seen[n] = token.id,
         writes = 0 /\ ~threw' => StandsFor(kind, seen, token, Current)
  PROVE  EmittedInv'
<1>0. SourceInv /\ WalkTypeInv /\ IdsInv /\ NoDanglingRef
  BY DEF EmittedInv
<1>1. PICK par, pos : WalkInv(par, pos)
  BY DEF EmittedInv
<1>2. Grows(msg', msg, token)
  BY <1>0, Appended DEF WalkTypeInv
<1>3. MovedOn(frames')
  BY <1>0, AdvancedMovesOn DEF WalkTypeInv
<1>4. SeenGrows
  BY <1>0 DEF SeenGrows, IdsInv, WalkTypeInv
<1>5. UNCHANGED <<kind, kids, writes>>
  BY DEF sourceVars
<1>6. SourceInv'
  BY <1>0, <1>5 DEF SourceInv
<1>7. WalkTypeInv'
  <2>1. frames' \in Seq(Frame) /\ msg' \in Seq(Token)
    BY <1>2, <1>3 DEF Grows, MovedOn
  <2>2. \A n \in DOMAIN seen : seen[n] \in 0 .. nextId' - 1
    <3>1. \A n \in DOMAIN seen : seen[n] \in 0 .. nextId - 1
      BY <1>0 DEF WalkTypeInv
    <3>2. nextId \in Nat
      BY <1>0 DEF WalkTypeInv
    <3> QED BY <3>1, <3>2
  <2>3. DOMAIN seen \subseteq Nodes
    BY <1>0 DEF WalkTypeInv
  <2> QED BY <2>1, <2>2, <2>3 DEF WalkTypeInv
<1>8. IdsInv'
  <2>1. ~Emits(token)
    BY DEF Emits
  <2> QED BY <1>0, <1>2, <1>5, <2>1, IdsPass
<1>9. NoDanglingRef'
  BY <1>0, <1>2, RefsStay
<1>10. \E p, q : WalkInv(p, q)'
  <2>1. token.t \notin {"open", "close"}
    OBVIOUS
  <2>2. writes = 0 /\ ~threw' => StandsFor(kind, seen', token, Current)
    OBVIOUS
  <2> QED BY <1>0, <1>1, <1>2, <1>3, <1>4, <1>5, <2>1, <2>2, Passes
<1> QED BY <1>6, <1>7, <1>8, <1>9, <1>10 DEF EmittedInv

LEMMA VisitPrimKeeps ==
  ASSUME EmittedInv, VisitPrim
  PROVE  EmittedInv'
<1> PICK token : token = Plain("prim")
  OBVIOUS
<1>1. token \in Token /\ token.t = "prim"
  BY PlainIs
<1>2. /\ UNCHANGED <<sourceVars, seen, nextId, threw>> /\ HasNext /\ frames' = Advanced
      /\ msg' = Append(msg, token) /\ Current = Prim
  BY DEF VisitPrim
<1>3. StandsFor(kind, seen, token, Current)
  BY <1>1, <1>2 DEF StandsFor
<1>4. nextId \in Nat /\ threw \in BOOLEAN
  BY DEF EmittedInv, WalkTypeInv
<1> QED BY <1>1, <1>2, <1>3, <1>4, LeafKeeps

LEMMA VisitAgainKeeps ==
  ASSUME EmittedInv, NEW n \in Nodes, VisitAgain(n)
  PROVE  EmittedInv'
<1> PICK token : token = WithId("ref", "none", seen[n])
  OBVIOUS
<1>0. nextId \in Nat /\ threw \in BOOLEAN
  BY DEF EmittedInv, WalkTypeInv
<1>1. n \in DOMAIN seen /\ HasNext /\ Current = n
  <2>1. ContainerId(n, DepthOf(n)) = "ref"
    BY DEF VisitAgain, Visits
  <2>2. n \in DOMAIN seen
    BY <2>1 DEF ContainerId
  <2> QED BY <2>2 DEF VisitAgain, Visits
<1>2. seen[n] \in Nat
  BY <1>0, <1>1 DEF EmittedInv, WalkTypeInv
<1>3. token \in Token /\ token.t = "ref" /\ token.id = seen[n]
  BY <1>2, WithIdIs
<1>4. /\ UNCHANGED <<sourceVars, seen, nextId, threw>> /\ frames' = Advanced
      /\ msg' = Append(msg, token)
  BY DEF VisitAgain
<1>5. StandsFor(kind, seen, token, Current)
  BY <1>1, <1>3 DEF StandsFor
<1> QED BY <1>0, <1>1, <1>3, <1>4, <1>5, LeafKeeps

LEMMA VisitTooDeepKeeps ==
  ASSUME EmittedInv, NEW n \in Nodes, VisitTooDeep(n)
  PROVE  EmittedInv'
<1> PICK token : token = Plain("text")
  OBVIOUS
<1>0. nextId \in Nat /\ threw \in BOOLEAN
  BY DEF EmittedInv, WalkTypeInv
<1>1. token \in Token /\ token.t = "text"
  BY PlainIs
<1>2. HasNext /\ Current = n /\ kind[n] # "bytes"
  <2>1. ContainerId(n, DepthOf(n)) = "text"
    BY DEF VisitTooDeep, Visits
  <2>2. DepthOf(n) >= MaxMarshalDepth
    BY <2>1 DEF ContainerId
  <2>3. DepthOf(n) # 0
    BY <2>2, BoundAssumption
  <2>4. kind[n] # "bytes"
    BY <2>3 DEF DepthOf
  <2> QED BY <2>4 DEF VisitTooDeep, Visits
<1>3. /\ UNCHANGED <<sourceVars, seen, nextId, threw>> /\ frames' = Advanced
      /\ msg' = Append(msg, token)
  BY DEF VisitTooDeep
<1>4. StandsFor(kind, seen, token, Current)
  BY <1>1, <1>2 DEF StandsFor
<1> QED BY <1>0, <1>1, <1>2, <1>3, <1>4, LeafKeeps

(* What could not be read throws, and the operation fails in the end.      *)
LEMMA UnreadKeeps ==
  ASSUME EmittedInv, NEW n, VisitUnreadable(n) \/ AccessorThrows
  PROVE  EmittedInv'
<1> PICK token : token = Plain("prim")
  OBVIOUS
<1>0. nextId \in Nat
  BY DEF EmittedInv, WalkTypeInv
<1>1. token \in Token /\ token.t = "prim"
  BY PlainIs
<1>2. /\ UNCHANGED <<sourceVars, seen>> /\ threw' = TRUE
      /\ nextId' = nextId \/ nextId' = nextId + 1
      /\ HasNext /\ frames' = Advanced /\ msg' = Append(msg, token)
  BY DEF VisitUnreadable, Visits, AccessorThrows
<1>3. nextId' \in Nat /\ nextId' >= nextId
  BY <1>0, <1>2
<1> QED BY <1>1, <1>2, <1>3, LeafKeeps

(* A node is registered and emitted under its id.                          *)
LEMMA RegisteredKeeps ==
  ASSUME EmittedInv, NEW n \in Nodes, n \notin DOMAIN seen, Register(n),
         UNCHANGED <<sourceVars, threw>>, frames' \in Seq(Frame),
         NEW token \in Token, msg' = Append(msg, token), Emits(token), token.id = nextId,
         token.kind = kind[n], token.t = "bytes" <=> kind[n] = "bytes"
  PROVE  SourceInv' /\ WalkTypeInv' /\ IdsInv' /\ NoDanglingRef'
<1>0. SourceInv /\ WalkTypeInv /\ IdsInv /\ NoDanglingRef
  BY DEF EmittedInv
<1>1. Grows(msg', msg, token)
  BY <1>0, Appended DEF WalkTypeInv
<1>2. UNCHANGED <<kind, kids, writes>>
  BY DEF sourceVars
<1>3. SourceInv'
  BY <1>0, <1>2 DEF SourceInv
<1>4. WalkTypeInv'
  <2>1. msg' \in Seq(Token)
    BY <1>1 DEF Grows
  <2>2. /\ nextId \in Nat /\ nextId' = nextId + 1 /\ threw \in BOOLEAN
        /\ \A m \in DOMAIN seen : seen[m] \in 0 .. nextId - 1
        /\ DOMAIN seen \subseteq Nodes
    BY <1>0 DEF WalkTypeInv, Register
  <2>3. seen' = [m \in DOMAIN seen \cup {n} |-> IF m = n THEN nextId ELSE seen[m]]
    BY DEF Register
  <2>4. \A m \in DOMAIN seen' : seen'[m] \in 0 .. nextId' - 1
    BY <2>2, <2>3
  <2>5. DOMAIN seen' \subseteq Nodes
    BY <2>2, <2>3
  <2> QED BY <2>1, <2>2, <2>4, <2>5 DEF WalkTypeInv
<1>5. IdsInv'
  BY <1>0, <1>1, <1>2, IdsEmitted
<1>6. NoDanglingRef'
  <2>1. token.t # "ref"
    BY DEF Emits
  <2> QED BY <1>0, <1>1, <2>1, RefsStay
<1> QED BY <1>3, <1>4, <1>5, <1>6

LEMMA VisitBufferKeeps ==
  ASSUME EmittedInv, NEW n \in Nodes, VisitBuffer(n)
  PROVE  EmittedInv'
<1> PICK token : token = WithId("bytes", "bytes", nextId)
  OBVIOUS
<1>0. SourceInv /\ WalkTypeInv /\ IdsInv
  BY DEF EmittedInv
<1>1. PICK par, pos : WalkInv(par, pos)
  BY DEF EmittedInv
<1>2. nextId \in Nat
  BY <1>0 DEF WalkTypeInv
<1>3. token \in Token /\ token.t = "bytes" /\ token.kind = "bytes" /\ token.id = nextId
  BY <1>2, WithIdIs DEF Kinds
<1>4. n \notin DOMAIN seen /\ HasNext /\ Current = n
  <2>1. ContainerId(n, DepthOf(n)) = "new"
    BY DEF VisitBuffer, Visits
  <2>2. n \notin DOMAIN seen
    BY <2>1 DEF ContainerId
  <2> QED BY <2>2 DEF VisitBuffer, Visits
<1>5. /\ kind[n] = "bytes" /\ Register(n) /\ frames' = Advanced /\ msg' = Append(msg, token)
      /\ UNCHANGED <<sourceVars, threw>>
  BY DEF VisitBuffer
<1>6. Grows(msg', msg, token)
  BY <1>0, <1>3, <1>5, Appended DEF WalkTypeInv
<1>7. MovedOn(frames')
  BY <1>0, <1>4, <1>5, AdvancedMovesOn DEF WalkTypeInv
<1>8. SourceInv' /\ WalkTypeInv' /\ IdsInv' /\ NoDanglingRef'
  <2>1. Emits(token)
    BY <1>3 DEF Emits
  <2>2. frames' \in Seq(Frame)
    BY <1>7 DEF MovedOn
  <2> QED BY <1>3, <1>4, <1>5, <2>1, <2>2, RegisteredKeeps
<1>9. SeenGrows /\ seen'[n] = nextId /\ DOMAIN seen' = DOMAIN seen \cup {n}
  BY <1>0, <1>4, <1>5, Registers
<1>10. StandsFor(kind, seen', token, Current)
  BY <1>3, <1>4, <1>9 DEF StandsFor
<1>11. \E p, q : WalkInv(p, q)'
  <2>1. token.t \notin {"open", "close"}
    BY <1>3
  <2>2. UNCHANGED <<kind, kids, writes>> /\ (~threw' => ~threw)
    BY <1>5 DEF sourceVars
  <2> QED BY <1>0, <1>1, <1>4, <1>6, <1>7, <1>9, <1>10, <2>1, <2>2, Passes
<1> QED BY <1>8, <1>11 DEF EmittedInv

LEMMA EnterContainerKeeps ==
  ASSUME EmittedInv, NEW n \in Nodes, EnterContainer(n)
  PROVE  EmittedInv'
<1> PICK token : token = WithId("open", kind[n], nextId)
  OBVIOUS
<1> PICK f : f = Advanced
  OBVIOUS
<1> PICK fr : fr = [node |-> n, copy |-> kids[n], next |-> 1]
  OBVIOUS
<1>0. SourceInv /\ WalkTypeInv /\ IdsInv
  BY DEF EmittedInv
<1>1. PICK par, pos : WalkInv(par, pos)
  BY DEF EmittedInv
<1>2. nextId \in Nat /\ kind[n] \in Kinds /\ kids[n] \in Seq(Elements)
  BY <1>0 DEF WalkTypeInv, SourceInv
<1>3. token \in Token /\ token.t = "open" /\ token.kind = kind[n] /\ token.id = nextId
  BY <1>2, WithIdIs
<1>4. n \notin DOMAIN seen /\ HasNext /\ Current = n
  <2>1. ContainerId(n, DepthOf(n)) = "new"
    BY DEF EnterContainer, Visits
  <2>2. n \notin DOMAIN seen
    BY <2>1 DEF ContainerId
  <2> QED BY <2>2 DEF EnterContainer, Visits
<1>5. /\ kind[n] # "bytes" /\ Register(n) /\ frames' = Append(f, fr) /\ msg' = Append(msg, token)
      /\ UNCHANGED <<sourceVars, threw>>
  BY DEF EnterContainer
<1>6. Grows(msg', msg, token)
  BY <1>0, <1>3, <1>5, Appended DEF WalkTypeInv
<1>7. MovedOn(f)
  BY <1>0, <1>4, AdvancedMovesOn DEF WalkTypeInv
<1>8. SourceInv' /\ WalkTypeInv' /\ IdsInv' /\ NoDanglingRef'
  <2>1. Emits(token)
    BY <1>3 DEF Emits
  <2>2. frames' \in Seq(Frame)
    <3>1. f \in Seq(Frame)
      BY <1>7 DEF MovedOn
    <3>2. fr \in Frame
      BY <1>2 DEF Frame
    <3> QED BY <1>5, <3>1, <3>2
  <2> QED BY <1>3, <1>4, <1>5, <2>1, <2>2, RegisteredKeeps
<1>9. SeenGrows /\ seen'[n] = nextId /\ DOMAIN seen' = DOMAIN seen \cup {n}
  BY <1>0, <1>4, <1>5, Registers
<1>10. StandsFor(kind, seen', token, Current)
  BY <1>3, <1>4, <1>9 DEF StandsFor
<1>11. \E p, q : WalkInv(p, q)'
  <2>1. token.t = "open" /\ token.id = seen'[n] /\ n \in DOMAIN seen'
    BY <1>3, <1>9
  <2>2. UNCHANGED <<kind, kids, writes>> /\ (~threw' => ~threw)
    BY <1>5 DEF sourceVars
  <2>3. frames' = Append(f, fr)
    BY <1>5
  <2> QED BY <1>0, <1>1, <1>2, <1>4, <1>6, <1>7, <1>9, <1>10, <2>1, <2>2, <2>3, Enters
<1> QED BY <1>8, <1>11 DEF EmittedInv

LEMMA LeaveContainerKeeps ==
  ASSUME EmittedInv, LeaveContainer
  PROVE  EmittedInv'
<1> PICK token : token = Plain("close")
  OBVIOUS
<1>0. SourceInv /\ WalkTypeInv /\ IdsInv /\ NoDanglingRef
  BY DEF EmittedInv
<1>1. PICK par, pos : WalkInv(par, pos)
  BY DEF EmittedInv
<1>2. token \in Token /\ token.t = "close"
  BY PlainIs
<1>3. /\ frames # <<>> /\ ~HasNext /\ frames' = SubSeq(frames, 1, Len(frames) - 1)
      /\ msg' = Append(msg, token) /\ UNCHANGED <<kind, kids, writes, seen, nextId, threw>>
  BY DEF LeaveContainer, sourceVars
<1>4. Grows(msg', msg, token)
  BY <1>0, <1>2, <1>3, Appended DEF WalkTypeInv
<1>5. SourceInv'
  BY <1>0, <1>3 DEF SourceInv
<1>6. WalkTypeInv'
  <2>1. CutOff(frames', frames, Frame)
    BY <1>0, <1>3, CutsOff DEF WalkTypeInv
  <2>2. frames' \in Seq(Frame) /\ msg' \in Seq(Token)
    BY <1>4, <2>1 DEF CutOff, Grows
  <2> QED BY <1>0, <1>3, <2>2 DEF WalkTypeInv
<1>7. IdsInv'
  <2>1. ~Emits(token) /\ UNCHANGED <<kind, seen>>
    BY <1>2, <1>3 DEF Emits
  <2> QED BY <1>0, <1>4, <2>1, IdsPass
<1>8. NoDanglingRef'
  <2>1. token.t # "ref"
    BY <1>2
  <2> QED BY <1>0, <1>4, <2>1, RefsStay
<1>9. \E p, q : WalkInv(p, q)'
  BY <1>0, <1>1, <1>2, <1>3, <1>4, Leaves
<1> QED BY <1>5, <1>6, <1>7, <1>8, <1>9 DEF EmittedInv

(* A change of the source leaves what was emitted.                         *)
LEMMA SourceChangesKeeps ==
  ASSUME EmittedInv, NEW n \in Nodes, SourceChanges(n)
  PROVE  EmittedInv'
<1>0. SourceInv /\ WalkTypeInv /\ IdsInv /\ NoDanglingRef
  BY DEF EmittedInv
<1>1. PICK par, pos : WalkInv(par, pos)
  BY DEF EmittedInv
<1>2. UNCHANGED <<kind, frames, seen, nextId, threw, msg>> /\ writes' = writes + 1 /\ writes \in Nat
  BY <1>0 DEF SourceChanges, walkVars, SourceInv
<1>3. SourceInv'
  <2>1. kind \in [Nodes -> Kinds] /\ kids \in [Nodes -> Seq(Elements)] /\ kids[n] \in Seq(Elements)
    BY <1>0 DEF SourceInv
  <2>2. \E s \in Seq(Elements) : kids' = [kids EXCEPT ![n] = s] /\ kind[n] # "bytes"
    <3>1. ASSUME NEW k \in Writable(n), NEW new \in Nodes, kids' = [kids EXCEPT ![n][k] = new]
          PROVE  \E s \in Seq(Elements) : kids' = [kids EXCEPT ![n] = s] /\ kind[n] # "bytes"
      <4>1. k \in DOMAIN kids[n] /\ kind[n] # "bytes"
        BY DEF Writable
      <4>2. PICK s : s = [kids[n] EXCEPT ![k] = new]
        OBVIOUS
      <4>3. s \in Seq(Elements)
        BY <2>1, <4>1, <4>2 DEF Elements
      <4>4. kids' = [kids EXCEPT ![n] = s]
        BY <3>1, <4>2
      <4> QED BY <4>1, <4>3, <4>4
    <3>2. ASSUME kids[n] # <<>>,
                 LET gone == IF kind[n] = "map" THEN 2 ELSE 1
                 IN kids' = [kids EXCEPT ![n] = SubSeq(@, 1, Len(@) - gone)]
          PROVE  \E s \in Seq(Elements) : kids' = [kids EXCEPT ![n] = s] /\ kind[n] # "bytes"
      <4>1. PICK gone \in {1, 2} : kids' = [kids EXCEPT ![n] = SubSeq(kids[n], 1, Len(kids[n]) - gone)]
        BY <3>2
      <4>2. PICK s : s = SubSeq(kids[n], 1, Len(kids[n]) - gone)
        OBVIOUS
      <4>3. s \in Seq(Elements)
        <5>1. PICK t \in Seq(Elements) : t = kids[n]
          BY <2>1
        <5>2. t # <<>> /\ Len(t) \in Nat \ {0}
          BY <3>2, <5>1
        <5>3. SubSeq(t, 1, Len(t) - gone) \in Seq(Elements)
          BY <5>2
        <5> QED BY <4>2, <5>1, <5>3
      <4>4. kids' = [kids EXCEPT ![n] = s]
        BY <4>1, <4>2
      <4>5. kind[n] # "bytes"
        BY <1>0, <3>2 DEF SourceInv
      <4> QED BY <4>3, <4>4, <4>5
    <3> QED BY <3>1, <3>2 DEF SourceChanges
  <2>3. PICK s \in Seq(Elements) : kids' = [kids EXCEPT ![n] = s] /\ kind[n] # "bytes"
    BY <2>2
  <2>4. kids' \in [Nodes -> Seq(Elements)]
    BY <2>1, <2>3
  <2>5. \A m \in Nodes : kind[m] = "bytes" => kids'[m] = <<>>
    BY <1>0, <2>1, <2>3 DEF SourceInv
  <2> QED BY <1>2, <2>1, <2>4, <2>5 DEF SourceInv
<1>4. WalkTypeInv' /\ IdsInv' /\ NoDanglingRef'
  BY <1>0, <1>2 DEF WalkTypeInv, IdsInv, NoDanglingRef
<1>5. WalkInv(par, pos)'
  <2>1. writes' # 0
    BY <1>2
  <2>2. Nested(msg', par, pos)
    BY <1>1, <1>2 DEF WalkInv
  <2>3. ElementsInv(par, pos)'
    BY <2>1 DEF ElementsInv
  <2>4. PICK at : FramesInv(par, pos, at)
    BY <1>1 DEF WalkInv
  <2>5. FramesInv(par, pos, at)'
    BY <1>2, <2>1, <2>4 DEF FramesInv
  <2> QED BY <2>2, <2>3, <2>5 DEF WalkInv
<1> QED BY <1>3, <1>4, <1>5 DEF EmittedInv

-----------------------------------------------------------------------------
(* The rebuild.  What was added to items as new, but for gone: the elements *)
(* and x are all in the one or the other.                                  *)
Added(new, gone, items, x, S) ==
  /\ new \in Seq(S) /\ gone \subseteq S
  /\ x \in gone \/ \E k \in DOMAIN new : new[k] = x
  /\ \A j \in DOMAIN items : items[j] \in gone \/ \E k \in DOMAIN new : new[k] = items[j]
  /\ gone = {} => new = Append(items, x)

LEMMA AppendAdds ==
  ASSUME NEW S, NEW items \in Seq(S), NEW x \in S
  PROVE  Added(Append(items, x), {}, items, x, S)
<1> PICK new : new = Append(items, x)
  OBVIOUS
<1>1. new \in Seq(S) /\ Len(new) = Len(items) + 1 /\ Len(items) \in Nat
  OBVIOUS
<1>2. new[Len(items) + 1] = x /\ \A j \in 1 .. Len(items) : new[j] = items[j]
  OBVIOUS
<1>3. Added(new, {}, items, x, S)
  <2>1. Len(items) + 1 \in DOMAIN new /\ \A j \in DOMAIN items : j \in DOMAIN new
    BY <1>1
  <2>2. \A j \in DOMAIN items : new[j] = items[j]
    BY <1>2
  <2> QED BY <1>1, <1>2, <2>1, <2>2 DEF Added
<1> QED BY <1>3

LEMMA SetAddsIs ==
  ASSUME NEW S, NEW items \in Seq(S), NEW x \in S, NEW add \in SetAdds(items, x)
  PROVE  Added(add.items, add.gone, items, x, S)
<1>1. CASE add = [items |-> Append(items, x), gone |-> {}]
  BY <1>1, AppendAdds
<1>2. CASE add = [items |-> items, gone |-> {x}]
  <2>1. add.items = items /\ add.gone = {x}
    BY <1>2
  <2> QED BY <2>1 DEF Added
<1> QED BY <1>1, <1>2 DEF SetAdds

LEMMA MapAddsIs ==
  ASSUME NEW S, NEW items \in Seq(S), NEW x \in S, Len(items) % 2 = 1,
         NEW add \in MapAdds(items, x)
  PROVE  Added(add.items, add.gone, items, x, S)
<1> DEFINE n    == Len(items)
           keys == [k \in 1 .. n \div 2 |-> items[2 * k - 1]]
           rest == SubSeq(items, 1, n - 1)
<1>1. CASE add = [items |-> Append(items, x), gone |-> {}]
  BY <1>1, AppendAdds
<1>2. CASE \E k \in Matches(keys, items[n]) :
             add = [items |-> [rest EXCEPT ![2 * k] = x], gone |-> {items[n], rest[2 * k]}]
  <2>1. PICK k \in DOMAIN keys :
               add = [items |-> [rest EXCEPT ![2 * k] = x], gone |-> {items[n], rest[2 * k]}]
    BY <1>2 DEF Matches
  <2>2. n \in Nat /\ n # 0
    OBVIOUS
  <2>3. 2 * k \in 1 .. n - 1
    <3>1. k \in 1 .. n \div 2
      OBVIOUS
    <3> QED BY <2>2, <3>1
  <2>4. CutOff(rest, items, S)
    <3>1. items # <<>>
      BY <2>2
    <3> QED BY <3>1, CutsOff
  <2>5. PICK at : at = 2 * k
    OBVIOUS
  <2>6. PICK r : r = rest
    OBVIOUS
  <2>7. PICK new : new = [r EXCEPT ![at] = x]
    OBVIOUS
  <2>8. r \in Seq(S) /\ Len(r) = n - 1 /\ at \in 1 .. n - 1 /\ \A j \in 1 .. n - 1 : r[j] = items[j]
    BY <2>3, <2>4, <2>5, <2>6 DEF CutOff
  <2>9. new \in Seq(S) /\ Len(new) = n - 1 /\ new[at] = x
        /\ \A j \in 1 .. n - 1 : j # at => new[j] = items[j]
    BY <2>2, <2>7, <2>8
  <2>10. add.items = new /\ add.gone = {items[n], items[at]}
    BY <2>1, <2>5, <2>6, <2>7, <2>8
  <2>11. items[n] \in S /\ items[at] \in S
    BY <2>2, <2>8
  <2>12. at \in DOMAIN new /\ \A j \in DOMAIN items : j = n \/ j \in DOMAIN new
    BY <2>2, <2>8, <2>9
  <2>13. \A j \in DOMAIN items : j = n \/ j = at \/ new[j] = items[j]
    BY <2>2, <2>9
  <2> HIDE DEF n, keys, rest
  <2> QED BY <2>9, <2>10, <2>11, <2>12, <2>13 DEF Added
<1> QED BY <1>1, <1>2 DEF MapAdds

LEMMA AddsIs ==
  ASSUME NEW S, NEW container, NEW items \in Seq(S), items = container.items, NEW x \in S,
         NEW add \in Adds(container, x)
  PROVE  Added(add.items, add.gone, items, x, S)
<1>1. CASE container.kind = "set"
  <2>1. add \in SetAdds(items, x)
    BY <1>1 DEF Adds
  <2> QED BY <2>1, SetAddsIs
<1>2. CASE container.kind = "map" /\ Len(items) % 2 = 1
  <2>1. add \in MapAdds(items, x)
    BY <1>2 DEF Adds
  <2> QED BY <1>2, <2>1, MapAddsIs
<1>3. CASE container.kind # "set" /\ ~(container.kind = "map" /\ Len(items) % 2 = 1)
  <2>1. add = [items |-> Append(items, x), gone |-> {}]
    BY <1>3 DEF Adds
  <2> QED BY <2>1, AppendAdds
<1> QED BY <1>1, <1>2, <1>3

(* The objects are the same but that c has the elements new.               *)
Put(objs2, objs, c, new) ==
  /\ objs2 \in Seq(Object) /\ Len(objs2) = Len(objs) /\ DOMAIN objs2 = DOMAIN objs
  /\ \A o \in DOMAIN objs : /\ objs2[o].kind = objs[o].kind
                            /\ objs2[o].items = IF o = c THEN new ELSE objs[o].items

LEMMA Puts ==
  ASSUME NEW objs \in Seq(Object), NEW c \in DOMAIN objs, NEW new \in Seq(ValuesOf(objs)),
         NEW objs2, objs2 = [objs EXCEPT ![c].items = new]
  PROVE  Put(objs2, objs, c, new)
<1>1. Len(objs) \in Nat /\ DOMAIN objs = 1 .. Len(objs)
  OBVIOUS
<1>2. ValuesOf(objs) \subseteq Value
  BY <1>1 DEF ValuesOf, Value
<1>3. new \in Seq(Value)
  BY <1>2
<1>4. PICK item : item = [objs[c] EXCEPT !.items = new]
  OBVIOUS
<1>5. item \in Object /\ item.kind = objs[c].kind /\ item.items = new
  <2>1. objs[c] \in Object
    BY <1>1
  <2> QED BY <1>3, <1>4, <2>1 DEF Object
<1>6. objs2 = [objs EXCEPT ![c] = item]
  BY <1>4
<1>7. objs2 \in Seq(Object) /\ Len(objs2) = Len(objs)
  BY <1>1, <1>5, <1>6
<1>8. DOMAIN objs2 = DOMAIN objs
  BY <1>6
<1>9. \A o \in DOMAIN objs : objs2[o] = IF o = c THEN item ELSE objs[o]
  BY <1>6
<1> QED BY <1>5, <1>7, <1>8, <1>9 DEF Put

(* What a graft of x into the innermost of the objects into does.          *)
Grafted(objs2, dropped2, x, objs, into, gone) ==
  IF into = <<>>
  THEN objs2 = objs /\ gone = {} /\ dropped2 = dropped
  ELSE /\ dropped2 = dropped \cup gone
       /\ \E new : /\ Put(objs2, objs, into[Len(into)], new)
                   /\ Added(new, gone, objs[into[Len(into)]].items, x, ValuesOf(objs))

LEMMA GraftIs ==
  ASSUME NEW objs, NEW b, NEW into, ObjectsOf(objs, b, into), NEW x \in ValuesOf(objs),
         Graft(x, objs, into)
  PROVE  /\ \E gone : Grafted(objects', dropped', x, objs, into, gone)
         /\ early' \subseteq early \cup Made
         /\ result' = IF into = <<>> THEN x ELSE result
<1>1. CASE into = <<>>
  <2>1. objects' = objs /\ result' = x /\ UNCHANGED <<early, dropped>>
    BY <1>1 DEF Graft
  <2>2. Grafted(objects', dropped', x, objs, into, {})
    BY <1>1, <2>1 DEF Grafted
  <2> QED BY <1>1, <2>1, <2>2
<1>2. CASE into # <<>>
  <2>1. PICK c : c = into[Len(into)]
    OBVIOUS
  <2>2. PICK add \in Adds(objs[c], x) :
          /\ objects' = [objs EXCEPT ![c].items = add.items]
          /\ dropped' = dropped \cup add.gone
          /\ early' = early \cup StillChanging(x, into)
          /\ UNCHANGED result
    BY <1>2, <2>1 DEF Graft
  <2>3. c \in DOMAIN objs
    <3>1. into \in Seq(Nat) /\ \A j \in 1 .. Len(into) : into[j] \in DOMAIN objs
      BY DEF ObjectsOf
    <3>2. Len(into) \in 1 .. Len(into)
      BY <1>2, <3>1
    <3> QED BY <2>1, <3>1, <3>2
  <2>4. PICK items : items = objs[c].items
    OBVIOUS
  <2>5. items \in Seq(ValuesOf(objs))
    <3>1. objs \in Seq(Object) /\ \A k \in DOMAIN objs[c].items : objs[c].items[k] \in ValuesOf(objs)
      BY <2>3 DEF ObjectsOf
    <3>2. objs[c] \in Object
      BY <2>3, <3>1
    <3>3. items \in Seq(Value)
      BY <2>4, <3>2 DEF Object
    <3>4. \A k \in 1 .. Len(items) : items[k] \in ValuesOf(objs)
      BY <2>4, <3>1, <3>3
    <3> QED BY <3>3, <3>4
  <2>6. Added(add.items, add.gone, items, x, ValuesOf(objs))
    BY <2>2, <2>4, <2>5, AddsIs
  <2>7. Put(objects', objs, c, add.items)
    <3>1. objs \in Seq(Object) /\ add.items \in Seq(ValuesOf(objs))
      BY <2>6 DEF ObjectsOf, Added
    <3> QED BY <2>2, <2>3, <3>1, Puts
  <2>8. StillChanging(x, into) \subseteq Made
    BY DEF StillChanging
  <2>9. Grafted(objects', dropped', x, objs, into, add.gone)
    BY <1>2, <2>1, <2>2, <2>4, <2>6, <2>7 DEF Grafted
  <2> QED BY <1>2, <2>2, <2>8, <2>9
<1> QED BY <1>1, <1>2

(* An element is put, and ...                                              *)
LEMMA PutObjects ==
  ASSUME NEW objs, NEW b, NEW fill, ObjectsOf(objs, b, fill), NEW objs2, NEW c, NEW new,
         NEW x, NEW items, NEW gone, Put(objs2, objs, c, new), Added(new, gone, items, x, ValuesOf(objs))
  PROVE  ObjectsOf(objs2, b, fill) /\ ValuesOf(objs2) = ValuesOf(objs) /\ gone \subseteq ValuesOf(objs2)
<1>1. ValuesOf(objs2) = ValuesOf(objs)
  BY DEF Put, ValuesOf
<1>2. ASSUME NEW o \in DOMAIN objs2, NEW k \in DOMAIN objs2[o].items
      PROVE  objs2[o].items[k] \in ValuesOf(objs)
  <2>1. CASE o = c
    <3>1. objs2[o].items = new /\ new \in Seq(ValuesOf(objs))
      BY <2>1 DEF Put, Added
    <3> QED BY <3>1
  <2>2. CASE o # c
    <3>1. objs2[o].items = objs[o].items
      BY <2>2 DEF Put
    <3> QED BY <3>1 DEF ObjectsOf, Put
  <2> QED BY <2>1, <2>2
<1> QED BY <1>1, <1>2 DEF ObjectsOf, Put, Added

LEMMA PutTable ==
  ASSUME NEW objs, NEW b, NEW k, TableOf(objs, b, k),
         \A id \in DOMAIN b : b[id] \in DOMAIN objs,
         NEW objs2, NEW c, NEW new, Put(objs2, objs, c, new)
  PROVE  TableOf(objs2, b, k)
BY DEF TableOf, Put

LEMMA PutRooted ==
  ASSUME NEW objs, NEW b, NEW fill, ObjectsOf(objs, b, fill), fill # <<>>,
         NEW objs2, NEW c, c = fill[Len(fill)], NEW new, NEW x, NEW gone, NEW old, NEW pending,
         Put(objs2, objs, c, new), Added(new, gone, objs[c].items, x, ValuesOf(objs)),
         RootedBut(pending, objs, fill, old), pending = 0 \/ (pending = x /\ c < x)
  PROVE  RootedBut(0, objs2, fill, old \cup gone)
<1>0. c \in DOMAIN objs /\ DOMAIN objs2 = DOMAIN objs
  <2>1. fill \in Seq(Nat) /\ \A j \in 1 .. Len(fill) : fill[j] \in DOMAIN objs
    BY DEF ObjectsOf
  <2>2. Len(fill) \in 1 .. Len(fill)
    BY <2>1
  <2> QED BY <2>1, <2>2 DEF Put
<1> SUFFICES ASSUME NEW o \in DOMAIN objs, ~ \E j \in 1 .. Len(fill) : fill[j] = o, o \notin old \cup gone
             PROVE  \E y \in DOMAIN objs2 : y < o /\ \E k \in DOMAIN objs2[y].items : objs2[y].items[k] = o
  BY <1>0 DEF RootedBut
<1>1. objs2[c].items = new
  BY <1>0 DEF Put
<1>2. CASE o = pending
  <2>1. o = x /\ c < o
    <3>1. 0 \notin DOMAIN objs
      BY DEF ObjectsOf
    <3> QED BY <1>2, <3>1
  <2>2. \E k \in DOMAIN new : new[k] = o
    BY <2>1 DEF Added
  <2> QED BY <1>0, <1>1, <2>1, <2>2
<1>3. CASE o # pending
  <2>1. PICK y \in DOMAIN objs : y < o /\ \E k \in DOMAIN objs[y].items : objs[y].items[k] = o
    BY <1>3 DEF RootedBut
  <2>2. CASE y = c
    <3>1. \E k \in DOMAIN new : new[k] = o
      BY <2>1, <2>2 DEF Added
    <3> QED BY <1>0, <1>1, <2>1, <2>2, <3>1
  <2>3. CASE y # c
    <3>1. objs2[y].items = objs[y].items
      BY <2>3 DEF Put
    <3> QED BY <1>0, <2>1, <3>1
  <2> QED BY <2>2, <2>3
<1> QED BY <1>2, <1>3

\* The value x is a copy of the element that token g stands for.
Fits(par, pos, g, b, x) ==
  writes = 0 =>
    IF par[g] = 0 THEN IsCopy(kind, seen, b, x, Root)
    ELSE \A n \in DOMAIN seen : seen[n] = msg[par[g]].id =>
           pos[g] <= Len(kids[n]) /\ IsCopy(kind, seen, b, x, kids[n][pos[g]])

LEMMA PutItems ==
  ASSUME IdsInv, writes = 0, msg \in Seq(Token),
         NEW par, NEW pos, NEW k \in 0 .. Len(msg),
         NEW objs, NEW b, NEW fill, ObjectsOf(objs, b, fill), TableOf(objs, b, k), fill # <<>>,
         NEW at, Chain(msg, par, k, Len(fill), at), FillingOf(at, b, fill),
         NEW turn \in Nat, ItemsOf(pos, at, objs, b, fill, k, turn),
         NEW x, NEW g, par[g] = at[Len(fill)], pos[g] = turn, Fits(par, pos, g, b, x),
         NEW c, c = fill[Len(fill)],
         NEW objs2, Put(objs2, objs, c, Append(objs[c].items, x)), x \in ValuesOf(objs)
  PROVE  ItemsOf(pos, at, objs2, b, fill, k, turn + 1)
<1> DEFINE n == Len(fill)
<1>0. /\ n \in Nat \ {0} /\ n \in 1 .. n /\ \A j \in 1 .. n : fill[j] \in DOMAIN objs
      /\ c \in DOMAIN objs /\ objs \in Seq(Object)
  BY DEF ObjectsOf
<1>1. PICK items : items = objs[c].items
  OBVIOUS
<1>2. items \in Seq(Value) /\ x \in Value
  <2>1. objs[c] \in Object /\ DOMAIN objs \subseteq Nat
    BY <1>0
  <2> QED BY <1>1, <2>1 DEF Object, ValuesOf, Value
<1>3. PICK new : new = Append(items, x)
  OBVIOUS
<1>4. /\ Len(items) \in Nat /\ Len(new) = Len(items) + 1 /\ new[Len(items) + 1] = x
      /\ DOMAIN new = 1 .. Len(items) + 1
      /\ \A e \in 1 .. Len(items) : e \in DOMAIN items /\ new[e] = items[e]
  BY <1>2, <1>3
<1>5. \A o \in DOMAIN objs : objs2[o].items = IF o = c THEN new ELSE objs[o].items
  BY <1>1, <1>3 DEF Put
<1>6. ASSUME NEW j \in 1 .. n
      PROVE  Len(objs2[fill[j]].items) + 1 = IF j = n THEN turn + 1 ELSE pos[at[j + 1]]
  <2>1. Len(objs[fill[j]].items) + 1 = IF j = n THEN turn ELSE pos[at[j + 1]]
    BY DEF ItemsOf
  <2>2. CASE j = n
    <3>1. objs2[fill[j]].items = new /\ fill[j] = c
      BY <1>0, <1>5, <2>2
    <3> QED BY <1>1, <1>4, <2>1, <2>2, <3>1
  <2>3. CASE j # n
    <3>1. fill[j] # c
      <4>1. fill[j] < fill[n]
        BY <1>0, <2>3 DEF FillingOf
      <4> QED BY <1>0, <4>1
    <3>2. objs2[fill[j]].items = objs[fill[j]].items
      BY <1>0, <1>5, <3>1
    <3> QED BY <2>1, <2>3, <3>2
  <2> QED BY <2>2, <2>3
<1>7. Len(items) + 1 = turn
  BY <1>0, <1>1 DEF ItemsOf
<1>8. at[n] \in 1 .. k /\ Emits(msg[at[n]]) /\ c = b[msg[at[n]].id]
  <2>1. at[n] \in 1 .. k /\ msg[at[n]].t = "open"
    <3>1. Len(msg) \in Nat /\ k \in Nat /\ Len(fill) \in Nat
      BY <1>0
    <3>2. PICK j \in 1 .. Len(fill) : j = Len(fill)
      BY <1>0
    <3>3. at[j] \in 1 .. k /\ msg[at[j]].t = "open"
      BY <3>1, ChainAt
    <3> QED BY <3>2, <3>3
  <2>2. c = b[msg[at[n]].id]
    BY <1>0 DEF FillingOf
  <2> QED BY <2>1, <2>2 DEF Emits
<1>9. ASSUME NEW i \in 1 .. k, NEW m \in DOMAIN seen, Emits(msg[i]), seen[m] = msg[i].id
      PROVE  LET its == objs2[b[seen[m]]].items
             IN /\ Len(its) = Len(kids[m]) \/ \E j \in 1 .. n : at[j] = i
                /\ \A e \in DOMAIN its : IsCopy(kind, seen, b, its[e], kids[m][e])
  <2>1. LET its == objs[b[seen[m]]].items
        IN /\ Len(its) = Len(kids[m]) \/ \E j \in 1 .. n : at[j] = i
           /\ \A e \in DOMAIN its : IsCopy(kind, seen, b, its[e], kids[m][e])
    BY <1>9 DEF ItemsOf
  <2>2. seen[m] \in DOMAIN b /\ b[seen[m]] \in DOMAIN objs
    BY <1>9 DEF TableOf, ObjectsOf
  <2>3. CASE b[seen[m]] = c
    <3>1. msg[at[n]].id \in DOMAIN b
      BY <1>8 DEF TableOf
    <3>2. seen[m] = msg[at[n]].id
      BY <1>8, <2>2, <2>3, <3>1 DEF TableOf
    <3>3. at[n] = i
      <4>1. PICK j : j = at[n]
        OBVIOUS
      <4>2. i \in DOMAIN msg /\ j \in DOMAIN msg
        BY <1>8, <4>1
      <4>3. Emits(msg[i]) /\ Emits(msg[j]) /\ msg[j].id = msg[i].id
        BY <1>8, <1>9, <3>2, <4>1
      <4>4. j = i
        BY <4>2, <4>3 DEF IdsInv
      <4> QED BY <4>1, <4>4
    <3>4. par[g] # 0 /\ seen[m] = msg[par[g]].id
      BY <1>8, <3>2
    <3>5. IsCopy(kind, seen, b, x, kids[m][turn])
      BY <3>4 DEF Fits
    <3>6. objs2[b[seen[m]]].items = new
      BY <1>5, <2>2, <2>3
    <3>7. \A e \in DOMAIN items : IsCopy(kind, seen, b, items[e], kids[m][e])
      BY <1>1, <2>1, <2>3
    <3>8. \A e \in DOMAIN new : IsCopy(kind, seen, b, new[e], kids[m][e])
      <4> SUFFICES ASSUME NEW e \in DOMAIN new
                   PROVE  IsCopy(kind, seen, b, new[e], kids[m][e])
        OBVIOUS
      <4>1. CASE e = turn
        <5>1. new[e] = x
          BY <1>4, <1>7, <4>1
        <5> QED BY <3>5, <4>1, <5>1
      <4>2. CASE e # turn
        <5>1. e \in 1 .. Len(items)
          BY <1>4, <1>7, <4>2
        <5>2. e \in DOMAIN items /\ new[e] = items[e]
          BY <1>4, <5>1
        <5> QED BY <3>7, <5>2
      <4> QED BY <4>1, <4>2
    <3> QED BY <1>0, <3>3, <3>6, <3>8
  <2>4. CASE b[seen[m]] # c
    <3>1. objs2[b[seen[m]]].items = objs[b[seen[m]]].items
      BY <1>5, <2>2, <2>4
    <3> QED BY <2>1, <3>1
  <2> QED BY <2>3, <2>4
<1> QED BY <1>6, <1>9 DEF ItemsOf

(* The object of a token is a copy of the element the token stands for, and *)
(* so are the two other values.                                            *)
LEMMA ObjectCopies ==
  ASSUME RootAssumption, NEW kd, NEW s, DOMAIN s \subseteq Nodes, NEW b, NEW token, NEW el,
         token.t \in {"open", "bytes", "ref"}, token.id \in DOMAIN b, StandsFor(kd, s, token, el)
  PROVE  IsCopy(kd, s, b, b[token.id], el)
<1>1. el \in DOMAIN s /\ s[el] = token.id /\ el # Prim
  BY DEF StandsFor, RootAssumption
<1> QED BY <1>1 DEF IsCopy

LEMMA ValueCopies ==
  ASSUME RootAssumption, NEW kd, NEW s, NEW b, NEW token, NEW el, NEW x,
         \/ token.t = "prim" /\ x = Prim
         \/ token.t = "text" /\ x = Text,
         StandsFor(kd, s, token, el)
  PROVE  IsCopy(kd, s, b, x, el)
BY DEF StandsFor, IsCopy, RootAssumption

LEMMA Fitting ==
  ASSUME NEW par, NEW pos, Nested(msg, par, pos), ElementsInv(par, pos), ~threw,
         NEW g \in 1 .. Len(msg), msg[g].t # "close", NEW b, NEW x,
         \A el : StandsFor(kind, seen, msg[g], el) => IsCopy(kind, seen, b, x, el)
  PROVE  Fits(par, pos, g, b, x)
<1> SUFFICES ASSUME writes = 0
             PROVE  IF par[g] = 0 THEN IsCopy(kind, seen, b, x, Root)
                    ELSE \A n \in DOMAIN seen : seen[n] = msg[par[g]].id =>
                           pos[g] <= Len(kids[n]) /\ IsCopy(kind, seen, b, x, kids[n][pos[g]])
  BY DEF Fits
<1>1. CASE par[g] = 0
  <2>1. g = 1 /\ msg # <<>>
    BY <1>1 DEF Nested
  <2>2. StandsFor(kind, seen, msg[1], Root)
    BY <2>1 DEF ElementsInv
  <2> QED BY <1>1, <2>1, <2>2
<1>2. CASE par[g] # 0
  BY <1>2 DEF ElementsInv
<1> QED BY <1>1, <1>2

\* What is rebuilt, for the places par and pos of the tokens.
RebuiltInv(par, pos) == RebuildTypeInv /\ TableInv /\ RootedInv /\ RebuildInv(par, pos)

(* What a step leaves, put together.                                       *)
LEMMA Settles ==
  ASSUME UNCHANGED <<sourceVars, seen, threw, msg>>, read' \in 1 .. Len(msg),
         ObjectsOf(objects', built', filling'), TableOf(objects', built', read'),
         early' \subseteq DOMAIN objects', dropped' \subseteq ValuesOf(objects'),
         result' \in ValuesOf(objects'),
         filling' # <<>> => RootedBut(0, objects', filling', dropped'),
         NEW par, NEW pos, NEW at,
         Chain(msg, par, read', Len(filling'), at), FillingOf(at, built', filling'),
         NEW turn, turn = Turn(msg, par, pos, read'),
         writes = 0 /\ dropped' = {} =>
           /\ ItemsOf(pos, at, objects', built', filling', read', turn)
           /\ filling' = <<>> => IsCopy(kind, seen, built', result', Root)
  PROVE  RebuiltInv(par, pos)'
<1>0. UNCHANGED <<kind, kids, writes>>
  BY DEF sourceVars
<1>1. RebuildTypeInv'
  <2>1. Len(msg) \in Nat => read' \in 0 .. Len(msg')
    OBVIOUS
  <2>2. read' \in 0 .. Len(msg')
    OBVIOUS
  <2> QED BY <2>2 DEF RebuildTypeInv, Made, Values, ObjectsOf, ValuesOf
<1>2. TableInv'
  BY DEF TableInv, TableOf
<1>3. RootedInv'
  BY DEF RootedInv, RootedBut
<1>4. FillingInv(par, at)'
  BY DEF FillingInv, FillingOf
<1>5. ItemsInv(par, pos, at)'
  <2> SUFFICES ASSUME writes = 0, dropped' = {}
               PROVE  /\ ItemsOf(pos, at, objects, built, filling, read, Turn(msg, par, pos, read))'
                      /\ (read # 0 /\ filling = <<>> => IsCopy(kind, seen, built, result, Root))'
    BY <1>0 DEF ItemsInv
  <2>1. Turn(msg, par, pos, read)' = turn
    OBVIOUS
  <2>2. ItemsOf(pos, at, objects', built', filling', read', turn)
    OBVIOUS
  <2>3. ItemsOf(pos, at, objects, built, filling, read, Turn(msg, par, pos, read))'
    BY <1>0, <2>1, <2>2 DEF ItemsOf
  <2>4. (read # 0 /\ filling = <<>> => IsCopy(kind, seen, built, result, Root))'
    BY <1>0 DEF IsCopy
  <2> QED BY <2>3, <2>4
<1>6. RebuildInv(par, pos)'
  BY <1>4, <1>5 DEF RebuildInv
<1> QED BY <1>1, <1>2, <1>3, <1>6 DEF RebuiltInv

(* In the middle of a step, when all but a graft is done: the objects objs, *)
(* the table b, and the objects fill at the tokens at.                     *)
Between(par, pos, at, objs, b, fill, turn, pending) ==
  /\ ObjectsOf(objs, b, fill) /\ TableOf(objs, b, read + 1)
  /\ Chain(msg, par, read + 1, Len(fill), at) /\ FillingOf(at, b, fill)
  /\ writes = 0 /\ dropped = {} => ItemsOf(pos, at, objs, b, fill, read + 1, turn)
  /\ fill # <<>> => RootedBut(pending, objs, fill, dropped)

LEMMA GraftKeeps ==
  ASSUME IdsInv, RebuildTypeInv, msg \in Seq(Token), read < Len(msg), read' = read + 1,
         UNCHANGED <<sourceVars, seen, threw, msg>>,
         NEW par, NEW pos, NEW at, NEW objs, NEW b, NEW fill, NEW turn \in Nat \ {0}, NEW pending,
         Between(par, pos, at, objs, b, fill, turn, pending), DOMAIN objects \subseteq DOMAIN objs,
         built' = b, filling' = fill,
         NEW x \in ValuesOf(objs), Graft(x, objs, fill),
         pending = 0 \/ (pending = x /\ \A j \in 1 .. Len(fill) : fill[j] < x),
         NEW g, par[g] = at[Len(fill)], pos[g] = turn, Turn(msg, par, pos, read + 1) = turn + 1,
         Fits(par, pos, g, b, x)
  PROVE  RebuiltInv(par, pos)'
<1>0. /\ read + 1 \in 1 .. Len(msg) /\ read + 1 \in 0 .. Len(msg) /\ early \subseteq DOMAIN objects
      /\ dropped \subseteq ValuesOf(objects) /\ result \in ValuesOf(objects)
  BY DEF RebuildTypeInv, Made, Values, ValuesOf
<1>1. /\ ObjectsOf(objs, b, fill) /\ TableOf(objs, b, read + 1)
      /\ Chain(msg, par, read + 1, Len(fill), at) /\ FillingOf(at, b, fill)
      /\ writes = 0 /\ dropped = {} => ItemsOf(pos, at, objs, b, fill, read + 1, turn)
      /\ fill # <<>> => RootedBut(pending, objs, fill, dropped)
  BY DEF Between
<1>2. PICK gone : Grafted(objects', dropped', x, objs, fill, gone)
  BY <1>1, GraftIs
<1>3. early' \subseteq DOMAIN objs /\ result' = IF fill = <<>> THEN x ELSE result
  <2>1. early' \subseteq early \cup Made /\ result' = IF fill = <<>> THEN x ELSE result
    BY <1>1, GraftIs
  <2> QED BY <1>0, <2>1 DEF Made
<1>4. ValuesOf(objects) \subseteq ValuesOf(objs)
  BY DEF ValuesOf
<1>5. CASE fill = <<>>
  <2>1. objects' = objs /\ dropped' = dropped /\ gone = {} /\ result' = x
    BY <1>2, <1>3, <1>5 DEF Grafted
  <2>2. writes = 0 /\ dropped' = {} =>
          /\ ItemsOf(pos, at, objects', b, fill, read + 1, turn + 1)
          /\ filling' = <<>> => IsCopy(kind, seen, built', result', Root)
    <3> SUFFICES ASSUME writes = 0, dropped = {}
                 PROVE  /\ ItemsOf(pos, at, objs, b, fill, read + 1, turn + 1)
                        /\ IsCopy(kind, seen, b, x, Root)
      BY <2>1
    <3>1. ItemsOf(pos, at, objs, b, fill, read + 1, turn)
      BY <1>1
    <3>2. Len(fill) = 0 /\ \A j \in 1 .. Len(fill) : FALSE
      BY <1>5
    <3>3. ItemsOf(pos, at, objs, b, fill, read + 1, turn + 1)
      BY <3>1, <3>2 DEF ItemsOf
    <3>4. par[g] = 0
      BY <1>1, <3>2 DEF Chain
    <3> QED BY <3>3, <3>4 DEF Fits
  <2> QED BY <1>0, <1>1, <1>3, <1>4, <1>5, <2>1, <2>2, Settles
<1>6. CASE fill # <<>>
  <2>1. PICK c : c = fill[Len(fill)]
    OBVIOUS
  <2>2. /\ dropped' = dropped \cup gone
        /\ \E new : Put(objects', objs, c, new) /\ Added(new, gone, objs[c].items, x, ValuesOf(objs))
    BY <1>2, <1>6, <2>1 DEF Grafted
  <2>3. PICK new : Put(objects', objs, c, new) /\ Added(new, gone, objs[c].items, x, ValuesOf(objs))
    BY <2>2
  <2>4. ObjectsOf(objects', b, fill) /\ ValuesOf(objects') = ValuesOf(objs) /\ gone \subseteq ValuesOf(objects')
    BY <1>1, <2>3, PutObjects
  <2>5. TableOf(objects', b, read + 1)
    BY <1>1, <2>3, PutTable DEF ObjectsOf
  <2>6. RootedBut(0, objects', fill, dropped')
    <3>1. fill \in Seq(Nat)
      BY <1>1 DEF ObjectsOf
    <3>2. Len(fill) \in 1 .. Len(fill)
      BY <1>6, <3>1
    <3>3. pending = 0 \/ (pending = x /\ c < x)
      BY <2>1, <3>2
    <3> QED BY <1>1, <1>6, <2>1, <2>2, <2>3, <3>3, PutRooted
  <2>7. writes = 0 /\ dropped' = {} => ItemsOf(pos, at, objects', b, fill, read + 1, turn + 1)
    <3> SUFFICES ASSUME writes = 0, dropped = {}, gone = {}
                 PROVE  ItemsOf(pos, at, objects', b, fill, read + 1, turn + 1)
      BY <2>2
    <3>1. Put(objects', objs, c, Append(objs[c].items, x))
      BY <2>3 DEF Added
    <3> QED BY <1>0, <1>1, <1>6, <2>1, <3>1, PutItems
  <2>8. DOMAIN objects' = DOMAIN objs
    BY <2>3 DEF Put
  <2>9. /\ early' \subseteq DOMAIN objects' /\ dropped' \subseteq ValuesOf(objects')
        /\ result' \in ValuesOf(objects')
    BY <1>0, <1>3, <1>4, <1>6, <2>2, <2>4, <2>8
  <2> QED BY <1>0, <1>1, <1>6, <2>4, <2>5, <2>6, <2>7, <2>9, Settles
<1> QED BY <1>5, <1>6

\* What the steps of the rebuild rely on.
Rebuilding(par, pos) ==
  /\ SourceInv /\ WalkTypeInv /\ IdsInv /\ NoDanglingRef /\ ~threw
  /\ Nested(msg, par, pos) /\ ElementsInv(par, pos) /\ RebuiltInv(par, pos)

(* There is one object more, which is in the table under an id of its own. *)
OneMore(objs, b, k, id) ==
  /\ objs \in Seq(Object) /\ DOMAIN objs = 1 .. Latest /\ Latest \in Nat \ {0}
  /\ DOMAIN objects = 1 .. Latest - 1
  /\ \A o \in DOMAIN objects : o \in DOMAIN objs /\ objs[o] = objects[o] /\ o < Latest
  /\ objs[Latest].kind = k /\ objs[Latest].items = <<>>
  /\ id \notin DOMAIN built /\ DOMAIN b = DOMAIN built \cup {id}
  /\ b[id] = Latest /\ \A i \in DOMAIN built : b[i] = built[i]

LEMMA EmitsOneMore ==
  ASSUME NEW par, NEW pos, Rebuilding(par, pos), read < Len(msg), Emits(Incoming)
  PROVE  OneMore(New(Incoming.kind), BuiltAs(Incoming.id, Latest), Incoming.kind, Incoming.id)
<1>0. /\ SourceInv /\ WalkTypeInv /\ IdsInv /\ TableOf(objects, built, read)
      /\ ObjectsOf(objects, built, filling) /\ read \in 0 .. Len(msg)
  BY DEF Rebuilding, RebuiltInv, RebuildTypeInv, TableInv
<1>1. PICK next : next = read + 1
  OBVIOUS
<1>2. next \in DOMAIN msg /\ Incoming = msg[next] /\ read \in Nat
  BY <1>0, <1>1 DEF WalkTypeInv, Incoming
<1>3. Incoming.kind \in Kinds
  <2>1. PICK n \in DOMAIN seen : kind[n] = msg[next].kind
    BY <1>0, <1>2 DEF IdsInv
  <2> QED BY <1>0, <1>2, <2>1 DEF SourceInv, WalkTypeInv
<1>4. Incoming.id \notin DOMAIN built
  <2> SUFFICES ASSUME Incoming.id \in DOMAIN built PROVE FALSE
    OBVIOUS
  <2>1. PICK j \in 1 .. read : Emits(msg[j]) /\ msg[j].id = Incoming.id
    BY <1>0 DEF TableOf
  <2>2. j \in DOMAIN msg /\ j # next
    BY <1>0, <1>1 DEF WalkTypeInv
  <2> QED BY <1>0, <1>2, <2>1, <2>2 DEF IdsInv
<1>5. PICK item : item = [kind |-> Incoming.kind, items |-> <<>>]
  OBVIOUS
<1>6. item \in Object
  BY <1>3, <1>5 DEF Object
<1>7. PICK objs : objs = New(Incoming.kind)
  OBVIOUS
<1>8. objs = Append(objects, item) /\ objects \in Seq(Object)
  BY <1>0, <1>5, <1>7 DEF New, ObjectsOf
<1>9. /\ objs \in Seq(Object) /\ Len(objects) \in Nat /\ DOMAIN objs = 1 .. Len(objects) + 1
      /\ DOMAIN objects = 1 .. Len(objects)
      /\ objs[Len(objects) + 1] = item /\ \A o \in 1 .. Len(objects) : objs[o] = objects[o]
  BY <1>6, <1>8
<1>10. \A o \in DOMAIN objects : o \in DOMAIN objs /\ objs[o] = objects[o] /\ o < Latest
  BY <1>9 DEF Latest
<1>11. PICK b : b = BuiltAs(Incoming.id, Latest)
  OBVIOUS
<1>12. /\ DOMAIN b = DOMAIN built \cup {Incoming.id} /\ b[Incoming.id] = Latest
       /\ \A i \in DOMAIN built : b[i] = built[i]
  BY <1>4, <1>11 DEF BuiltAs
<1>13. Latest \in Nat \ {0} /\ DOMAIN objs = 1 .. Latest /\ DOMAIN objects = 1 .. Latest - 1
  BY <1>9 DEF Latest
<1>14. objs[Latest].kind = Incoming.kind /\ objs[Latest].items = <<>>
  BY <1>5, <1>9 DEF Latest
<1> QED BY <1>4, <1>7, <1>9, <1>10, <1>11, <1>12, <1>13, <1>14 DEF OneMore

LEMMA OneMoreKeeps ==
  ASSUME NEW par, NEW pos, Rebuilding(par, pos), read < Len(msg), Emits(Incoming),
         NEW objs, NEW b, OneMore(objs, b, Incoming.kind, Incoming.id)
  PROVE  ObjectsOf(objs, b, filling) /\ TableOf(objs, b, read + 1)
<1>0. /\ WalkTypeInv /\ TableOf(objects, built, read)
      /\ ObjectsOf(objects, built, filling) /\ read \in 0 .. Len(msg)
  BY DEF Rebuilding, RebuiltInv, RebuildTypeInv, TableInv
<1>1. PICK next : next = read + 1
  OBVIOUS
<1>2. /\ Incoming = msg[next] /\ next \in 1 .. next /\ read \in Nat
      /\ \A j \in 1 .. next : j = next \/ j \in 1 .. read
  BY <1>0, <1>1 DEF WalkTypeInv, Incoming
<1>3. /\ \A o \in DOMAIN objects : o \in DOMAIN objs /\ objs[o] = objects[o] /\ o < Latest
      /\ DOMAIN objs = 1 .. Latest /\ DOMAIN objects = 1 .. Latest - 1 /\ Latest \in Nat \ {0}
      /\ objs[Latest].items = <<>> /\ objs[Latest].kind = Incoming.kind
      /\ DOMAIN b = DOMAIN built \cup {Incoming.id} /\ Incoming.id \notin DOMAIN built
      /\ b[Incoming.id] = Latest /\ \A i \in DOMAIN built : b[i] = built[i]
  BY DEF OneMore
<1>4. \A o \in DOMAIN objs : o = Latest \/ o \in DOMAIN objects
  BY <1>3
<1>5. ASSUME NEW o \in DOMAIN objs, NEW k \in DOMAIN objs[o].items
      PROVE  objs[o].items[k] \in ValuesOf(objs)
  <2>1. o \in DOMAIN objects
    <3>1. CASE o = Latest
      BY <1>3, <3>1
    <3> QED BY <1>4, <3>1
  <2>2. objects[o].items[k] \in ValuesOf(objects)
    BY <1>0, <1>3, <2>1 DEF ObjectsOf
  <2> QED BY <1>3, <2>1, <2>2 DEF ValuesOf
<1>6. \A id \in DOMAIN b : b[id] \in DOMAIN objs
  BY <1>0, <1>3 DEF ObjectsOf
<1>7. ObjectsOf(objs, b, filling)
  BY <1>0, <1>3, <1>5, <1>6 DEF ObjectsOf, OneMore
<1>8. \A i \in DOMAIN built : built[i] \in DOMAIN objects /\ b[i] < Latest
  BY <1>0, <1>3 DEF ObjectsOf
<1>9. TableOf(objs, b, next)
  <2>1. \A j \in 1 .. next : Emits(msg[j]) => msg[j].id \in DOMAIN b
    BY <1>0, <1>2, <1>3 DEF TableOf
  <2>2. \A id \in DOMAIN b : \E j \in 1 .. next : Emits(msg[j]) /\ msg[j].id = id
    <3> SUFFICES ASSUME NEW id \in DOMAIN b
                 PROVE  \E j \in 1 .. next : Emits(msg[j]) /\ msg[j].id = id
      OBVIOUS
    <3>1. CASE id = Incoming.id
      BY <1>2, <3>1
    <3>2. CASE id \in DOMAIN built
      <4>1. PICK j \in 1 .. read : Emits(msg[j]) /\ msg[j].id = id
        BY <1>0, <3>2 DEF TableOf
      <4>2. j \in 1 .. next
        BY <1>1, <1>2
      <4> QED BY <4>1, <4>2
    <3> QED BY <1>3, <3>1, <3>2
  <2>3. \A i, j \in DOMAIN b : b[i] = b[j] => i = j
    <3>1. \A i, j \in DOMAIN built : built[i] = built[j] => i = j
      BY <1>0 DEF TableOf
    <3> QED BY <1>3, <1>8, <3>1
  <2>4. \A j \in 1 .. next : Emits(msg[j]) => objs[b[msg[j].id]].kind = msg[j].kind
    <3> SUFFICES ASSUME NEW j \in 1 .. next, Emits(msg[j])
                 PROVE  objs[b[msg[j].id]].kind = msg[j].kind
      OBVIOUS
    <3>1. CASE j = next
      BY <1>2, <1>3, <3>1
    <3>2. CASE j \in 1 .. read
      <4>1. msg[j].id \in DOMAIN built /\ objects[built[msg[j].id]].kind = msg[j].kind
        BY <1>0, <3>2 DEF TableOf
      <4> QED BY <1>3, <1>8, <4>1
    <3> QED BY <1>2, <3>1, <3>2
  <2> QED BY <2>1, <2>2, <2>3, <2>4 DEF TableOf
<1> QED BY <1>1, <1>7, <1>9

(* What was a copy still is, ...                                           *)
LEMMA CopyStays ==
  ASSUME NEW kd, NEW s, NEW objs, NEW b, NEW k, NEW id, OneMore(objs, b, k, id),
         NEW x, NEW el, IsCopy(kd, s, built, x, el)
  PROVE  IsCopy(kd, s, b, x, el)
BY DEF IsCopy, OneMore

\* and the objects there were have the elements they had.
LEMMA ItemsStay ==
  ASSUME NEW par, NEW pos, Rebuilding(par, pos), NEW k, NEW id, NEW objs, NEW b,
         OneMore(objs, b, k, id), NEW at, NEW fill, NEW turn,
         ItemsOf(pos, at, objects, built, fill, read, turn),
         NEW i \in 1 .. read, NEW n \in DOMAIN seen, Emits(msg[i]), seen[n] = msg[i].id
  PROVE  LET items == objs[b[seen[n]]].items
         IN /\ Len(items) = Len(kids[n]) \/ \E j \in 1 .. Len(fill) : at[j] = i
            /\ \A e \in DOMAIN items : IsCopy(kind, seen, b, items[e], kids[n][e])
<1>1. seen[n] \in DOMAIN built /\ built[seen[n]] \in DOMAIN objects
  BY DEF Rebuilding, RebuiltInv, TableInv, TableOf, RebuildTypeInv, ObjectsOf
<1>2. objs[b[seen[n]]] = objects[built[seen[n]]]
  BY <1>1 DEF OneMore
<1>3. PICK items : items = objs[b[seen[n]]].items
  OBVIOUS
<1>4. /\ Len(items) = Len(kids[n]) \/ \E j \in 1 .. Len(fill) : at[j] = i
      /\ \A e \in DOMAIN items : IsCopy(kind, seen, built, items[e], kids[n][e])
  BY <1>2, <1>3 DEF ItemsOf
<1>5. \A e \in DOMAIN items : IsCopy(kind, seen, b, items[e], kids[n][e])
  BY <1>4, CopyStays
<1> QED BY <1>3, <1>4, <1>5

\* Where the token to come is.
Place(par, pos, at, next, turn) ==
  /\ next = read + 1 /\ next \in 1 .. Len(msg) /\ read \in 0 .. Len(msg) /\ Len(msg) \in Nat
  /\ Incoming = msg[next]
  /\ filling \in Seq(Nat) /\ Len(filling) \in Nat
  /\ par[next] = at[Len(filling)] /\ pos[next] = turn
  /\ turn = Turn(msg, par, pos, read) /\ turn \in Nat \ {0}
  /\ filling # <<>> \/ read = 0

LEMMA Arrives ==
  ASSUME NEW par, NEW pos, Rebuilding(par, pos), read < Len(msg), NEW at, FillingInv(par, at),
         NEW next, next = read + 1
  PROVE  Place(par, pos, at, next, pos[next])
<1>0. /\ Nested(msg, par, pos) /\ msg \in Seq(Token) /\ read \in 0 .. Len(msg) /\ filling \in Seq(Nat)
  BY DEF Rebuilding, WalkTypeInv, RebuiltInv, RebuildTypeInv, ObjectsOf
<1>1. Len(msg) \in Nat /\ next \in 1 .. Len(msg) /\ Len(filling) \in Nat /\ next - 1 = read
  BY <1>0
<1>2. par[next] = Inside(msg, par, next - 1) /\ pos[next] = Turn(msg, par, pos, next - 1)
      /\ (par[next] = 0 <=> next = 1)
  BY <1>0, <1>1 DEF Nested
<1>3. at[Len(filling)] = Inside(msg, par, read) /\ at[0] = 0
  BY DEF FillingInv, Chain
<1>4. Turn(msg, par, pos, read) \in Nat \ {0}
  BY <1>0, <1>1, InsideIs
<1>5. filling = <<>> => read = 0
  <2> SUFFICES ASSUME filling = <<>> PROVE read = 0
    OBVIOUS
  <2>1. Len(filling) = 0
    OBVIOUS
  <2> QED BY <1>0, <1>1, <1>2, <1>3, <2>1
<1> QED BY <1>0, <1>1, <1>2, <1>3, <1>4, <1>5 DEF Place, Incoming

LEMMA BuildOpenKeeps ==
  ASSUME NEW par, NEW pos, Rebuilding(par, pos), BuildOpen
  PROVE  RebuiltInv(par, pos)'
<1>0. /\ Nested(msg, par, pos) /\ RebuildTypeInv /\ ObjectsOf(objects, built, filling) /\ RootedInv
  BY DEF Rebuilding, RebuiltInv, RebuildTypeInv
<1>1. /\ read < Len(msg) /\ Incoming.t = "open" /\ read' = read + 1
      /\ UNCHANGED <<sourceVars, seen, threw, msg, early, dropped, result>>
      /\ objects' = New(Incoming.kind) /\ built' = BuiltAs(Incoming.id, Latest)
      /\ filling' = Append(filling, Latest)
  BY DEF BuildOpen, Reads, walkVars, Incoming
<1>2. Emits(Incoming)
  BY <1>1 DEF Emits
<1>3. OneMore(objects', built', Incoming.kind, Incoming.id)
  BY <1>1, <1>2, EmitsOneMore
<1>4. ObjectsOf(objects', built', filling) /\ TableOf(objects', built', read + 1)
  BY <1>1, <1>2, <1>3, OneMoreKeeps
<1>5. PICK at : FillingInv(par, at) /\ ItemsInv(par, pos, at)
  BY DEF Rebuilding, RebuiltInv, RebuildInv
<1>6. PICK next : next = read + 1
  OBVIOUS
<1>7. PICK turn : turn = pos[next]
  OBVIOUS
<1>8. Place(par, pos, at, next, turn)
  BY <1>1, <1>5, <1>6, <1>7, Arrives
<1>9. /\ next = read + 1 /\ next \in 1 .. Len(msg) /\ read \in 0 .. Len(msg) /\ Len(msg) \in Nat
      /\ Incoming = msg[next] /\ filling \in Seq(Nat)
      /\ pos[next] = turn /\ turn = Turn(msg, par, pos, read)
      /\ filling # <<>> \/ read = 0
  BY <1>8 DEF Place
<1>10. PICK n \in Nat : n = Len(filling)
  BY <1>9
<1>11. PICK a : a = Deeper(at, n, next)
  OBVIOUS
<1>12. Chain(msg, par, next, n + 1, a)
  BY <1>0, <1>1, <1>5, <1>9, <1>10, <1>11, ChainEnters DEF FillingInv
<1>13. /\ DOMAIN objects' = 1 .. Latest /\ DOMAIN objects = 1 .. Latest - 1 /\ Latest \in Nat \ {0}
       /\ \A o \in DOMAIN objects : o < Latest /\ o \in DOMAIN objects' /\ objects'[o] = objects[o]
       /\ objects'[Latest].items = <<>> /\ built'[Incoming.id] = Latest
       /\ \A i \in DOMAIN built : built'[i] = built[i]
  BY <1>3 DEF OneMore
<1>14. /\ filling' \in Seq(Nat) /\ Len(filling') = n + 1 /\ filling'[n + 1] = Latest
       /\ \A j \in 1 .. n : filling'[j] = filling[j] /\ filling[j] \in DOMAIN objects
       /\ \A j \in 1 .. n + 1 : j = n + 1 \/ j \in 1 .. n
  <2>1. filling \in Seq(Nat) /\ n = Len(filling) /\ filling' = Append(filling, Latest) /\ Latest \in Nat
    BY <1>1, <1>9, <1>10, <1>13
  <2>2. /\ filling' \in Seq(Nat) /\ Len(filling') = n + 1 /\ filling'[n + 1] = Latest
        /\ \A j \in 1 .. n : filling'[j] = filling[j]
    BY <2>1
  <2>3. \A j \in 1 .. n : filling[j] \in DOMAIN objects
    BY <1>0, <1>10 DEF ObjectsOf
  <2>4. \A j \in 1 .. n + 1 : j = n + 1 \/ j \in 1 .. n
    BY <1>10
  <2> QED BY <2>2, <2>3, <2>4
<1>15. ObjectsOf(objects', built', filling')
  <2>1. \A j \in 1 .. Len(filling') : filling'[j] \in DOMAIN objects'
    BY SMTT(30), <1>13, <1>14
  <2> QED BY <1>4, <1>14, <2>1 DEF ObjectsOf
<1>16. /\ \A j \in 1 .. n : a[j] = at[j]
       /\ a[n + 1] = next
  BY <1>10, <1>11 DEF Deeper
<1>17. FillingOf(a, built', filling')
  <2>1. \A j \in 1 .. n : filling[j] = built[msg[at[j]].id]
    BY <1>5, <1>10 DEF FillingInv, FillingOf
  <2>2. ASSUME NEW j \in 1 .. n + 1
        PROVE  filling'[j] = built'[msg[a[j]].id]
    <3>1. CASE j = n + 1
      BY <1>9, <1>13, <1>14, <1>16, <3>1
    <3>2. CASE j \in 1 .. n
      <4>1. at[j] \in 1 .. read /\ msg[at[j]].t = "open"
        <5>1. Chain(msg, par, read, n, at)
          BY <1>5, <1>10 DEF FillingInv
        <5>2. /\ at[j] \in 0 .. read
              /\ at[j] # 0 /\ msg[at[j]].t = "open"
          BY <1>10, <3>2, <5>1 DEF Chain
        <5> QED BY <1>9, <5>2
      <4>2. msg[at[j]].id \in DOMAIN built
        BY <4>1 DEF Emits, Rebuilding, RebuiltInv, TableInv, TableOf
      <4> QED BY SMTT(30), <1>13, <1>14, <1>16, <2>1, <3>2, <4>2
    <3> QED BY <1>14, <3>1, <3>2
  <2>3. ASSUME NEW i \in 1 .. n + 1, NEW j \in 1 .. n + 1, i < j
        PROVE  filling'[i] < filling'[j]
    <3>1. i \in 1 .. n /\ filling'[i] = filling[i] /\ filling[i] \in DOMAIN objects
      BY <1>14, <2>3
    <3>2. CASE j = n + 1
      BY <1>13, <1>14, <3>1, <3>2
    <3>3. CASE j \in 1 .. n
      <4>1. filling[i] < filling[j]
        BY <1>5, <1>10, <2>3, <3>1, <3>3 DEF FillingInv, FillingOf
      <4> QED BY <1>14, <3>1, <3>3, <4>1
    <3> QED BY <1>14, <3>2, <3>3
  <2> QED BY <1>14, <2>2, <2>3 DEF FillingOf
<1>18. Turn(msg, par, pos, next) = 1
  BY <1>1, <1>9 DEF Turn
<1>19. writes = 0 /\ dropped = {} => ItemsOf(pos, a, objects', built', filling', next, 1)
  <2> SUFFICES ASSUME writes = 0, dropped = {}
               PROVE  ItemsOf(pos, a, objects', built', filling', next, 1)
    OBVIOUS
  <2>1. ItemsOf(pos, at, objects, built, filling, read, turn)
    BY <1>5, <1>9 DEF ItemsInv
  <2>2. ASSUME NEW j \in 1 .. n + 1
        PROVE  Len(objects'[filling'[j]].items) + 1 = IF j = n + 1 THEN 1 ELSE pos[a[j + 1]]
    <3>1. CASE j = n + 1
      BY <1>13, <1>14, <3>1
    <3>2. CASE j \in 1 .. n
      <4>1. Len(objects[filling[j]].items) + 1 = IF j = n THEN turn ELSE pos[at[j + 1]]
        BY <1>10, <2>1, <3>2 DEF ItemsOf
      <4>2. objects'[filling'[j]] = objects[filling[j]]
        BY <1>13, <1>14, <3>2
      <4>3. j # n => j + 1 \in 1 .. n
        BY <1>10, <3>2
      <4>4. pos[a[j + 1]] = IF j = n THEN turn ELSE pos[at[j + 1]]
        BY <1>9, <1>16, <4>3
      <4>5. j # n + 1
        BY <1>10, <3>2
      <4> QED BY <4>1, <4>2, <4>4, <4>5
    <3> QED BY <1>14, <3>1, <3>2
  <2>3. ASSUME NEW i \in 1 .. next, NEW m \in DOMAIN seen, Emits(msg[i]), seen[m] = msg[i].id
        PROVE  LET its == objects'[built'[seen[m]]].items
               IN /\ Len(its) = Len(kids[m]) \/ \E j \in 1 .. n + 1 : a[j] = i
                  /\ \A e \in DOMAIN its : IsCopy(kind, seen, built', its[e], kids[m][e])
    <3>1. CASE i = next
      <4>1. objects'[built'[seen[m]]].items = <<>>
        BY <1>9, <1>13, <2>3, <3>1
      <4>2. n + 1 \in 1 .. n + 1 /\ a[n + 1] = i
        BY <1>10, <1>16, <3>1
      <4> QED BY <4>1, <4>2
    <3>2. CASE i \in 1 .. read
      <4>1. LET its == objects'[built'[seen[m]]].items
            IN /\ Len(its) = Len(kids[m]) \/ \E j \in 1 .. Len(filling) : at[j] = i
               /\ \A e \in DOMAIN its : IsCopy(kind, seen, built', its[e], kids[m][e])
        BY <1>3, <2>1, <2>3, <3>2, ItemsStay
      <4>2. \A j \in 1 .. n : j \in 1 .. n + 1
        BY <1>10
      <4> QED BY <1>10, <1>16, <4>1, <4>2
    <3> QED BY <1>9, <3>1, <3>2
  <2> QED BY <1>14, <2>2, <2>3 DEF ItemsOf
<1>20. RootedBut(0, objects', filling', dropped)
  <2>1. RootedBut(0, objects, filling, dropped)
    BY <1>0, <1>9 DEF RootedInv
  <2>2. \A j \in 1 .. n : j \in 1 .. n + 1
    BY <1>10
  <2>3. n + 1 \in 1 .. n + 1
    BY <1>10
  <2> SUFFICES ASSUME NEW o \in DOMAIN objects', o # Latest
               PROVE  \/ \E j \in 1 .. n + 1 : filling'[j] = o
                      \/ o \in dropped
                      \/ \E y \in DOMAIN objects' : y < o /\ \E k \in DOMAIN objects'[y].items : objects'[y].items[k] = o
    BY <1>14, <2>3 DEF RootedBut
  <2>4. o \in DOMAIN objects /\ o # 0
    BY <1>13
  <2>5. \/ \E j \in 1 .. n : filling[j] = o
        \/ o \in dropped
        \/ \E y \in DOMAIN objects : y < o /\ \E k \in DOMAIN objects[y].items : objects[y].items[k] = o
    BY <1>10, <2>1, <2>4 DEF RootedBut
  <2> QED BY <1>13, <1>14, <2>2, <2>5
<1>21. /\ early' \subseteq DOMAIN objects' /\ dropped' \subseteq ValuesOf(objects')
       /\ result' \in ValuesOf(objects')
  BY <1>0, <1>1, <1>13 DEF RebuildTypeInv, Made, Values, ValuesOf
<1>22. filling' # <<>>
  BY <1>10, <1>14
<1>23. /\ read' = next /\ read' \in 1 .. Len(msg) /\ TableOf(objects', built', read')
       /\ RootedBut(0, objects', filling', dropped')
       /\ Chain(msg, par, read', Len(filling'), a) /\ 1 = Turn(msg, par, pos, read')
       /\ writes = 0 /\ dropped' = {} => ItemsOf(pos, a, objects', built', filling', read', 1)
  BY <1>1, <1>4, <1>6, <1>9, <1>12, <1>14, <1>18, <1>19, <1>20
<1> QED BY ZenonT(60), <1>1, <1>15, <1>17, <1>21, <1>22, <1>23, Settles

(* A token that gives no id adds nothing to the table.                     *)
LEMMA TableWaits ==
  ASSUME NEW objs, NEW b, NEW k \in Nat, TableOf(objs, b, k), ~Emits(msg[k + 1])
  PROVE  TableOf(objs, b, k + 1)
<1>1. PICK next : next = k + 1
  OBVIOUS
<1>2. /\ \A j \in 1 .. next : j = next \/ j \in 1 .. k
      /\ \A j \in 1 .. k : j \in 1 .. next
  BY <1>1
<1>3. ~Emits(msg[next])
  BY <1>1
<1>4. TableOf(objs, b, next)
  BY <1>2, <1>3 DEF TableOf
<1> QED BY <1>1, <1>4

LEMMA BuildCloseKeeps ==
  ASSUME NEW par, NEW pos, Rebuilding(par, pos), BuildClose
  PROVE  RebuiltInv(par, pos)'
<1>0. /\ Nested(msg, par, pos) /\ ElementsInv(par, pos) /\ RebuildTypeInv /\ TableInv
      /\ ObjectsOf(objects, built, filling) /\ RootedInv /\ IdsInv /\ WalkTypeInv /\ ~threw
      /\ msg \in Seq(Token)
  BY DEF Rebuilding, RebuiltInv, RebuildTypeInv, WalkTypeInv
<1>1. /\ read < Len(msg) /\ Incoming.t = "close" /\ read' = read + 1
      /\ UNCHANGED <<sourceVars, seen, threw, msg, built>>
      /\ filling' = SubSeq(filling, 1, Len(filling) - 1)
  BY DEF BuildClose, Reads, walkVars, Incoming
<1>2. PICK at : FillingInv(par, at) /\ ItemsInv(par, pos, at)
  BY DEF Rebuilding, RebuiltInv, RebuildInv
<1>3. PICK next : next = read + 1
  OBVIOUS
<1>4. Place(par, pos, at, next, pos[next])
  BY <1>1, <1>2, <1>3, Arrives
<1>5. /\ next = read + 1 /\ next \in 1 .. Len(msg) /\ read \in 0 .. Len(msg) /\ Len(msg) \in Nat
      /\ msg[next].t = "close" /\ filling \in Seq(Nat) /\ par[next] = at[Len(filling)]
      /\ pos[next] = Turn(msg, par, pos, read)
  BY <1>1, <1>4 DEF Place
<1>6. PICK n \in Nat : n = Len(filling)
  BY <1>5
<1>7. Chain(msg, par, read, n, at)
  BY <1>2, <1>6 DEF FillingInv
<1>8. n # 0 /\ filling # <<>>
  <2>1. n # 0
    BY <1>0, <1>5, <1>7, ClosesOne
  <2> QED BY <1>6, <2>1
<1>9. PICK a : a = Outer(at, n)
  OBVIOUS
<1>10. Chain(msg, par, next, n - 1, a)
  BY <1>0, <1>5, <1>7, <1>9, ChainLeaves
<1>11. CutOff(filling', filling, Nat)
  BY <1>1, <1>5, <1>8, CutsOff
<1>12. /\ filling' \in Seq(Nat) /\ Len(filling') = n - 1 /\ n - 1 \in Nat
       /\ \A j \in 1 .. n - 1 : filling'[j] = filling[j] /\ j \in 1 .. n /\ j # n
       /\ \A j \in 1 .. n : j = n \/ j \in 1 .. n - 1
       /\ n \in 1 .. n
  BY <1>6, <1>8, <1>11 DEF CutOff
<1>13. /\ \A j \in 0 .. n - 1 : a[j] = at[j]
       /\ \A j \in 1 .. n - 1 : j \in 0 .. n - 1 /\ (j # n - 1 => j + 1 \in 0 .. n - 1)
       /\ n - 1 \in 0 .. n - 1
  BY <1>9, <1>12 DEF Outer
<1>14. PICK x : x = filling[n]
  OBVIOUS
<1>15. PICK g : g = at[n]
  OBVIOUS
<1>16. /\ g \in 1 .. read /\ msg[g].t = "open" /\ par[g] = a[n - 1] /\ par[next] = g
       /\ x = built[msg[g].id] /\ x \in DOMAIN objects
  <2>1. /\ at[n] \in 0 .. read
        /\ at[n] # 0 /\ msg[at[n]].t = "open" /\ par[at[n]] = at[n - 1]
    BY <1>7, <1>12 DEF Chain
  <2>2. x = built[msg[g].id]
    BY <1>2, <1>6, <1>12, <1>14, <1>15 DEF FillingInv, FillingOf
  <2>3. x \in DOMAIN objects
    BY <1>0, <1>6, <1>12, <1>14 DEF ObjectsOf
  <2> QED BY <1>5, <1>6, <1>13, <1>15, <2>1, <2>2, <2>3
<1>17. PICK turn : turn = pos[g]
  OBVIOUS
<1>18. turn \in Nat \ {0} /\ Turn(msg, par, pos, next) = turn + 1
  <2>1. g \in 1 .. Len(msg)
    BY <1>5, <1>16
  <2>2. pos[g] \in Nat \ {0}
    BY <1>0, <2>1 DEF Nested
  <2>3. next # 0
    BY <1>5
  <2> QED BY <1>5, <1>16, <1>17, <2>2, <2>3 DEF Turn
<1>19. ObjectsOf(objects, built, filling')
  <2>1. \A j \in 1 .. n - 1 : filling'[j] \in DOMAIN objects
    BY <1>0, <1>6, <1>12 DEF ObjectsOf
  <2> QED BY <1>0, <1>12, <2>1 DEF ObjectsOf
<1>20. TableOf(objects, built, next)
  <2>1. ~Emits(msg[read + 1])
    BY <1>5 DEF Emits
  <2>2. read \in Nat
    BY <1>5
  <2> QED BY <1>0, <1>5, <2>1, <2>2, TableWaits DEF TableInv
<1>21. FillingOf(a, built, filling')
  BY <1>2, <1>6, <1>12, <1>13 DEF FillingInv, FillingOf
<1>22. writes = 0 /\ dropped = {} => ItemsOf(pos, a, objects, built, filling', next, turn)
  <2> SUFFICES ASSUME writes = 0, dropped = {}
               PROVE  ItemsOf(pos, a, objects, built, filling', next, turn)
    OBVIOUS
  <2>1. ItemsOf(pos, at, objects, built, filling, read, pos[next])
    BY <1>2, <1>5 DEF ItemsInv
  <2>2. ASSUME NEW j \in 1 .. n - 1
        PROVE  Len(objects[filling'[j]].items) + 1 = IF j = n - 1 THEN turn ELSE pos[a[j + 1]]
    <3>1. Len(objects[filling[j]].items) + 1 = pos[at[j + 1]]
      BY <1>6, <1>12, <2>1 DEF ItemsOf
    <3>2. CASE j = n - 1
      <4>1. j + 1 = n
        BY <1>6, <3>2
      <4> QED BY <1>12, <1>15, <1>17, <3>1, <3>2, <4>1
    <3>3. CASE j # n - 1
      BY <1>12, <1>13, <3>1, <3>3
    <3> QED BY <3>2, <3>3
  <2>3. ASSUME NEW i \in 1 .. next, NEW m \in DOMAIN seen, Emits(msg[i]), seen[m] = msg[i].id
        PROVE  LET its == objects[built[seen[m]]].items
               IN /\ Len(its) = Len(kids[m]) \/ \E j \in 1 .. n - 1 : a[j] = i
                  /\ \A e \in DOMAIN its : IsCopy(kind, seen, built, its[e], kids[m][e])
    <3>1. i \in 1 .. read
      <4>1. i # next
        BY <1>5, <2>3 DEF Emits
      <4> QED BY <1>5, <4>1
    <3>2. LET its == objects[built[seen[m]]].items
          IN /\ Len(its) = Len(kids[m]) \/ \E j \in 1 .. n : at[j] = i
             /\ \A e \in DOMAIN its : IsCopy(kind, seen, built, its[e], kids[m][e])
      BY <1>6, <2>1, <2>3, <3>1 DEF ItemsOf
    <3>3. CASE i = g
      <4>1. Len(objects[x].items) + 1 = pos[next]
        BY <1>6, <1>12, <1>14, <2>1 DEF ItemsOf
      <4>2. pos[next] = Len(kids[m]) + 1
        <5>1. par[next] # 0 /\ seen[m] = msg[par[next]].id
          BY <1>16, <2>3, <3>3
        <5> QED BY <1>0, <1>5, <5>1 DEF ElementsInv
      <4>3. built[seen[m]] = x
        BY <1>16, <2>3, <3>3
      <4>4. Len(objects[x].items) \in Nat /\ Len(kids[m]) \in Nat
        <5>1. objects[x] \in Object
          BY <1>0, <1>16 DEF ObjectsOf
        <5>2. kids[m] \in Seq(Elements)
          BY DEF Rebuilding, SourceInv, WalkTypeInv
        <5>3. objects[x].items \in Seq(Value)
          BY <5>1 DEF Object
        <5> QED BY <5>2, <5>3
      <4>5. Len(objects[x].items) = Len(kids[m])
        BY <4>1, <4>2, <4>4
      <4> QED BY <3>2, <4>3, <4>5
    <3>4. CASE i # g
      BY <1>12, <1>13, <1>15, <3>2, <3>4
    <3> QED BY <3>3, <3>4
  <2> QED BY <1>12, <2>2, <2>3 DEF ItemsOf
<1>23. RootedBut(x, objects, filling', dropped)
  <2>1. RootedBut(0, objects, filling, dropped)
    BY <1>0, <1>8 DEF RootedInv
  <2>2. 0 \notin DOMAIN objects
    BY <1>0 DEF ObjectsOf
  <2> QED BY <1>6, <1>12, <1>14, <2>1, <2>2 DEF RootedBut
<1>24. \A j \in 1 .. Len(filling') : filling'[j] < x
  BY <1>2, <1>6, <1>12, <1>14 DEF FillingInv, FillingOf
<1>25. Fits(par, pos, g, built, x)
  <2>1. msg[g].id \in DOMAIN built
    BY <1>0, <1>16 DEF Emits, TableInv, TableOf
  <2>2. g \in 1 .. Len(msg)
    BY <1>5, <1>16
  <2>3. \A el : StandsFor(kind, seen, msg[g], el) => IsCopy(kind, seen, built, x, el)
    <3>1. DOMAIN seen \subseteq Nodes
      BY <1>0 DEF WalkTypeInv
    <3> QED BY <1>16, <2>1, <3>1, RootAssumption, ObjectCopies
  <2> QED BY <1>0, <1>16, <2>2, <2>3, Fitting
<1>26. Graft(x, objects, filling')
  BY <1>6, <1>14 DEF BuildClose
<1>27. Between(par, pos, a, objects, built, filling', turn, x)
  BY <1>5, <1>10, <1>12, <1>19, <1>20, <1>21, <1>22, <1>23 DEF Between
<1>28. x \in ValuesOf(objects) /\ par[g] = a[Len(filling')]
  BY <1>12, <1>16 DEF ValuesOf
<1>29. Turn(msg, par, pos, read + 1) = turn + 1
  BY <1>5, <1>18
<1> QED BY <1>0, <1>1, <1>17, <1>18, <1>24, <1>25, <1>26, <1>27, <1>28, <1>29, GraftKeeps

(* A token that neither opens nor closes a container.                      *)
LEMMA LeafPlace ==
  ASSUME NEW par, NEW pos, Rebuilding(par, pos), read < Len(msg),
         Incoming.t \notin {"open", "close"},
         NEW at, FillingInv(par, at), NEW next, next = read + 1, NEW turn, turn = pos[next]
  PROVE  /\ Place(par, pos, at, next, turn)
         /\ Chain(msg, par, next, Len(filling), at)
         /\ Turn(msg, par, pos, next) = turn + 1
<1>0. Nested(msg, par, pos)
  BY DEF Rebuilding
<1>1. Place(par, pos, at, next, turn)
  BY Arrives
<1>2. /\ next \in 1 .. Len(msg) /\ read \in 0 .. Len(msg) /\ Len(msg) \in Nat
      /\ msg[next].t \notin {"open", "close"} /\ Len(filling) \in Nat
  BY <1>1 DEF Place
<1>3. PICK n \in Nat : n = Len(filling)
  BY <1>2
<1>4. Chain(msg, par, read, n, at)
  BY <1>3 DEF FillingInv
<1>5. Chain(msg, par, next, n, at)
  BY <1>0, <1>2, <1>3, <1>4, ChainPasses
<1>6. Turn(msg, par, pos, next) = turn + 1
  BY <1>2 DEF Turn
<1> QED BY <1>1, <1>3, <1>5, <1>6

LEMMA PlainBetween ==
  ASSUME NEW par, NEW pos, Rebuilding(par, pos), read < Len(msg),
         Incoming.t \in {"prim", "text", "ref"},
         NEW at, FillingInv(par, at), ItemsInv(par, pos, at), NEW turn, turn = pos[read + 1]
  PROVE  Between(par, pos, at, objects, built, filling, turn, 0)
<1>0. /\ RebuildTypeInv /\ TableInv /\ RootedInv /\ ObjectsOf(objects, built, filling)
  BY DEF Rebuilding, RebuiltInv, RebuildTypeInv
<1>1. PICK next : next = read + 1
  OBVIOUS
<1>2. Place(par, pos, at, next, turn) /\ Chain(msg, par, next, Len(filling), at)
  BY <1>1, LeafPlace
<1>3. /\ read \in Nat /\ Incoming = msg[next] /\ next \in 1 .. Len(msg)
      /\ turn = Turn(msg, par, pos, read) /\ (filling # <<>> \/ read = 0)
      /\ \A j \in 1 .. next : j = next \/ j \in 1 .. read
  BY <1>2 DEF Place
<1>4. ~Emits(msg[next])
  BY <1>3 DEF Emits
<1>5. TableOf(objects, built, next)
  BY <1>0, <1>1, <1>3, <1>4, TableWaits DEF TableInv
<1>6. FillingOf(at, built, filling)
  BY DEF FillingInv
<1>7. writes = 0 /\ dropped = {} => ItemsOf(pos, at, objects, built, filling, next, turn)
  <2> SUFFICES ASSUME writes = 0, dropped = {}
               PROVE  ItemsOf(pos, at, objects, built, filling, next, turn)
    OBVIOUS
  <2>1. ItemsOf(pos, at, objects, built, filling, read, turn)
    BY <1>3 DEF ItemsInv
  <2> QED BY <1>3, <1>4, <2>1 DEF ItemsOf
<1>8. filling # <<>> => RootedBut(0, objects, filling, dropped)
  BY <1>0 DEF RootedInv
<1> QED BY <1>0, <1>1, <1>2, <1>5, <1>6, <1>7, <1>8 DEF Between

(* A Ref finds the object that was made under its id.                      *)
LEMMA RefFound ==
  ASSUME IdsInv, NoDanglingRef, TableInv, msg \in Seq(Token), read \in 0 .. Len(msg),
         read < Len(msg), Incoming.t = "ref"
  PROVE  Incoming.id \in DOMAIN built
<1>1. PICK next : next = read + 1
  OBVIOUS
<1>2. next \in DOMAIN msg /\ msg[next] = Incoming /\ next - 1 = read
  BY <1>1 DEF Incoming
<1>3. PICK j \in 1 .. read : Emits(msg[j]) /\ msg[j].id = Incoming.id
  BY <1>2 DEF NoDanglingRef, Emits
<1> QED BY <1>3 DEF TableInv, TableOf

(* A value is put where its token is.                                      *)
LEMMA PlainKeeps ==
  ASSUME NEW par, NEW pos, Rebuilding(par, pos), read < Len(msg), read' = read + 1,
         Incoming.t \in {"prim", "text", "ref"},
         UNCHANGED <<sourceVars, seen, threw, msg, built, filling>>,
         NEW x \in ValuesOf(objects), Graft(x, objects, filling),
         \A el : StandsFor(kind, seen, Incoming, el) => IsCopy(kind, seen, built, x, el)
  PROVE  RebuiltInv(par, pos)'
<1>0. /\ Nested(msg, par, pos) /\ ElementsInv(par, pos) /\ RebuildTypeInv /\ IdsInv /\ ~threw
      /\ msg \in Seq(Token)
  BY DEF Rebuilding, RebuiltInv, WalkTypeInv
<1>1. PICK at : FillingInv(par, at) /\ ItemsInv(par, pos, at)
  BY DEF Rebuilding, RebuiltInv, RebuildInv
<1>2. PICK next : next = read + 1
  OBVIOUS
<1>3. PICK turn : turn = pos[next]
  OBVIOUS
<1>4. Place(par, pos, at, next, turn) /\ Turn(msg, par, pos, read + 1) = turn + 1
  BY <1>1, <1>2, <1>3, LeafPlace
<1>5. /\ next \in 1 .. Len(msg) /\ Incoming = msg[next] /\ par[next] = at[Len(filling)]
      /\ turn \in Nat \ {0}
  BY <1>4 DEF Place
<1>6. Fits(par, pos, next, built, x)
  BY <1>0, <1>5, Fitting
<1>7. Between(par, pos, at, objects, built, filling, turn, 0)
  BY <1>1, <1>2, <1>3, PlainBetween
<1> QED BY <1>0, <1>3, <1>4, <1>5, <1>6, <1>7, GraftKeeps

LEMMA BuildRefKeeps ==
  ASSUME NEW par, NEW pos, Rebuilding(par, pos), BuildRef
  PROVE  RebuiltInv(par, pos)'
<1>0. /\ WalkTypeInv /\ IdsInv /\ NoDanglingRef /\ TableInv /\ RebuildTypeInv
      /\ ObjectsOf(objects, built, filling) /\ msg \in Seq(Token) /\ DOMAIN seen \subseteq Nodes
  BY DEF Rebuilding, RebuiltInv, RebuildTypeInv, WalkTypeInv
<1>1. /\ read < Len(msg) /\ Incoming.t = "ref" /\ read' = read + 1
      /\ UNCHANGED <<sourceVars, seen, threw, msg, built, filling>>
  BY DEF BuildRef, Reads, walkVars, Incoming
<1>2. Incoming.id \in DOMAIN built
  BY <1>0, <1>1, RefFound DEF RebuildTypeInv
<1>3. PICK x : x = built[Incoming.id]
  OBVIOUS
<1>4. Graft(x, objects, filling)
  BY <1>2, <1>3 DEF BuildRef
<1>5. x \in ValuesOf(objects)
  BY <1>0, <1>2, <1>3 DEF ObjectsOf, ValuesOf
<1>6. \A el : StandsFor(kind, seen, Incoming, el) => IsCopy(kind, seen, built, x, el)
  BY <1>0, <1>1, <1>2, <1>3, RootAssumption, ObjectCopies
<1> QED BY <1>1, <1>4, <1>5, <1>6, PlainKeeps

LEMMA BuildValueKeeps ==
  ASSUME NEW par, NEW pos, Rebuilding(par, pos), BuildValue
  PROVE  RebuiltInv(par, pos)'
<1>1. PICK x : /\ Graft(x, objects, filling)
               /\ \/ Incoming.t = "prim" /\ x = Prim
                  \/ Incoming.t = "text" /\ x = Text
               /\ read < Len(msg) /\ read' = read + 1
               /\ UNCHANGED <<sourceVars, seen, threw, msg, built, filling>>
  <2>1. CASE Reads("prim") /\ Graft(Prim, objects, filling)
    <3>1. /\ read < Len(msg) /\ Incoming.t = "prim" /\ read' = read + 1
          /\ UNCHANGED <<sourceVars, seen, threw, msg, built, filling>>
      BY <2>1 DEF BuildValue, Reads, walkVars, Incoming
    <3> QED BY <2>1, <3>1
  <2>2. CASE Reads("text") /\ Graft(Text, objects, filling)
    <3>1. /\ read < Len(msg) /\ Incoming.t = "text" /\ read' = read + 1
          /\ UNCHANGED <<sourceVars, seen, threw, msg, built, filling>>
      BY <2>2 DEF BuildValue, Reads, walkVars, Incoming
    <3> QED BY <2>2, <3>1
  <2> QED BY <2>1, <2>2 DEF BuildValue
<1>2. x \in ValuesOf(objects)
  BY <1>1 DEF ValuesOf
<1>3. \A el : StandsFor(kind, seen, Incoming, el) => IsCopy(kind, seen, built, x, el)
  BY <1>1, RootAssumption, ValueCopies
<1> QED BY <1>1, <1>2, <1>3, PlainKeeps

LEMMA BuildBytesKeeps ==
  ASSUME NEW par, NEW pos, Rebuilding(par, pos), BuildBytes
  PROVE  RebuiltInv(par, pos)'
<1>0. /\ Nested(msg, par, pos) /\ ElementsInv(par, pos) /\ RebuildTypeInv /\ SourceInv /\ WalkTypeInv
      /\ ObjectsOf(objects, built, filling) /\ RootedInv /\ IdsInv /\ ~threw /\ msg \in Seq(Token)
  BY DEF Rebuilding, RebuiltInv, RebuildTypeInv, WalkTypeInv
<1>1. /\ read < Len(msg) /\ Incoming.t = "bytes" /\ read' = read + 1
      /\ UNCHANGED <<sourceVars, seen, threw, msg, filling>>
      /\ built' = BuiltAs(Incoming.id, Latest) /\ Graft(Latest, New("bytes"), filling)
  BY DEF BuildBytes, Reads, walkVars, Incoming
<1>2. Emits(Incoming)
  BY <1>1 DEF Emits
<1>3. PICK at : FillingInv(par, at) /\ ItemsInv(par, pos, at)
  BY DEF Rebuilding, RebuiltInv, RebuildInv
<1>4. PICK next : next = read + 1
  OBVIOUS
<1>5. PICK turn : turn = pos[next]
  OBVIOUS
<1>6. /\ Place(par, pos, at, next, turn) /\ Chain(msg, par, next, Len(filling), at)
      /\ Turn(msg, par, pos, read + 1) = turn + 1
  BY <1>1, <1>3, <1>4, <1>5, LeafPlace
<1>7. /\ next \in 1 .. Len(msg) /\ Incoming = msg[next] /\ par[next] = at[Len(filling)]
      /\ turn \in Nat \ {0} /\ turn = Turn(msg, par, pos, read) /\ read \in 0 .. Len(msg)
      /\ (filling # <<>> \/ read = 0) /\ Len(filling) \in Nat
      /\ \A j \in 1 .. next : j = next \/ j \in 1 .. read
  BY <1>6 DEF Place
<1>8. Incoming.kind = "bytes" /\ \A n \in DOMAIN seen : seen[n] = Incoming.id => kids[n] = <<>>
  <2>1. PICK m \in DOMAIN seen : /\ seen[m] = Incoming.id /\ kind[m] = Incoming.kind
                                 /\ kind[m] = "bytes"
    BY <1>0, <1>1, <1>2, <1>7 DEF IdsInv
  <2>2. kids[m] = <<>>
    BY <1>0, <2>1 DEF SourceInv, WalkTypeInv
  <2> QED BY <1>0, <2>1, <2>2 DEF IdsInv
<1>9. PICK objs : objs = New("bytes")
  OBVIOUS
<1>10. PICK b : b = BuiltAs(Incoming.id, Latest)
  OBVIOUS
<1>11. OneMore(objs, b, Incoming.kind, Incoming.id)
  BY <1>1, <1>2, <1>8, <1>9, <1>10, EmitsOneMore
<1>12. ObjectsOf(objs, b, filling) /\ TableOf(objs, b, read + 1)
  BY <1>1, <1>2, <1>11, OneMoreKeeps
<1>13. /\ DOMAIN objs = 1 .. Latest /\ DOMAIN objects = 1 .. Latest - 1 /\ Latest \in Nat \ {0}
       /\ \A o \in DOMAIN objects : o < Latest /\ o \in DOMAIN objs /\ objs[o] = objects[o]
       /\ objs[Latest].items = <<>> /\ b[Incoming.id] = Latest /\ Incoming.id \in DOMAIN b
       /\ \A i \in DOMAIN built : b[i] = built[i]
  BY <1>11 DEF OneMore
<1>14. \A j \in 1 .. Len(filling) : filling[j] \in DOMAIN objects /\ filling[j] < Latest
  BY <1>0, <1>13 DEF ObjectsOf
<1>15. FillingOf(at, b, filling)
  <2>1. ASSUME NEW j \in 1 .. Len(filling)
        PROVE  filling[j] = b[msg[at[j]].id]
    <3>1. at[j] \in 1 .. read /\ msg[at[j]].t = "open"
      <4>1. Chain(msg, par, read, Len(filling), at)
        BY <1>3 DEF FillingInv
      <4>2. /\ at[j] \in 0 .. read
            /\ at[j] # 0 /\ msg[at[j]].t = "open"
        BY <1>7, <4>1 DEF Chain
      <4> QED BY <1>7, <4>2
    <3>2. msg[at[j]].id \in DOMAIN built
      BY <3>1 DEF Emits, Rebuilding, RebuiltInv, TableInv, TableOf
    <3>3. filling[j] = built[msg[at[j]].id]
      BY <1>3 DEF FillingInv, FillingOf
    <3> QED BY <1>13, <3>2, <3>3
  <2> QED BY <1>3, <2>1 DEF FillingInv, FillingOf
<1>16. writes = 0 /\ dropped = {} => ItemsOf(pos, at, objs, b, filling, next, turn)
  <2> SUFFICES ASSUME writes = 0, dropped = {}
               PROVE  ItemsOf(pos, at, objs, b, filling, next, turn)
    OBVIOUS
  <2>1. ItemsOf(pos, at, objects, built, filling, read, turn)
    BY <1>3, <1>7 DEF ItemsInv
  <2>2. \A j \in 1 .. Len(filling) :
          Len(objs[filling[j]].items) + 1 = IF j = Len(filling) THEN turn ELSE pos[at[j + 1]]
    BY <1>13, <1>14, <2>1 DEF ItemsOf
  <2>3. ASSUME NEW i \in 1 .. next, NEW m \in DOMAIN seen, Emits(msg[i]), seen[m] = msg[i].id
        PROVE  LET its == objs[b[seen[m]]].items
               IN /\ Len(its) = Len(kids[m]) \/ \E j \in 1 .. Len(filling) : at[j] = i
                  /\ \A e \in DOMAIN its : IsCopy(kind, seen, b, its[e], kids[m][e])
    <3>1. CASE i = next
      <4>1. objs[b[seen[m]]].items = <<>> /\ kids[m] = <<>>
        BY <1>7, <1>8, <1>13, <2>3, <3>1
      <4> QED BY <4>1
    <3>2. CASE i \in 1 .. read
      BY <1>11, <2>1, <2>3, <3>2, ItemsStay
    <3> QED BY <1>7, <3>1, <3>2
  <2> QED BY <2>2, <2>3 DEF ItemsOf
<1>17. filling # <<>> => RootedBut(Latest, objs, filling, dropped)
  <2> SUFFICES ASSUME filling # <<>>, NEW o \in DOMAIN objs, o # Latest
               PROVE  \/ \E j \in 1 .. Len(filling) : filling[j] = o
                      \/ o \in dropped
                      \/ \E y \in DOMAIN objs : y < o /\ \E k \in DOMAIN objs[y].items : objs[y].items[k] = o
    BY DEF RootedBut
  <2>1. o \in DOMAIN objects /\ o # 0
    BY <1>13
  <2>2. RootedBut(0, objects, filling, dropped)
    BY <1>0 DEF RootedInv
  <2>3. \/ \E j \in 1 .. Len(filling) : filling[j] = o
        \/ o \in dropped
        \/ \E y \in DOMAIN objects : y < o /\ \E k \in DOMAIN objects[y].items : objects[y].items[k] = o
    BY <2>1, <2>2 DEF RootedBut
  <2> QED BY <1>13, <2>3
<1>18. Between(par, pos, at, objs, b, filling, turn, Latest)
  BY <1>4, <1>6, <1>12, <1>15, <1>16, <1>17 DEF Between
<1>19. Fits(par, pos, next, b, Latest)
  <2>1. \A el : StandsFor(kind, seen, msg[next], el) => IsCopy(kind, seen, b, Latest, el)
    <3>1. DOMAIN seen \subseteq Nodes
      BY <1>0 DEF WalkTypeInv
    <3>2. PICK token : token = msg[next]
      OBVIOUS
    <3>3. token.t = "bytes" /\ token.id \in DOMAIN b /\ b[token.id] = Latest
      BY <1>1, <1>7, <1>13, <3>2
    <3>4. ASSUME NEW el, StandsFor(kind, seen, token, el)
          PROVE  IsCopy(kind, seen, b, b[token.id], el)
      BY <3>1, <3>3, <3>4, RootAssumption, ObjectCopies
    <3> QED BY <3>2, <3>3, <3>4
  <2>2. msg[next].t # "close"
    BY <1>1, <1>7
  <2> QED BY <1>0, <1>7, <2>1, <2>2, Fitting
<1>20. Latest \in ValuesOf(objs) /\ DOMAIN objects \subseteq DOMAIN objs
  BY <1>13 DEF ValuesOf
<1>21. Graft(Latest, objs, filling) /\ built' = b /\ filling' = filling
  BY <1>1, <1>9, <1>10
<1> QED BY <1>0, <1>1, <1>5, <1>6, <1>7, <1>14, <1>18, <1>19, <1>20, <1>21, GraftKeeps

-----------------------------------------------------------------------------
(* The invariant, put together.                                            *)
LEMMA InitHolds ==
  ASSUME Init
  PROVE  MarshalInv
<1>1. SourceInv
  <2>1. PICK g \in Graphs : kind = g.kind /\ kids = g.kids
    BY DEF Init
  <2>2. /\ kind \in [Nodes -> Kinds] /\ kids \in [Nodes -> Seq(Elements)]
        /\ \A n \in Nodes : kind[n] = "bytes" => kids[n] = <<>>
    BY <2>1, GraphsAssumption DEF Elements
  <2>3. writes \in Nat
    BY DEF Init
  <2> QED BY <2>2, <2>3 DEF SourceInv
<1>2. WalkIdle /\ RebuildIdle
  BY DEF Init, WalkIdle, RebuildIdle
<1>3. PhaseInv
  BY DEF Init, PhaseInv
<1> QED BY <1>1, <1>2, <1>3, IdleWalk, IdleRebuild

LEMMA FailsKeeps ==
  ASSUME SourceInv, Fails, UNCHANGED sourceVars
  PROVE  MarshalInv'
<1>1. SourceInv'
  BY DEF SourceInv, sourceVars
<1>2. WalkIdle' /\ RebuildIdle'
  BY DEF Fails, WalkIdle, RebuildIdle
<1>3. PhaseInv'
  BY DEF Fails, PhaseInv
<1> QED BY <1>1, <1>2, <1>3, IdleNext

LEMMA ParametersOf ==
  ASSUME MarshalInv
  PROVE  /\ EmittedInv /\ PhaseInv
         /\ \E par, pos : WalkInv(par, pos) /\ RebuiltInv(par, pos)
<1>1. PICK par, pos : WalkInv(par, pos) /\ RebuildInv(par, pos)
  BY DEF MarshalInv
<1>2. RebuiltInv(par, pos)
  BY <1>1 DEF MarshalInv, MarshalTypeInv, RebuiltInv
<1> QED BY <1>1, <1>2 DEF MarshalInv, MarshalTypeInv, EmittedInv

(* A step that emits leaves the rebuild idle.                              *)
LEMMA EmittingKeeps ==
  ASSUME PhaseInv, phase = "walk", UNCHANGED <<phase, rebuildVars>>, EmittedInv'
  PROVE  MarshalInv'
<1>1. RebuildIdle'
  BY DEF PhaseInv, RebuildIdle, rebuildVars
<1>2. PhaseInv'
  BY DEF PhaseInv, rebuildVars
<1> QED BY <1>1, <1>2, IdleNext

LEMMA WalkKeeps ==
  ASSUME MarshalInv, Walk
  PROVE  MarshalInv'
<1>0. EmittedInv /\ PhaseInv
  BY ParametersOf
<1>1. ASSUME NEW n \in Nodes, Visit(n)
      PROVE  MarshalInv'
  <2>1. EmittedInv'
    <3>1. CASE VisitAgain(n)
      BY <1>0, <3>1, VisitAgainKeeps
    <3>2. CASE VisitTooDeep(n)
      BY <1>0, <3>2, VisitTooDeepKeeps
    <3>3. CASE VisitBuffer(n)
      BY <1>0, <3>3, VisitBufferKeeps
    <3>4. CASE EnterContainer(n)
      BY <1>0, <3>4, EnterContainerKeeps
    <3>5. CASE VisitUnreadable(n)
      BY <1>0, <3>5, UnreadKeeps
    <3> QED BY <1>1, <3>1, <3>2, <3>3, <3>4, <3>5 DEF Visit
  <2>2. phase = "walk" /\ UNCHANGED <<phase, rebuildVars>>
    BY <1>1 DEF Visit, VisitAgain, VisitTooDeep, VisitBuffer, EnterContainer, VisitUnreadable,
                Visits, Walking
  <2> QED BY <1>0, <2>1, <2>2, EmittingKeeps
<1>2. ASSUME NEW n \in Nodes, SourceChanges(n)
      PROVE  MarshalInv'
  <2>1. EmittedInv'
    BY <1>0, <1>2, SourceChangesKeeps
  <2>2. phase = "walk" /\ UNCHANGED <<phase, rebuildVars>>
    BY <1>2 DEF SourceChanges, Walking
  <2> QED BY <1>0, <2>1, <2>2, EmittingKeeps
<1>3. CASE VisitPrim
  <2>1. EmittedInv'
    BY <1>0, <1>3, VisitPrimKeeps
  <2>2. phase = "walk" /\ UNCHANGED <<phase, rebuildVars>>
    BY <1>3 DEF VisitPrim, Walking
  <2> QED BY <1>0, <2>1, <2>2, EmittingKeeps
<1>4. CASE AccessorThrows
  <2>1. EmittedInv'
    BY <1>0, <1>4, UnreadKeeps
  <2>2. phase = "walk" /\ UNCHANGED <<phase, rebuildVars>>
    BY <1>4 DEF AccessorThrows, Walking
  <2> QED BY <1>0, <2>1, <2>2, EmittingKeeps
<1>5. CASE LeaveContainer
  <2>1. EmittedInv'
    BY <1>0, <1>5, LeaveContainerKeeps
  <2>2. phase = "walk" /\ UNCHANGED <<phase, rebuildVars>>
    BY <1>5 DEF LeaveContainer, Walking
  <2> QED BY <1>0, <2>1, <2>2, EmittingKeeps
<1>6. CASE WalkEnds
  <2>1. CASE threw
    <3>1. Fails /\ UNCHANGED sourceVars
      BY <1>6, <2>1 DEF WalkEnds
    <3> QED BY <1>0, <3>1, FailsKeeps DEF EmittedInv
  <2>2. CASE ~threw
    <3>1. /\ phase = "walk" /\ phase' = "rebuild" /\ frames = <<>> /\ ~AtRoot
          /\ UNCHANGED <<sourceVars, walkVars, rebuildVars>>
      BY <1>6, <2>2 DEF WalkEnds, Walking
    <3>2. /\ UNCHANGED <<kind, kids, writes, frames, seen, nextId, threw, msg>>
          /\ UNCHANGED <<read, objects, built, filling, early, dropped, result>>
      BY <3>1 DEF sourceVars, walkVars, rebuildVars
    <3>3. RebuildIdle'
      BY <1>0, <3>1, <3>2 DEF PhaseInv, RebuildIdle
    <3>4. EmittedInv'
      BY <1>0, <3>2 DEF EmittedInv, SourceInv, WalkTypeInv, IdsInv, NoDanglingRef, WalkInv,
                        ElementsInv, FramesInv
    <3>5. PhaseInv'
      BY <1>0, <2>2, <3>1, <3>2 DEF PhaseInv, AtRoot
    <3> QED BY <3>3, <3>4, <3>5, IdleNext
  <2> QED BY <2>1, <2>2
<1> QED BY <1>1, <1>2, <1>3, <1>4, <1>5, <1>6 DEF Walk

LEMMA RebuildKeeps ==
  ASSUME MarshalInv, Rebuild
  PROVE  MarshalInv'
<1>0. EmittedInv /\ PhaseInv
  BY ParametersOf
<1>1. PICK par, pos : WalkInv(par, pos) /\ RebuiltInv(par, pos)
  BY ParametersOf
<1>2. CASE BuildOpen \/ BuildClose \/ BuildBytes \/ BuildRef \/ BuildValue
  <2>1. phase = "rebuild" /\ UNCHANGED <<sourceVars, phase, walkVars>>
    BY <1>2 DEF BuildOpen, BuildClose, BuildBytes, BuildRef, BuildValue, Reads
  <2>2. UNCHANGED <<kind, kids, writes, frames, seen, nextId, threw, msg, phase>>
    BY <2>1 DEF sourceVars, walkVars
  <2>3. Rebuilding(par, pos)
    BY <1>0, <1>1, <2>1 DEF Rebuilding, EmittedInv, PhaseInv, WalkInv
  <2>4. RebuiltInv(par, pos)'
    BY <1>2, <2>3, BuildOpenKeeps, BuildCloseKeeps, BuildBytesKeeps, BuildRefKeeps, BuildValueKeeps
  <2>5. SourceInv' /\ WalkTypeInv' /\ IdsInv' /\ NoDanglingRef'
    BY <1>0, <2>2 DEF EmittedInv, SourceInv, WalkTypeInv, IdsInv, NoDanglingRef
  <2>6. WalkInv(par, pos)'
    BY <1>1, <2>2 DEF WalkInv, ElementsInv, FramesInv
  <2>7. PhaseInv'
    BY <1>0, <2>1, <2>2 DEF PhaseInv
  <2> QED BY <2>4, <2>5, <2>6, <2>7 DEF MarshalInv, MarshalTypeInv, RebuiltInv
<1>3. CASE BuildEnds
  <2>1. /\ phase = "rebuild" /\ phase' = "done" /\ read = Len(msg)
        /\ UNCHANGED <<kind, kids, writes, frames, seen, nextId, threw, msg,
                       read, objects, built, filling, early, dropped, result>>
    BY <1>3 DEF BuildEnds, sourceVars, walkVars, rebuildVars
  <2>2. PhaseInv'
    BY <1>0, <2>1 DEF PhaseInv
  <2>3. SourceInv' /\ WalkTypeInv' /\ IdsInv' /\ NoDanglingRef'
    BY <1>0, <2>1 DEF EmittedInv, SourceInv, WalkTypeInv, IdsInv, NoDanglingRef
  <2>4. WalkInv(par, pos)'
    BY <1>1, <2>1 DEF WalkInv, ElementsInv, FramesInv
  <2>5. RebuildTypeInv' /\ TableInv' /\ RootedInv'
    BY <1>1, <2>1 DEF RebuiltInv, RebuildTypeInv, Made, Values, TableInv, TableOf, RootedInv
  <2>6. RebuildInv(par, pos)'
    BY <1>1, <2>1 DEF RebuiltInv, RebuildInv, FillingInv, FillingOf, ItemsInv, ItemsOf
  <2> QED BY <2>2, <2>3, <2>4, <2>5, <2>6 DEF MarshalInv, MarshalTypeInv
<1> QED BY <1>2, <1>3 DEF Rebuild

LEMMA StutterKeeps ==
  ASSUME MarshalInv, UNCHANGED vars
  PROVE  MarshalInv'
<1>1. UNCHANGED <<kind, kids, writes, phase, frames, seen, nextId, threw, msg,
                  read, objects, built, filling, early, dropped, result>>
  BY DEF vars, sourceVars, walkVars, rebuildVars
<1>2. PICK par, pos : WalkInv(par, pos) /\ RebuiltInv(par, pos)
  BY ParametersOf
<1>3. SourceInv' /\ WalkTypeInv' /\ IdsInv' /\ NoDanglingRef' /\ PhaseInv'
  BY <1>1, ParametersOf DEF EmittedInv, SourceInv, WalkTypeInv, IdsInv, NoDanglingRef, PhaseInv
<1>4. WalkInv(par, pos)'
  BY <1>1, <1>2 DEF WalkInv, ElementsInv, FramesInv
<1>5. RebuildTypeInv' /\ TableInv' /\ RootedInv'
  BY <1>1, <1>2 DEF RebuiltInv, RebuildTypeInv, Made, Values, TableInv, TableOf, RootedInv
<1>6. RebuildInv(par, pos)'
  BY <1>1, <1>2 DEF RebuiltInv, RebuildInv, FillingInv, FillingOf, ItemsInv, ItemsOf
<1> QED BY <1>3, <1>4, <1>5, <1>6 DEF MarshalInv, MarshalTypeInv

(* The invariant holds in every state of every run.                        *)
THEOREM MarshalInductive == Spec => []MarshalInv
<1>1. Init => MarshalInv
  BY InitHolds
<1>2. MarshalInv /\ [Next]_vars => MarshalInv'
  <2> SUFFICES ASSUME MarshalInv, [Next]_vars
               PROVE  MarshalInv'
    OBVIOUS
  <2>1. CASE Walk
    BY <2>1, WalkKeeps
  <2>2. CASE Rebuild
    BY <2>2, RebuildKeeps
  <2>3. CASE RubyRaises
    <3>1. Fails /\ UNCHANGED sourceVars
      BY <2>3 DEF RubyRaises
    <3>2. SourceInv
      BY DEF MarshalInv, MarshalTypeInv
    <3> QED BY <3>1, <3>2, FailsKeeps
  <2>4. CASE UNCHANGED vars
    BY <2>4, StutterKeeps
  <2> QED BY <2>1, <2>2, <2>3, <2>4 DEF Next
<1> QED BY <1>1, <1>2, PTL DEF Spec

-----------------------------------------------------------------------------
(* What follows from it.                                                   *)

\* The value that a token of the data refers to is found in the table.
RefsFound ==
  phase = "rebuild" /\ read < Len(msg) /\ Incoming.t = "ref" => Incoming.id \in DOMAIN built

LEMMA TypesFollow ==
  ASSUME MarshalInv
  PROVE  TypeOK
<1>0. SourceInv /\ WalkTypeInv /\ RebuildTypeInv /\ PhaseInv /\ ObjectsOf(objects, built, filling)
  BY DEF MarshalInv, MarshalTypeInv, RebuildTypeInv
<1>1. /\ kind \in [Nodes -> Kinds] /\ kids \in [Nodes -> Seq(Nodes \cup {Prim})]
      /\ phase \in {"walk", "rebuild", "done", "failed"}
      /\ msg \in Seq(Token) /\ read \in 0 .. Len(msg)
      /\ early \subseteq Made /\ dropped \subseteq Values /\ result \in Values
  BY <1>0 DEF SourceInv, Elements, PhaseInv, WalkTypeInv, RebuildTypeInv
<1>2. \A k \in DOMAIN frames : frames[k].node \in Nodes /\ frames[k].next \in Nat
  <2>1. \A k \in DOMAIN frames : frames[k] \in Frame
    BY <1>0 DEF WalkTypeInv
  <2> QED BY <2>1 DEF Frame
<1>3. DOMAIN seen \subseteq Nodes /\ Range(seen) \subseteq 0 .. nextId - 1
  BY <1>0 DEF WalkTypeInv, Range
<1>4. ASSUME NEW o \in Made
      PROVE  objects[o].kind \in Kinds /\ objects[o].items \in Seq(Values)
  <2>1. /\ objects \in Seq(Object) /\ o \in DOMAIN objects
        /\ \A k \in DOMAIN objects[o].items : objects[o].items[k] \in Values
    BY <1>0 DEF ObjectsOf, ValuesOf, Values, Made
  <2>2. objects[o] \in Object
    BY <2>1
  <2>3. PICK items : items = objects[o].items
    OBVIOUS
  <2>4. items \in Seq(Value) /\ \A k \in DOMAIN items : items[k] \in Values
    BY <2>1, <2>2, <2>3 DEF Object
  <2>5. items \in Seq(Values)
    BY <2>4
  <2> QED BY <2>2, <2>3, <2>5 DEF Object
<1>5. Range(built) \subseteq Made
  BY <1>0 DEF ObjectsOf, Made, Range
<1>6. Range(filling) \subseteq Made
  BY <1>0 DEF ObjectsOf, Made, Range
<1> QED BY <1>1, <1>2, <1>3, <1>4, <1>5, <1>6 DEF TypeOK

LEMMA RefsFoundFollows ==
  ASSUME MarshalInv
  PROVE  RefsFound
<1>1. IdsInv /\ NoDanglingRef /\ TableInv /\ msg \in Seq(Token) /\ read \in 0 .. Len(msg)
  BY DEF MarshalInv, MarshalTypeInv, WalkTypeInv, RebuildTypeInv
<1> QED BY <1>1, RefFound DEF RefsFound

(* When there is nothing left to fill, all was read or nothing was.        *)
LEMMA NothingLeft ==
  ASSUME NEW par, NEW pos, Rebuilding(par, pos), filling = <<>>
  PROVE  read = 0 \/ read = Len(msg)
<1> SUFFICES ASSUME read # Len(msg) PROVE read = 0
  OBVIOUS
<1>1. PICK at : FillingInv(par, at)
  BY DEF Rebuilding, RebuiltInv, RebuildInv
<1>2. read < Len(msg)
  BY DEF Rebuilding, RebuiltInv, RebuildTypeInv, WalkTypeInv
<1>3. PICK next : next = read + 1
  OBVIOUS
<1>4. Place(par, pos, at, next, pos[next])
  BY <1>1, <1>2, <1>3, Arrives
<1> QED BY <1>4 DEF Place

LEMMA RootedFollows ==
  ASSUME MarshalInv
  PROVE  AwaitedRooted
<1> SUFFICES ASSUME phase = "rebuild", NEW x \in Awaited
             PROVE  x \in Reachable(Range(filling) \cup dropped)
  BY DEF AwaitedRooted
<1>1. PICK par, pos : WalkInv(par, pos) /\ RebuiltInv(par, pos)
  BY ParametersOf
<1>2. Rebuilding(par, pos)
  BY <1>1, ParametersOf DEF Rebuilding, EmittedInv, PhaseInv, WalkInv
<1>3. /\ RebuildTypeInv /\ TableInv /\ RootedInv /\ ObjectsOf(objects, built, filling)
      /\ msg \in Seq(Token) /\ read \in 0 .. Len(msg)
  BY <1>1, <1>2 DEF RebuiltInv, RebuildTypeInv, Rebuilding, WalkTypeInv
<1>4. PICK k \in read + 1 .. Len(msg) : msg[k].id \in DOMAIN built /\ x = built[msg[k].id]
  BY DEF Awaited
<1>5. x \in Made
  BY <1>3, <1>4 DEF ObjectsOf, Made
<1>6. read # 0 /\ read # Len(msg)
  <2>1. \E j \in 1 .. read : Emits(msg[j]) /\ msg[j].id = msg[k].id
    BY <1>3, <1>4 DEF TableInv, TableOf
  <2> QED BY <1>3, <1>4, <2>1
<1>7. RootedBut(0, objects, filling, dropped)
  BY <1>2, <1>3, <1>6, NothingLeft DEF RootedInv
<1>8. ASSUME NEW S \in SUBSET Made, (Range(filling) \cup dropped) \cap Made \subseteq S, Holds(S)
      PROVE  x \in S
  <2> SUFFICES ASSUME Made \ S # {} PROVE FALSE
    BY <1>5
  <2>1. Made \ S \subseteq Nat
    BY <1>3 DEF Made, ObjectsOf
  <2>2. PICK o \in Made \ S : \A y \in Made \ S : o <= y
    BY <2>1, Least
  <2>3. o # 0
    BY <1>3 DEF Made, ObjectsOf
  <2>4. \A j \in 1 .. Len(filling) : filling[j] # o
    <3>1. \A j \in 1 .. Len(filling) : filling[j] \in Range(filling)
      BY <1>3 DEF ObjectsOf, Range
    <3> QED BY <1>8, <3>1
  <2>5. PICK y \in Made : y < o /\ \E e \in DOMAIN objects[y].items : objects[y].items[e] = o
    BY <1>7, <1>8, <2>3, <2>4 DEF RootedBut, Made
  <2>6. y \in S
    BY <2>1, <2>2, <2>5
  <2>7. o \in Range(objects[y].items)
    BY <2>5 DEF Range
  <2> QED BY <1>8, <2>6, <2>7 DEF Holds
<1> QED BY <1>5, <1>8 DEF Reachable

(* A copy is one of the copies there may be.                               *)
LEMMA CopyIsOne ==
  ASSUME NEW x, NEW el, IsCopy(kind, seen, built, x, el)
  PROVE  x \in Copies(el)
BY DEF IsCopy, Copies, CopyOf

LEMMA ShapeFollows ==
  ASSUME MarshalInv
  PROVE  SameShape
<1> SUFFICES ASSUME phase = "done", writes = 0, dropped = {}
             PROVE  /\ result \in Copies(Root)
                    /\ \A m, n \in DOMAIN seen : CopyOf(m) = CopyOf(n) => m = n
                    /\ \A n \in DOMAIN seen :
                         LET copy == objects[CopyOf(n)]
                         IN /\ copy.kind = kind[n]
                            /\ Len(copy.items) = Len(kids[n])
                            /\ \A k \in DOMAIN kids[n] : copy.items[k] \in Copies(kids[n][k])
  BY DEF SameShape
<1>0. /\ SourceInv /\ WalkTypeInv /\ IdsInv /\ TableInv /\ ObjectsOf(objects, built, filling)
      /\ read = Len(msg) /\ frames = <<>> /\ msg # <<>> /\ msg \in Seq(Token)
      /\ DOMAIN seen \subseteq Nodes
  BY DEF MarshalInv, MarshalTypeInv, PhaseInv, RebuildTypeInv, WalkTypeInv
<1>1. PICK par, pos : WalkInv(par, pos) /\ RebuildInv(par, pos)
  BY DEF MarshalInv
<1>2. PICK at : FillingInv(par, at) /\ ItemsInv(par, pos, at)
  BY <1>1 DEF RebuildInv
<1>3. filling = <<>>
  <2>1. Inside(msg, par, Len(msg)) = 0
    <3>1. PICK a : FramesInv(par, pos, a)
      BY <1>1 DEF WalkInv
    <3>2. Len(frames) = 0
      BY <1>0
    <3> QED BY <3>1, <3>2 DEF FramesInv, Chain
  <2>2. filling \in Seq(Nat)
    BY <1>0 DEF ObjectsOf
  <2>3. PICK n \in Nat : n = Len(filling)
    BY <2>2
  <2>4. n = 0
    BY <1>0, <1>2, <2>1, <2>3 DEF FillingInv, Chain
  <2>5. Len(filling) = 0
    BY <2>3, <2>4
  <2> QED BY <2>2, <2>5
<1>4. /\ ItemsOf(pos, at, objects, built, filling, read, Turn(msg, par, pos, read))
      /\ IsCopy(kind, seen, built, result, Root)
  <2>1. read # 0
    BY <1>0
  <2> QED BY <1>2, <1>3, <2>1 DEF ItemsInv
<1>5. ASSUME NEW n \in DOMAIN seen
      PROVE  \E k \in 1 .. read : /\ Emits(msg[k]) /\ msg[k].id = seen[n] /\ msg[k].kind = kind[n]
                                  /\ seen[n] \in DOMAIN built
  <2>1. PICK k \in DOMAIN msg : Emits(msg[k]) /\ msg[k].id = seen[n]
    BY <1>0 DEF IdsInv
  <2>2. k \in 1 .. read
    BY <1>0
  <2>3. PICK m \in DOMAIN seen : seen[m] = msg[k].id /\ kind[m] = msg[k].kind
    BY <1>0, <2>1 DEF IdsInv
  <2>4. m = n
    BY <1>0, <2>1, <2>3 DEF IdsInv
  <2>5. seen[n] \in DOMAIN built
    BY <1>0, <2>1, <2>2 DEF TableInv, TableOf
  <2> QED BY <2>1, <2>2, <2>3, <2>4, <2>5
<1>6. \A m, n \in DOMAIN seen : CopyOf(m) = CopyOf(n) => m = n
  <2> SUFFICES ASSUME NEW m \in DOMAIN seen, NEW n \in DOMAIN seen, built[seen[m]] = built[seen[n]]
               PROVE  m = n
    BY DEF CopyOf
  <2>1. seen[m] \in DOMAIN built /\ seen[n] \in DOMAIN built
    BY <1>5
  <2>2. seen[m] = seen[n]
    BY <1>0, <2>1 DEF TableInv, TableOf
  <2> QED BY <1>0, <2>2 DEF IdsInv
<1>7. ASSUME NEW n \in DOMAIN seen
      PROVE  LET copy == objects[CopyOf(n)]
             IN /\ copy.kind = kind[n]
                /\ Len(copy.items) = Len(kids[n])
                /\ \A k \in DOMAIN kids[n] : copy.items[k] \in Copies(kids[n][k])
  <2>1. PICK i \in 1 .. read : /\ Emits(msg[i]) /\ msg[i].id = seen[n] /\ msg[i].kind = kind[n]
                               /\ seen[n] \in DOMAIN built
    BY <1>5
  <2>2. PICK copy : copy = objects[CopyOf(n)]
    OBVIOUS
  <2>3. copy = objects[built[seen[n]]] /\ built[seen[n]] \in DOMAIN objects
    BY <1>0, <2>1, <2>2 DEF CopyOf, ObjectsOf
  <2>4. copy.kind = kind[n]
    BY <1>0, <2>1, <2>3 DEF TableInv, TableOf
  <2>5. /\ Len(copy.items) = Len(kids[n]) \/ \E j \in 1 .. Len(filling) : at[j] = i
        /\ \A e \in DOMAIN copy.items : IsCopy(kind, seen, built, copy.items[e], kids[n][e])
    BY <1>4, <2>1, <2>3 DEF ItemsOf
  <2>6. Len(copy.items) = Len(kids[n])
    <3>1. 1 .. Len(filling) = {}
      BY <1>3
    <3> QED BY <2>5, <3>1
  <2>7. DOMAIN copy.items = DOMAIN kids[n]
    <3>1. objects[built[seen[n]]] \in Object
      BY <1>0, <2>3 DEF ObjectsOf
    <3>2. copy.items \in Seq(Value)
      BY <2>3, <3>1 DEF Object
    <3>3. kids[n] \in Seq(Elements)
      BY <1>0 DEF SourceInv
    <3> QED BY <2>6, <3>2, <3>3
  <2>8. \A k \in DOMAIN kids[n] : copy.items[k] \in Copies(kids[n][k])
    BY <2>5, <2>7, CopyIsOne
  <2> QED BY <2>2, <2>4, <2>6, <2>8
<1>8. result \in Copies(Root)
  BY <1>4, CopyIsOne
<1> QED BY <1>6, <1>7, <1>8

(* The source, the data and what is built of it keep their types, for every *)
(* source graph and depth limit.                                           *)
THEOREM MarshalTypes == Spec => []TypeOK
<1>1. MarshalInv => TypeOK
  BY TypesFollow
<1> QED BY <1>1, MarshalInductive, PTL

(* A Ref is to a container or buffer emitted before it.                    *)
THEOREM RefsFollowTheirObject == Spec => []NoDanglingRef
<1>1. MarshalInv => NoDanglingRef
  BY DEF MarshalInv
<1> QED BY <1>1, MarshalInductive, PTL

(* A Ref that is read finds the object that was made under its id: the     *)
(* nothing that stands in for a missing one is never used.                 *)
THEOREM EveryRefIsFound == Spec => []RefsFound
<1>1. MarshalInv => RefsFound
  BY RefsFoundFollows
<1> QED BY <1>1, MarshalInductive, PTL

(* What a Ref still to come needs is reachable from the containers being   *)
(* filled, unless a Hash or Set did not keep it.                           *)
THEOREM AwaitedAreRooted == Spec => []AwaitedRooted
<1>1. MarshalInv => AwaitedRooted
  BY RootedFollows
<1> QED BY <1>1, MarshalInductive, PTL

(* A graph nobody changed arrives as it was, whatever its size, its cycles *)
(* and the depth at which it is truncated.                                 *)
THEOREM GraphsArriveWhole == Spec => []SameShape
<1>1. MarshalInv => SameShape
  BY ShapeFollows
<1> QED BY <1>1, MarshalInductive, PTL
=============================================================================
