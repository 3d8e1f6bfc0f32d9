------------------------------ MODULE Marshal ------------------------------
(***************************************************************************)
(* How a value crosses between JavaScript and Ruby                         *)
(* (ext/rusty_racer/src/marshal.rs).  A walk of the source graph gives     *)
(* each container and buffer an id and emits it once, as plain data; a     *)
(* later occurrence is a Ref to the id.  The other side builds the graph   *)
(* anew from the data.  Reading the source may run code of its language,   *)
(* which may change the graph or raise.                                    *)
(*                                                                         *)
(* The data is the sequence msg of tokens, in the order they are emitted   *)
(* and read: "open" .. "close" around the elements of a container, "bytes" *)
(* for a buffer, "ref", "text" for the string a container too deep         *)
(* becomes, "prim" for any other value.  A map's elements are its keys and *)
(* values in turn; an object's are its values, its keys being strings.     *)
(***************************************************************************)
EXTENDS Integers, Sequences, FiniteSets, Functions
Seqs == INSTANCE SequencesExt

CONSTANTS
  Nodes,            \* the containers and buffers of the source
  Root,             \* the value marshalled
  Prim,             \* a value that is neither
  Text,             \* a string that stands for a container
  Graphs,           \* the source graphs: the kind and elements of each node
  Sides,            \* where the source is: "js", "ruby"
  MaxMarshalDepth,  \* MAX_MARSHAL_DEPTH
  Base, LimbDigits, \* a limb of a BigInt is LimbDigits digits of Base: 16 of 16
  MaxWrites         \* bound: changes the source's own code makes meanwhile

Kinds == {"array", "object", "map", "set", "bytes"}

ASSUME RootAssumption == Root \in Nodes /\ {Prim, Text} \cap Nodes = {}
ASSUME SidesAssumption == Sides \subseteq {"js", "ruby"}
ASSUME BoundAssumption == MaxMarshalDepth \in Nat \ {0} /\ MaxWrites \in Nat

\* A buffer has no elements.
ASSUME GraphsAssumption ==
  \A g \in Graphs :
    /\ g.kind \in [Nodes -> Kinds] /\ g.kids \in [Nodes -> Seq(Nodes \cup {Prim})]
    /\ \A n \in Nodes : g.kind[n] = "bytes" => g.kids[n] = <<>>

VARIABLES
  side,       \* the side the source is on
  kind, kids, \* the source: the kind and the elements of each node
  phase,      \* "walk", "rebuild", "done" or "failed"
  frames,     \* the containers the walk is inside of, outermost first
  seen,       \* the id of each node registered: JsSeen, RbSeen
  nextId,     \* seen.next_id
  threw,      \* the operation's TryCatch has caught an exception
  writes,     \* how often the source has been changed
  msg,        \* the data emitted
  read,       \* how many tokens of it have been rebuilt
  objects,    \* the objects made on the other side
  built,      \* the table of the same name: id to object
  filling,    \* the objects being filled, outermost first: live locals
  early,      \* objects that could still change when they were put somewhere
  dropped,    \* history: values a Hash or Set did not keep
  result      \* the object made of Root

sourceVars  == <<kind, kids, writes>>
walkVars    == <<frames, seen, nextId, threw, msg>>
rebuildVars == <<read, objects, built, filling, early, dropped, result>>
vars == <<side, sourceVars, phase, walkVars, rebuildVars>>

Token == [t : {"open", "close", "bytes", "ref", "text", "prim"},
          kind : Kinds \cup {"none"}, id : Nat]
Plain(t) == [t |-> t, kind |-> "none", id |-> 0]
WithId(t, k, n) == [t |-> t, kind |-> k, id |-> n]

-----------------------------------------------------------------------------
(* A BigInt crosses as little-endian limbs, which the Ruby side writes as   *)
(* and reads from big-endian digits.                                       *)

\* The digits of a limb w, at least as many as width.
Digits(w, width) ==
  LET count == CHOOSE c \in 1 .. LimbDigits :
                 /\ c >= width /\ w < Base ^ c
                 /\ c > width => w >= Base ^ (c - 1)
  IN [k \in 1 .. count |-> (w \div Base ^ (count - k)) % Base]

Magnitude(digits) == Seqs!FoldLeft(LAMBDA acc, d : acc * Base + d, 0, digits)

\* words_to_hex: the top limb without leading zeros, the others in full.
WordsToHex(words) ==
  LET hex == Seqs!FoldRight(LAMBDA w, acc : acc \o Digits(w, IF acc = <<>> THEN 1 ELSE LimbDigits),
                       words, <<>>)
  IN IF hex = <<>> THEN <<0>> ELSE hex

\* hex_to_words: the digits cut into limbs from the end.
HexToWords(hex) ==
  LET count == (Len(hex) + LimbDigits - 1) \div LimbDigits
      Start(k) == IF k * LimbDigits < Len(hex) THEN Len(hex) - k * LimbDigits + 1 ELSE 1
  IN IF count = 0 THEN <<0>>
     ELSE [k \in 1 .. count |->
             Magnitude(SubSeq(hex, Start(k), Len(hex) - (k - 1) * LimbDigits))]

-----------------------------------------------------------------------------
(* The walk.                                                               *)

Inner == frames[Len(frames)]

\* A Set, and a JavaScript Map, is copied when it is entered; the elements of
\* the others are read as their turn comes.
CopiedFirst(n) == kind[n] = "set" \/ (kind[n] = "map" /\ side = "js")

\* A Ruby Hash is iterated over as it is; of the others, as many elements are
\* read as there were at first.
Iterated(n) == side = "ruby" /\ kind[n] \in {"object", "map"}

Items(f) == IF CopiedFirst(f.node) THEN f.copy ELSE kids[f.node]
Limit(f) == IF Iterated(f.node) THEN Len(kids[f.node]) ELSE Len(f.copy)

\* An element that is gone when its turn comes reads as undefined, or nil.
ElementAt(f) == IF f.next \in DOMAIN Items(f) THEN Items(f)[f.next] ELSE Prim

Walking == phase = "walk"
AtRoot == frames = <<>> /\ msg = <<>>
HasNext == IF frames = <<>> THEN AtRoot ELSE Inner.next <= Limit(Inner)
Current == IF AtRoot THEN Root ELSE ElementAt(Inner)

Advanced == IF AtRoot THEN <<>> ELSE [frames EXCEPT ![Len(frames)].next = @ + 1]

(* A mutant in which a buffer counts its depth.                           *)
DepthSame(n) == Len(frames)

\* js_container_id, rb_container_id: a Ref to what is registered already, the
\* text of what is too deep, or a registration.
ContainerId(n, depth) ==
  IF n \in DOMAIN seen THEN "ref" ELSE IF depth >= MaxMarshalDepth THEN "text" ELSE "new"

\* A buffer is a leaf and passes a depth of 0.
DepthOf(n) == IF kind[n] = "bytes" THEN 0 ELSE Len(frames)

Visits(n, answer) ==
  Walking /\ HasNext /\ Current = n /\ n \in Nodes /\ ContainerId(n, DepthOf(n)) = answer

(* A mutant that does not move next_id on.                                *)
RegisterUncounted(n) ==
  /\ seen' = [m \in DOMAIN seen \cup {n} |-> IF m = n THEN nextId ELSE seen[m]]
  /\ UNCHANGED nextId

Register(n) ==
  /\ seen' = [m \in DOMAIN seen \cup {n} |-> IF m = n THEN nextId ELSE seen[m]]
  /\ nextId' = nextId + 1

VisitPrim ==
  /\ Walking /\ HasNext /\ Current = Prim
  /\ frames' = Advanced
  /\ msg' = Append(msg, Plain("prim"))
  /\ UNCHANGED <<side, sourceVars, phase, seen, nextId, threw, rebuildVars>>

VisitAgain(n) ==
  /\ Visits(n, "ref")
  /\ frames' = Advanced
  /\ msg' = Append(msg, WithId("ref", "none", seen[n]))
  /\ UNCHANGED <<side, sourceVars, phase, seen, nextId, threw, rebuildVars>>

(* A mutant that registers what it truncates.                             *)
VisitTooDeepRegistering(n) ==
  /\ Visits(n, "text")
  /\ Register(n)
  /\ frames' = Advanced
  /\ msg' = Append(msg, Plain("text"))
  /\ UNCHANGED <<side, sourceVars, phase, threw, rebuildVars>>

VisitTooDeep(n) ==
  /\ Visits(n, "text")
  /\ frames' = Advanced
  /\ msg' = Append(msg, Plain("text"))
  /\ UNCHANGED <<side, sourceVars, phase, seen, nextId, threw, rebuildVars>>

VisitBuffer(n) ==
  /\ Visits(n, "new")
  /\ kind[n] = "bytes"
  /\ Register(n)
  /\ frames' = Advanced
  /\ msg' = Append(msg, WithId("bytes", "bytes", nextId))
  /\ UNCHANGED <<side, sourceVars, phase, threw, rebuildVars>>

EnterContainer(n) ==
  /\ Visits(n, "new")
  /\ kind[n] # "bytes"
  /\ Register(n)
  /\ frames' = Append(Advanced, [node |-> n, copy |-> kids[n], next |-> 1])
  /\ msg' = Append(msg, WithId("open", kind[n], nextId))
  /\ UNCHANGED <<side, sourceVars, phase, threw, rebuildVars>>

(* The names of a JavaScript object cannot be listed: the registration is  *)
(* undone, the id is not given out again, and the exception stands.        *)
VisitUnreadable(n) ==
  /\ side = "js"
  /\ Visits(n, "new")
  /\ kind[n] = "object"
  /\ nextId' = nextId + 1
  /\ threw' = TRUE
  /\ frames' = Advanced
  /\ msg' = Append(msg, Plain("prim"))
  /\ UNCHANGED <<side, sourceVars, phase, seen, rebuildVars>>

(* An accessor throws: undefined stands in and the walk goes on.          *)
AccessorThrows ==
  /\ side = "js" /\ Walking /\ HasNext /\ frames # <<>>
  /\ ~CopiedFirst(Inner.node)
  /\ threw' = TRUE
  /\ frames' = Advanced
  /\ msg' = Append(msg, Plain("prim"))
  /\ UNCHANGED <<side, sourceVars, phase, seen, nextId, rebuildVars>>

LeaveContainer ==
  /\ Walking /\ frames # <<>> /\ ~HasNext
  /\ frames' = SubSeq(frames, 1, Len(frames) - 1)
  /\ msg' = Append(msg, Plain("close"))
  /\ UNCHANGED <<side, sourceVars, phase, seen, nextId, threw, rebuildVars>>

(* An operation that fails drops the data and what was built of it.        *)
Fails ==
  /\ phase' = "failed"
  /\ frames' = <<>> /\ seen' = <<>> /\ nextId' = 0 /\ threw' = FALSE /\ msg' = <<>>
  /\ read' = 0 /\ objects' = <<>> /\ built' = <<>> /\ filling' = <<>>
  /\ early' = {} /\ dropped' = {} /\ result' = Prim

(* The walk is over: what it caught fails the operation, or the other side *)
(* has the data.  In Ruby an exception ends the walk where it is raised.   *)
WalkEnds ==
  /\ Walking /\ frames = <<>> /\ ~AtRoot
  /\ IF threw THEN Fails
     ELSE phase' = "rebuild" /\ UNCHANGED <<walkVars, rebuildVars>>
  /\ UNCHANGED <<side, sourceVars>>

RubyRaises ==
  /\ \/ side = "ruby" /\ Walking
     \/ side = "js" /\ phase = "rebuild"
  /\ Fails
  /\ UNCHANGED <<side, sourceVars>>

\* The positions a change may overwrite: a Set's elements and a Map's keys
\* stand until they are deleted.
Writable(n) ==
  CASE kind[n] \in {"array", "object"} -> DOMAIN kids[n]
    [] kind[n] = "map" -> {k \in DOMAIN kids[n] : k % 2 = 0}
    [] OTHER -> {}

(* An accessor, a to_s or the like changes the source: an element is       *)
(* replaced, or the last one removed.  (What is added past the elements a  *)
(* walk counted is not read, and adding to a Hash being iterated raises.)  *)
SourceChanges(n) ==
  /\ Walking /\ frames # <<>>
  /\ writes < MaxWrites
  /\ writes' = writes + 1
  /\ \/ \E k \in Writable(n), new \in Nodes : kids' = [kids EXCEPT ![n][k] = new]
     \/ /\ kids[n] # <<>>
        /\ LET gone == IF kind[n] = "map" THEN 2 ELSE 1
           IN kids' = [kids EXCEPT ![n] = SubSeq(@, 1, Len(@) - gone)]
  /\ UNCHANGED <<side, kind, phase, walkVars, rebuildVars>>

-----------------------------------------------------------------------------
(* The rebuild.                                                            *)

Made == DOMAIN objects
Values == Made \cup {Prim, Text}

\* Ruby's eql?: same class and eql elements, in any order for a Set or a Map.
\* After as many rounds as there are objects it is settled.  All the buffers of
\* a graph hold the same bytes.
Eql(a, b) ==
  LET Round(same, x, y) ==
        IF x \notin Made \/ y \notin Made THEN x = y
        ELSE /\ objects[x].kind = objects[y].kind
             /\ Len(objects[x].items) = Len(objects[y].items)
             /\ LET p == objects[x].items
                    q == objects[y].items
                IN CASE objects[x].kind = "set" ->
                          \A i \in DOMAIN p : \E j \in DOMAIN q : <<p[i], q[j]>> \in same
                     [] objects[x].kind = "map" ->
                          \A i \in 1 .. Len(p) \div 2 : \E j \in 1 .. Len(q) \div 2 :
                             /\ <<p[2 * i - 1], q[2 * j - 1]>> \in same
                             /\ <<p[2 * i], q[2 * j]>> \in same
                     [] OTHER -> \A i \in DOMAIN p : <<p[i], q[i]>> \in same
      same[k \in 0 .. Len(objects)] ==
        IF k = 0 THEN Values \X Values
        ELSE {pair \in Values \X Values : Round(same[k - 1], pair[1], pair[2])}
  IN <<a, b>> \in same[Len(objects)]

\* Whether a Ruby Hash or Set, or a JavaScript Map or Set, takes the two for
\* one key.
OneKey(a, b) == IF side = "js" THEN Eql(a, b) ELSE a = b

\* The positions of an x among keys, and those that are found for certain: an
\* element that was changed since it was added is hashed where it was.
Matches(keys, x) == {k \in DOMAIN keys : OneKey(keys[k], x)}
Certain(keys, x) == {k \in Matches(keys, x) : keys[k] \notin early}

\* What adding x to a set may leave, and what adding the value x to a map whose
\* last key is waiting for it: [items, gone].
SetAdds(items, x) ==
  (IF Certain(items, x) = {} THEN {[items |-> Append(items, x), gone |-> {}]} ELSE {})
    \cup {[items |-> items, gone |-> {x}] : k \in Matches(items, x)}

MapAdds(items, x) ==
  LET keys == [k \in 1 .. Len(items) \div 2 |-> items[2 * k - 1]]
      key  == items[Len(items)]
      rest == SubSeq(items, 1, Len(items) - 1)
  IN (IF Certain(keys, key) = {} THEN {[items |-> Append(items, x), gone |-> {}]} ELSE {})
       \cup {[items |-> [rest EXCEPT ![2 * k] = x], gone |-> {key, rest[2 * k]}] :
               k \in Matches(keys, key)}

Adds(container, x) ==
  CASE container.kind = "set" -> SetAdds(container.items, x)
    [] container.kind = "map" /\ Len(container.items) % 2 = 1 -> MapAdds(container.items, x)
    [] OTHER -> {[items |-> Append(container.items, x), gone |-> {}]}

\* What is reached from the objects of o: all that any set has which holds those
\* and, of its own objects, the elements.
Holds(S) == \A x \in S : Made \cap Range(objects[x].items) \subseteq S
Reachable(o) == {x \in Made : \A S \in SUBSET Made : o \cap Made \subseteq S /\ Holds(S) => x \in S}

\* x, if it is or holds an object that is being filled.
StillChanging(x, into) ==
  IF x \in Made /\ Reachable({x}) \cap Range(into) # {} THEN {x} ELSE {}

(* A mutant that keeps the elements of an array in the table alone.       *)
GraftNoArray(x, objs, into) ==
  IF into = <<>>
  THEN objects' = objs /\ result' = x /\ UNCHANGED <<early, dropped>>
  ELSE LET c == into[Len(into)]
       IN \E add \in Adds(objs[c], x) :
            /\ objects' = IF objs[c].kind = "array" /\ x \in DOMAIN objs
                          THEN objs ELSE [objs EXCEPT ![c].items = add.items]
            /\ dropped' = dropped \cup add.gone
            /\ early' = early \cup StillChanging(x, into)
            /\ UNCHANGED result

\* The value x is put into the container being filled, or is the result.
Graft(x, objs, into) ==
  IF into = <<>>
  THEN objects' = objs /\ result' = x /\ UNCHANGED <<early, dropped>>
  ELSE LET c == into[Len(into)]
       IN \E add \in Adds(objs[c], x) :
            /\ objects' = [objs EXCEPT ![c].items = add.items]
            /\ dropped' = dropped \cup add.gone
            /\ early' = early \cup StillChanging(x, into)
            /\ UNCHANGED result

New(k) == Append(objects, [kind |-> k, items |-> <<>>])
Latest == Len(objects) + 1
BuiltAs(id, o) == [n \in DOMAIN built \cup {id} |-> IF n = id THEN o ELSE built[n]]

Reads(t) ==
  /\ phase = "rebuild"
  /\ read < Len(msg)
  /\ msg[read + 1].t = t
  /\ read' = read + 1
  /\ UNCHANGED <<side, sourceVars, phase, walkVars>>

Incoming == msg[read + 1]

\* A container is in the table before it is filled, for the Refs inside it.
BuildOpen ==
  /\ Reads("open")
  /\ objects' = New(Incoming.kind)
  /\ built' = BuiltAs(Incoming.id, Latest)
  /\ filling' = Append(filling, Latest)
  /\ UNCHANGED <<early, dropped, result>>

BuildClose ==
  /\ Reads("close")
  /\ filling' = SubSeq(filling, 1, Len(filling) - 1)
  /\ Graft(filling[Len(filling)], objects, filling')
  /\ UNCHANGED built

BuildBytes ==
  /\ Reads("bytes")
  /\ built' = BuiltAs(Incoming.id, Latest)
  /\ Graft(Latest, New("bytes"), filling)
  /\ UNCHANGED filling

BuildRef ==
  /\ Reads("ref")
  /\ Graft(IF Incoming.id \in DOMAIN built THEN built[Incoming.id] ELSE Prim, objects, filling)
  /\ UNCHANGED <<built, filling>>

BuildValue ==
  /\ \/ Reads("prim") /\ Graft(Prim, objects, filling)
     \/ Reads("text") /\ Graft(Text, objects, filling)
  /\ UNCHANGED <<built, filling>>

BuildEnds ==
  /\ phase = "rebuild" /\ read = Len(msg)
  /\ phase' = "done"
  /\ UNCHANGED <<side, sourceVars, walkVars, rebuildVars>>

-----------------------------------------------------------------------------
Init ==
  /\ side \in Sides
  /\ \E g \in Graphs : kind = g.kind /\ kids = g.kids
  /\ phase = "walk"
  /\ frames = <<>> /\ seen = <<>> /\ nextId = 0 /\ threw = FALSE /\ writes = 0
  /\ msg = <<>> /\ read = 0
  /\ objects = <<>> /\ built = <<>> /\ filling = <<>>
  /\ early = {} /\ dropped = {} /\ result = Prim

Visit(n) ==
  \/ VisitAgain(n) \/ VisitTooDeep(n) \/ VisitBuffer(n)
  \/ EnterContainer(n) \/ VisitUnreadable(n)

Walk ==
  \/ \E n \in Nodes : Visit(n) \/ SourceChanges(n)
  \/ VisitPrim \/ AccessorThrows \/ LeaveContainer \/ WalkEnds

Rebuild == BuildOpen \/ BuildClose \/ BuildBytes \/ BuildRef \/ BuildValue \/ BuildEnds

Next == Walk \/ Rebuild \/ RubyRaises

Spec == Init /\ [][Next]_vars
-----------------------------------------------------------------------------
\* Types of the source, of the data and of what is built from it.
TypeOK ==
  /\ kind \in [Nodes -> Kinds]
  /\ kids \in [Nodes -> Seq(Nodes \cup {Prim})]
  /\ phase \in {"walk", "rebuild", "done", "failed"}
  /\ \A k \in DOMAIN frames : frames[k].node \in Nodes /\ frames[k].next \in Nat
  /\ DOMAIN seen \subseteq Nodes /\ Range(seen) \subseteq 0 .. nextId - 1
  /\ msg \in Seq(Token)
  /\ read \in 0 .. Len(msg)
  /\ \A o \in Made : objects[o].kind \in Kinds /\ objects[o].items \in Seq(Values)
  /\ Range(built) \subseteq Made /\ Range(filling) \subseteq Made
  /\ early \subseteq Made /\ dropped \subseteq Values
  /\ result \in Values

\* A Ref is to a container or buffer emitted before it, however deep or cyclic
\* the graph, whatever was truncated or could not be read, and whatever the
\* code that ran meanwhile changed: the other side never finds nothing for it.
NoDanglingRef ==
  \A k \in DOMAIN msg : msg[k].t = "ref" =>
    \E j \in 1 .. k - 1 : msg[j].t \in {"open", "bytes"} /\ msg[j].id = msg[k].id

\* The copy of a source object, and what an element of the source may be in the
\* copy of its container.
CopyOf(n) == built[seen[n]]
Copies(el) ==
  IF el = Prim THEN {Prim}
  ELSE (IF el \in DOMAIN seen THEN {CopyOf(el)} ELSE {})
       \cup (IF kind[el] # "bytes" THEN {Text} ELSE {})

\* A graph nobody changed arrives as it was: one object for each that was
\* emitted, of its kind, with the copies of its elements in order; a container,
\* but never a buffer, may be a string where it was too deep.  A Hash or Set
\* that took two elements for one is the exception.
SameShape ==
  phase = "done" /\ writes = 0 /\ dropped = {} =>
    /\ result \in Copies(Root)
    /\ \A m, n \in DOMAIN seen : CopyOf(m) = CopyOf(n) => m = n
    /\ \A n \in DOMAIN seen :
         LET copy == objects[CopyOf(n)]
         IN /\ copy.kind = kind[n]
            /\ Len(copy.items) = Len(kids[n])
            /\ \A k \in DOMAIN kids[n] : copy.items[k] \in Copies(kids[n][k])

\* The objects in the table that a Ref still to come stands for.
Awaited ==
  {built[msg[k].id] : k \in {j \in read + 1 .. Len(msg) : msg[j].t = "ref" /\ msg[j].id \in DOMAIN built}}

\* The table is hidden from Ruby's collector.  What a Ref will need of it is
\* reachable from the containers being filled, which are locals, unless a Hash
\* or Set did not keep it.
AwaitedRooted ==
  phase = "rebuild" /\ side = "js" => Awaited \subseteq Reachable(Range(filling) \cup dropped)

\* The comment above jsval_to_ruby_d says it of all: "So `built` never holds the
\* sole reference."
NeverSoleReference ==
  phase = "rebuild" /\ side = "js" => Awaited \subseteq Reachable(Range(filling))
=============================================================================
