----------------------------- MODULE MCMarshal -----------------------------
(* Instances of Marshal for TLC.                                           *)
EXTENDS Marshal, TLC
CONSTANTS n1, n2, n3, n4

\* The containers, other than maps, of a number of elements.
Containers(count) ==
  [kind : {"array", "object"}, kids : [1 .. count -> Nodes]]
    \cup [kind : {"set"}, kids : {s \in [1 .. count -> Nodes] : Cardinality({s[k] : k \in 1 .. count}) = count}]

Leaves == [kind : {"array", "bytes"}, kids : {<<>>}]
MapsOf(pairs) == [kind : {"map"}, kids : pairs]

Graph(obj) ==
  [kind |-> [n \in Nodes |-> obj[n].kind], kids |-> [n \in Nodes |-> obj[n].kids]]

\* The graphs of a root with two elements, or a map with one pair of anything
\* or with the other two objects for its keys, and two objects with one or none,
\* the last of which is no object or map.
SmallGraphs ==
  {Graph((n1 :> a) @@ (n2 :> b) @@ (n3 :> c)) :
     a \in Containers(2) \cup MapsOf([1 .. 2 -> Nodes])
                         \cup MapsOf({<<n2, x, n3, y>> : x, y \in Nodes}),
     b \in Leaves \cup Containers(1) \cup MapsOf({<<Prim, x>> : x \in Nodes}),
     c \in Leaves \cup {s \in Containers(1) : s.kind # "object"}}

Symmetry == Permutations({n2, n3})

\* An object in a set beside one that equals it, and outside of the set.
Twins ==
  LET Empty == [kind |-> "array", kids |-> <<>>]
  IN {Graph((n1 :> [kind |-> "array", kids |-> <<n2, n4>>])
            @@ (n2 :> [kind |-> "set", kids |-> <<n3, n4>>])
            @@ (n3 :> Empty) @@ (n4 :> Empty))}

\* The codec of BigInts: the digits have the magnitude of the limbs, an empty
\* list and leading zero limbs included, and limbs without these come back.
Limbs == UNION {[1 .. k -> 0 .. Base ^ LimbDigits - 1] : k \in 0 .. 3}
Amount(words) ==
  LET sum[k \in 0 .. Len(words)] ==
        IF k = 0 THEN 0 ELSE sum[k - 1] + words[k] * (Base ^ LimbDigits) ^ (k - 1)
  IN sum[Len(words)]
ASSUME CodecAssumption ==
  \A words \in Limbs :
    /\ Magnitude(WordsToHex(words)) = Amount(words)
    /\ Len(words) = 1 \/ (words # <<>> /\ words[Len(words)] # 0)
       => HexToWords(WordsToHex(words)) = words
=============================================================================
