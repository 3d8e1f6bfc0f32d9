------------------------------ MODULE Transfer ------------------------------
(***************************************************************************)
(* The process-wide registry that hands the memory of ArrayBuffers and     *)
(* SharedArrayBuffers from one isolate to another                          *)
(* (ext/rusty_racer/src/lib.rs: transfer_out to transfer_drop).            *)
(*                                                                         *)
(* Isolates of different threads run JavaScript, and so these callbacks,   *)
(* in parallel: a callback's steps interleave with those of the others     *)
(* wherever it does not hold the registry's lock.  A token is a number     *)
(* JavaScript may pass on, keep, or make up.                               *)
(*                                                                         *)
(* A buffer that is detached already transfers an empty memory of its own, *)
(* and is left out; converting an argument to a number may run JavaScript, *)
(* but does so before the callback's first step here.                      *)
(***************************************************************************)
EXTENDS Integers, FiniteSets

CONSTANTS
  Isolates,   \* the isolates, each on a thread of its own
  Plain,      \* backing stores of ArrayBuffers
  Pinned,     \* those that cannot be detached: WebAssembly memory, detach keys
  Shared,     \* backing stores of SharedArrayBuffers
  NoStore,    \* a callback that holds none
  MaxTokens   \* bound: tokens issued

Stores == Plain \cup Pinned \cup Shared

ASSUME StoresAssumption ==
  /\ Plain \cap Pinned = {} /\ Plain \cap Shared = {} /\ Pinned \cap Shared = {}
  /\ NoStore \notin Stores
ASSUME MaxTokensAssumption == MaxTokens \in Nat

VARIABLES
  made,      \* the stores there have been
  buffers,   \* the buffers JavaScript has that are not detached
  registry,  \* TRANSFER_REGISTRY: token to store and kind
  next,      \* NEXT_TRANSFER_TOKEN
  native,    \* where each isolate's callback is, and what it holds
  spent      \* the tokens that were imported or dropped

vars == <<made, buffers, registry, next, native, spent>>

Idle == [at |-> "idle", store |-> NoStore, shared |-> FALSE, token |-> 0]
At(i, step) == native[i].at = step

Buffer(i, s, shared) == [iso |-> i, store |-> s, shared |-> shared]
Held(at, s, shared) == [at |-> at, store |-> s, shared |-> shared, token |-> 0]

-----------------------------------------------------------------------------
(* JavaScript makes a buffer, and the collector, or the disposal of its    *)
(* isolate, frees it.                                                      *)
MakeBuffer(i, s) ==
  /\ s \notin made
  /\ made' = made \cup {s}
  /\ buffers' = buffers \cup {Buffer(i, s, s \in Shared)}
  /\ UNCHANGED <<registry, next, native, spent>>

Collect(b) ==
  /\ b \in buffers
  /\ buffers' = buffers \ {b}
  /\ UNCHANGED <<made, registry, next, native, spent>>

\* Mutant: the store is taken whether or not its buffer lets itself be detached.
OutUndetached(i, s) ==
  /\ At(i, "idle")
  /\ Buffer(i, s, FALSE) \in buffers
  /\ native' = [native EXCEPT ![i] = Held("number", s, FALSE)]
  /\ buffers' = IF s \in Pinned THEN buffers ELSE buffers \ {Buffer(i, s, FALSE)}
  /\ UNCHANGED <<made, registry, next, spent>>

(* transfer_out: the store of an ArrayBuffer that can be detached is taken *)
(* and the buffer detached.                                                *)
TransferOut(i, s) ==
  /\ At(i, "idle")
  /\ Buffer(i, s, FALSE) \in buffers /\ s \notin Pinned
  /\ native' = [native EXCEPT ![i] = Held("number", s, FALSE)]
  /\ buffers' = buffers \ {Buffer(i, s, FALSE)}
  /\ UNCHANGED <<made, registry, next, spent>>

(* share_out: the SharedArrayBuffer stays.                                 *)
ShareOut(i, s) ==
  /\ At(i, "idle")
  /\ Buffer(i, s, TRUE) \in buffers
  /\ native' = [native EXCEPT ![i] = Held("number", s, TRUE)]
  /\ UNCHANGED <<made, buffers, registry, next, spent>>

\* Mutant: the lowest number that is free.
NumberReusing(i) ==
  /\ At(i, "number")
  /\ \E t \in 1 .. MaxTokens :
        /\ t \notin DOMAIN registry /\ 1 .. t - 1 \subseteq DOMAIN registry
        /\ native' = [native EXCEPT ![i].at = "insert", ![i].token = t]
  /\ UNCHANGED <<made, buffers, registry, next, spent>>

(* The next token, by fetch_add.                                           *)
Number(i) ==
  /\ At(i, "number")
  /\ next <= MaxTokens
  /\ native' = [native EXCEPT ![i].at = "insert", ![i].token = next]
  /\ next' = next + 1
  /\ UNCHANGED <<made, buffers, registry, spent>>

(* The insertion, which would replace what the token names.                *)
Insert(i) ==
  /\ At(i, "insert")
  /\ registry' = [t \in DOMAIN registry \cup {native[i].token} |->
                    IF t = native[i].token
                    THEN [store |-> native[i].store, shared |-> native[i].shared]
                    ELSE registry[t]]
  /\ native' = [native EXCEPT ![i] = Idle]
  /\ UNCHANGED <<made, buffers, next, spent>>

-----------------------------------------------------------------------------
\* Mutant: the store is looked up, and its entry removed by another lock.
TakeLooking(i, t, shared) ==
  /\ At(i, "idle")
  /\ t \in DOMAIN registry /\ registry[t].shared = shared
  /\ native' = [native EXCEPT ![i] = Held("build", registry[t].store, shared)]
  /\ UNCHANGED <<made, buffers, registry, next, spent>>

\* Mutant: the kind of the token is not looked at.
TakeAnyKind(i, t, shared) ==
  /\ At(i, "idle")
  /\ t \in DOMAIN registry
  /\ registry' = [u \in DOMAIN registry \ {t} |-> registry[u]]
  /\ native' = [native EXCEPT ![i] = Held("build", registry[t].store, shared)]
  /\ spent' = spent \cup {t}
  /\ UNCHANGED <<made, buffers, next>>

(* take_store, for transfer_in and share_in: under the lock it removes the *)
(* entry of a token of the kind asked for; any other token it leaves.      *)
Take(i, t, shared) ==
  /\ At(i, "idle")
  /\ t \in DOMAIN registry /\ registry[t].shared = shared
  /\ registry' = [u \in DOMAIN registry \ {t} |-> registry[u]]
  /\ native' = [native EXCEPT ![i] = Held("build", registry[t].store, shared)]
  /\ spent' = spent \cup {t}
  /\ UNCHANGED <<made, buffers, next>>

(* The buffer over it that JavaScript gets.                                *)
Build(i) ==
  /\ At(i, "build")
  /\ buffers' = buffers \cup {Buffer(i, native[i].store, native[i].shared)}
  /\ native' = [native EXCEPT ![i] = Idle]
  /\ UNCHANGED <<made, registry, next, spent>>

(* transfer_drop, for a message that is discarded.                         *)
TransferDrop(i, t) ==
  /\ At(i, "idle")
  /\ t \in DOMAIN registry
  /\ registry' = [u \in DOMAIN registry \ {t} |-> registry[u]]
  /\ spent' = spent \cup {t}
  /\ UNCHANGED <<made, buffers, next, native>>

-----------------------------------------------------------------------------
Init ==
  /\ made = {}
  /\ buffers = {}
  /\ registry = [t \in {} |-> Idle]
  /\ next = 1
  /\ native = [i \in Isolates |-> Idle]
  /\ spent = {}

Next ==
  \/ \E i \in Isolates, s \in Stores : MakeBuffer(i, s) \/ TransferOut(i, s) \/ ShareOut(i, s)
  \/ \E b \in buffers : Collect(b)
  \/ \E i \in Isolates : Number(i) \/ Insert(i) \/ Build(i)
  \/ \E i \in Isolates, t \in DOMAIN registry, shared \in BOOLEAN : Take(i, t, shared)
  \/ \E i \in Isolates, t \in DOMAIN registry : TransferDrop(i, t)

Spec == Init /\ [][Next]_vars
-----------------------------------------------------------------------------
\* Types, and what a callback holds where: a store from its first step on, a
\* token that was issued from the second.
TypeOK ==
  /\ made \subseteq Stores
  /\ buffers \subseteq [iso : Isolates, store : made, shared : BOOLEAN]
  /\ DOMAIN registry \subseteq 1 .. next - 1
  /\ \A t \in DOMAIN registry : registry[t] \in [store : made, shared : BOOLEAN]
  /\ next \in 1 .. MaxTokens + 1
  /\ native \in [Isolates -> [at : {"idle", "number", "insert", "build"},
                              store : made \cup {NoStore}, shared : BOOLEAN,
                              token : 0 .. MaxTokens]]
  /\ \A i \in Isolates : /\ native[i].store = NoStore <=> At(i, "idle")
                         /\ At(i, "insert") => native[i].token \in 1 .. next - 1
  /\ spent \subseteq 1 .. next - 1

\* Everything that has a hold on a store.
Holders(s) ==
  {[by |-> "buffer", who |-> b.iso] : b \in {c \in buffers : c.store = s}}
    \cup {[by |-> "token", who |-> t] : t \in {u \in DOMAIN registry : registry[u].store = s}}
    \cup {[by |-> "native", who |-> i] : i \in {j \in Isolates : native[j].store = s}}

\* No two isolates, and no isolate and a token, ever have the memory of an
\* ArrayBuffer at once, however their threads interleave: a store has one holder.
SoleHolder == \A s \in Stores \ Shared : \A x, y \in Holders(s) : x = y

\* Shared memory comes back as a SharedArrayBuffer and other memory never does:
\* a token given to the wrong import rebuilds nothing.
KindKept ==
  /\ \A b \in buffers : b.shared <=> b.store \in Shared
  /\ \A t \in DOMAIN registry : registry[t].shared <=> registry[t].store \in Shared

\* A token that was imported or dropped never names anything again, so one that
\* is used twice or late steals no other transfer.
TokensAreOnce == spent \cap DOMAIN registry = {}

-----------------------------------------------------------------------------
\* The owner of a memory as Ownership has it.
Owner ==
  [s \in Plain |->
     IF \E b \in buffers : b.store = s
     THEN (CHOOSE b \in buffers : b.store = s).iso
     ELSE IF Holders(s) # {} THEN "post" ELSE "nobody"]

Own == INSTANCE Ownership WITH
         Memories <- Plain, Post <- "post", Nobody <- "nobody", owner <- Owner

\* The registry, with its locks and its callbacks cut in steps, implements what a
\* transfer promises: memory goes from its one owner to the post, from there to
\* one isolate, and nowhere else.
ImplementsOwnership == Own!Spec
=============================================================================
