--------------------------- MODULE ItemCacheProofs --------------------------
(***************************************************************************)
(* What ItemCache promises of the items FSKit is handed, for any paths,    *)
(* renames and hidden names, and any number of threads.                    *)
(***************************************************************************)
EXTENDS ItemCache, FiniteSetTheorems, TLAPS

-----------------------------------------------------------------------------
(* The inductive invariant: the reference count of every item is the       *)
(* number of references there are to it - what FSKit was handed, the       *)
(* cache's own and one per handler that has not given its away yet.        *)

Users(f, i) == {t \in Thread : f[t] = i}

InCache(c, i) == \E p \in DOMAIN c : c[p] = i

Counted ==
    \A i \in Instance :
        heap[i].refs = held[i] + (IF InCache(items, i) THEN 1 ELSE 0) + Cardinality(Users(item, i))

(* An item is cached under the path it was made with, and so only once.    *)
CachedAtItsPath == \A p \in DOMAIN items : Live(items[p]) /\ heap[items[p]].path = p

(* What FSKit has in use it was handed. *)
KnownIsHeld == \A i \in known : held[i] > 0

(* A handler has a reference from minting to the reply, and from a reclaim *)
(* to the drop.                                                            *)
CarriersKnow ==
    \A t \in Thread : /\ pc[t] \in {"reply", "drop"} => item[t] # NoItem
                      /\ item[t] # NoItem => pc[t] \in {"reply", "forget", "drop"}

IInv == TypeOK /\ Counted /\ CachedAtItsPath /\ KnownIsHeld /\ CarriersKnow

-----------------------------------------------------------------------------
(* Counting the references of handlers. *)

LEMMA UsersCounted ==
    ASSUME NEW f, NEW i PROVE IsFiniteSet(Users(f, i)) /\ Cardinality(Users(f, i)) \in Nat
<1>1. Users(f, i) \in SUBSET Thread
  BY DEF Users
<1>2. IsFiniteSet(Users(f, i))
  BY <1>1, ThreadAssumption, FS_Subset
<1> QED BY <1>2, FS_CardinalityType

LEMMA OneMore ==
    ASSUME NEW f \in [Thread -> Instance \cup {NoItem}], NEW t \in Thread, f[t] = NoItem,
           NEW j \in Instance, NEW i \in Instance
    PROVE  Cardinality(Users([f EXCEPT ![t] = j], i)) =
               Cardinality(Users(f, i)) + (IF i = j THEN 1 ELSE 0)
<1> DEFINE g == [f EXCEPT ![t] = j]
<1>1. CASE i = j
  <2>1. Users(g, i) = Users(f, i) \cup {t} /\ t \notin Users(f, i)
    BY <1>1, InstanceAssumption DEF Users
  <2> QED BY <1>1, <2>1, FS_AddElement, UsersCounted
<1>2. CASE i # j
  <2>1. Users(g, i) = Users(f, i)
    BY <1>2, InstanceAssumption DEF Users
  <2> QED BY <1>2, <2>1, UsersCounted
<1> QED BY <1>1, <1>2

LEMMA OneLess ==
    ASSUME NEW f \in [Thread -> Instance \cup {NoItem}], NEW t \in Thread, f[t] \in Instance,
           NEW i \in Instance
    PROVE  Cardinality(Users([f EXCEPT ![t] = NoItem], i)) =
               Cardinality(Users(f, i)) - (IF i = f[t] THEN 1 ELSE 0)
<1> DEFINE g == [f EXCEPT ![t] = NoItem]
<1>1. CASE i = f[t]
  <2>1. Users(g, i) = Users(f, i) \ {t} /\ t \in Users(f, i)
    BY <1>1, InstanceAssumption DEF Users
  <2> HIDE DEF g
  <2>2. PICK S : S = Users(f, i)
    OBVIOUS
  <2>3. IsFiniteSet(S) /\ t \in S
    BY <2>1, <2>2, UsersCounted
  <2>4. Cardinality(S \ {t}) = Cardinality(S) - 1
    BY <2>3, FS_RemoveElement
  <2> QED BY <1>1, <2>1, <2>2, <2>4 DEF g
<1>2. CASE i # f[t]
  <2>1. Users(g, i) = Users(f, i)
    BY <1>2, InstanceAssumption DEF Users
  <2> QED BY <1>2, <2>1, UsersCounted
<1> QED BY <1>1, <1>2

(* What can be reached has a count, and so is alive. *)
LEMMA Reachable ==
    ASSUME IInv
    PROVE  /\ \A p \in DOMAIN items : Live(items[p])
           /\ \A i \in Instance : held[i] > 0 \/ i \in known => Live(i)
           /\ \A t \in Thread : item[t] # NoItem => Live(item[t]) /\ item[t] \in Instance
<1>1. ASSUME NEW i \in Instance, held[i] > 0 PROVE Live(i)
  <2>1. heap[i].refs > 0
    BY <1>1, UsersCounted DEF IInv, TypeOK, Counted
  <2> QED BY <2>1 DEF Live, Free
<1>2. ASSUME NEW t \in Thread, item[t] # NoItem PROVE item[t] \in Instance /\ Live(item[t])
  <2>1. item[t] \in Instance /\ held[item[t]] \in Nat
    BY <1>2 DEF IInv, TypeOK
  <2>2. Users(item, item[t]) # {}
    BY DEF Users
  <2>3. Cardinality(Users(item, item[t])) > 0
    BY <2>2, UsersCounted, FS_EmptySet
  <2>4. heap[item[t]].refs > 0
    BY <2>1, <2>3, UsersCounted DEF IInv, Counted
  <2> QED BY <2>1, <2>4 DEF Live, Free
<1> QED BY <1>1, <1>2 DEF IInv, KnownIsHeld, CachedAtItsPath

-----------------------------------------------------------------------------
(* Typing, step by step.                                                   *)

LEMMA InitTyping == Init => TypeOK
BY DEF Init, TypeOK, Place, Kind, Jobs, Free

(* A call begins with a path and an item of the right kind.                *)
LEMMA CallTyping ==
    ASSUME TypeOK, NEW t \in Thread, NEW job \in Jobs, NEW p \in Place, NEW q \in Place,
           NEW k \in Kind, NEW i \in Instance \cup {NoItem}, Call(t, job, p, q, k, i),
           known' \subseteq Instance, held' \in [Instance -> Nat]
    PROVE  TypeOK'
BY DEF TypeOK, Call, store

LEMMA LiveItemTyping ==
    ASSUME TypeOK, NEW i \in Instance, Live(i)
    PROVE  heap[i] \in Item
BY DEF TypeOK, Live

LEMMA CallsTyping ==
    ASSUME IInv, NEW t \in Thread,
           \/ Activate(t)
           \/ \E p \in Node : Lookup(t, p) \/ RemoveItem(t, p) \/ \E k \in Kind : CreateItem(t, p, k)
           \/ \E i \in Instance : ReclaimItem(t, i) \/ \E q \in Node : RenameItem(t, i, q)
    PROVE  TypeOK'
<1> USE DEF Jobs, Kind, Place
<1>0. TypeOK /\ known \subseteq Instance /\ held \in [Instance -> Nat]
  BY DEF IInv, TypeOK
<1>1. CASE Activate(t)
  BY <1>0, <1>1, CallTyping DEF Activate, fskit
<1>2. ASSUME NEW p \in Node, Lookup(t, p) PROVE TypeOK'
  BY <1>0, <1>2, CallTyping DEF Lookup, fskit
<1>3. ASSUME NEW p \in Node, RemoveItem(t, p) PROVE TypeOK'
  <2>1. CASE Call(t, "stat for remove", p, Root, "dir", NoItem)
    BY <1>0, <1>3, <2>1, CallTyping DEF RemoveItem, fskit
  <2>2. ASSUME NEW i \in known, Call(t, "remove", p, Root, heap[i].kind, NoItem) PROVE TypeOK'
    <3>1. heap[i].kind \in Kind
      BY <1>0, LiveItemTyping, Reachable DEF Item
    <3> QED BY <1>0, <1>3, <2>2, <3>1, CallTyping DEF RemoveItem, fskit
  <2> QED BY <1>3, <2>1, <2>2 DEF RemoveItem
<1>4. ASSUME NEW p \in Node, NEW k \in Kind, CreateItem(t, p, k) PROVE TypeOK'
  BY <1>0, <1>4, CallTyping DEF CreateItem, fskit
<1>5. ASSUME NEW i \in Instance, ReclaimItem(t, i) PROVE TypeOK'
  <2>1. heap[i].path \in Place
    BY <1>5, <1>0, LiveItemTyping, Reachable DEF ReclaimItem, Item
  <2>2. known' \subseteq Instance /\ held' \in [Instance -> Nat]
    BY <1>0, <1>5 DEF ReclaimItem
  <2>3. Call(t, "forget", heap[i].path, Root, "dir", i)
    BY <1>5 DEF ReclaimItem
  <2> QED BY <1>0, <2>1, <2>2, <2>3, CallTyping
<1>6. ASSUME NEW i \in Instance, NEW q \in Node, RenameItem(t, i, q) PROVE TypeOK'
  <2>1. heap[i].path \in Place
    BY <1>6, <1>0, LiveItemTyping, Reachable DEF RenameItem, Item
  <2> QED BY <1>0, <1>6, <2>1, CallTyping DEF RenameItem, fskit
<1> QED BY <1>1, <1>2, <1>3, <1>4, <1>5, <1>6

(* A rename moves kinds about.                                             *)
LEMMA RenameTyping == ASSUME TypeOK, NEW t \in Thread, Rename(t) PROVE TypeOK'
<1> DEFINE moved == {p \in Node : p = path[t] \/ Under(path[t], p)}
           target(p) == Rekey(FileKey(p), path[t], to[t]).path
           left(p) == IF p \in moved THEN "none" ELSE names[p]
           Kinds == Kind \cup {"none"}
<1>1. /\ names' = [p \in Place |->
             IF \E q \in moved : target(q) = p
             THEN Over(names[CHOOSE q \in moved : target(q) = p], left(p))
             ELSE left(p)]
      /\ Obsolete(moved \cup {target(p) : p \in moved})
  BY DEF Rename
<1>2. moved \subseteq Place
  BY DEF Place
<1>3. \A p \in Place : left(p) \in Kinds
  BY DEF TypeOK
<1>4. \A k \in Kinds, l \in Kinds : Over(k, l) \in Kinds
  BY DEF Over
<1> HIDE DEF moved, target, left, Kinds
<1>5. ASSUME NEW p \in Place, \E q \in moved : target(q) = p
      PROVE  Over(names[CHOOSE q \in moved : target(q) = p], left(p)) \in Kinds
  <2>1. PICK q \in Place : q = (CHOOSE r \in moved : target(r) = p)
    BY <1>2, <1>5
  <2>2. names[q] \in Kinds
    BY DEF TypeOK, Kinds
  <2> QED BY <1>3, <1>4, <2>1, <2>2
<1>6. names' \in [Place -> Kind \cup {"none"}]
  BY <1>1, <1>3, <1>5 DEF Kinds
<1>7. gone' \subseteq Instance
  BY <1>1 DEF TypeOK, Obsolete
<1> QED BY <1>6, <1>7 DEF Rename, TypeOK, Goto, Jobs, fskit, locals

LEMMA BackendTyping ==
    ASSUME TypeOK, NEW t \in Thread,
           BackendRefuses(t) \/ Stat(t) \/ Create(t) \/ Remove(t)
    PROVE  TypeOK'
<1> USE DEF TypeOK, Goto, Jobs, fskit, locals, store
<1>1. CASE BackendRefuses(t)
  BY <1>1 DEF BackendRefuses
<1>2. CASE Stat(t)
  BY <1>2 DEF Stat
<1>3. CASE Create(t)
  BY <1>3 DEF Create
<1>4. CASE Remove(t)
  BY <1>4 DEF Remove, Obsolete
<1> QED BY <1>1, <1>2, <1>3, <1>4

LEMMA ReleasedTyping ==
    ASSUME TypeOK, NEW i \in Instance
    PROVE  Released(heap, i) \in [Instance -> {Free} \cup Item]
<1> DEFINE freed == IF heap[i].refs <= 1 THEN Free ELSE [heap[i] EXCEPT !.refs = @ - 1]
<1>1. freed \in {Free} \cup Item
  BY DEF TypeOK, Free, Item
<1> HIDE DEF freed
<1>2. [heap EXCEPT ![i] = freed] \in [Instance -> {Free} \cup Item]
  BY <1>1 DEF TypeOK
<1> QED BY <1>2 DEF Released, freed

LEMMA MintTyping == ASSUME IInv, NEW t \in Thread, Mint(t) PROVE TypeOK'
<1>0. TypeOK /\ path[t] \in Place /\ kind[t] \in Kind
  BY DEF IInv, TypeOK
<1>1. ASSUME heap' \in [Instance -> {Free} \cup Item], NEW i \in Instance, item' = [item EXCEPT ![t] = i],
             DOMAIN items' \subseteq Place, items' \in [DOMAIN items' -> Instance]
      PROVE  TypeOK'
  <2>1. /\ pc' = [pc EXCEPT ![t] = "reply"]
        /\ UNCHANGED <<names, gone, known, held, path, to, kind>>
    BY DEF Mint, Goto, fskit
  <2>2. item' \in [Thread -> Instance \cup {NoItem}]
    BY <1>0, <1>1 DEF TypeOK
  <2> QED BY <1>0, <1>1, <2>1, <2>2 DEF TypeOK, Jobs
<1>2. CASE path[t] \in DOMAIN items
  <2> DEFINE i == items[path[t]]
  <2>1. i \in Instance /\ Live(i)
    BY <1>2 DEF IInv, TypeOK, CachedAtItsPath
  <2>2. /\ heap' = [heap EXCEPT ![i].refs = @ + 1] /\ item' = [item EXCEPT ![t] = i]
        /\ UNCHANGED items
    BY <1>2 DEF Mint
  <2> HIDE DEF i
  <2>3. [heap[i] EXCEPT !.refs = @ + 1] \in Item
    BY <1>0, <2>1, LiveItemTyping DEF Item
  <2>4. heap' \in [Instance -> {Free} \cup Item]
    BY <1>0, <2>1, <2>2, <2>3 DEF TypeOK
  <2> QED BY <1>0, <1>1, <2>1, <2>2, <2>4 DEF TypeOK
<1>3. CASE path[t] \notin DOMAIN items
  <2>1. PICK i \in Instance :
            /\ heap' = [heap EXCEPT ![i] = [path |-> path[t], kind |-> kind[t], refs |-> 2]]
            /\ items' = [p \in DOMAIN items \cup {path[t]} |-> IF p = path[t] THEN i ELSE items[p]]
            /\ item' = [item EXCEPT ![t] = i]
    BY <1>3 DEF Mint
  <2>2. [path |-> path[t], kind |-> kind[t], refs |-> 2] \in Item
    BY <1>0 DEF Item
  <2>3. heap' \in [Instance -> {Free} \cup Item]
    BY <1>0, <2>1, <2>2 DEF TypeOK
  <2>4. DOMAIN items' \subseteq Place /\ items' \in [DOMAIN items' -> Instance]
    BY <1>0, <2>1 DEF TypeOK
  <2> QED BY <1>1, <2>1, <2>3, <2>4
<1> QED BY <1>2, <1>3

LEMMA ReplyTyping ==
    ASSUME TypeOK, NEW t \in Thread, Reply(t), item[t] \in Instance PROVE TypeOK'
<1> DEFINE i == item[t]
<1>1. /\ known' = known \cup {i}
      /\ held' = [held EXCEPT ![i] = @ + 1]
      /\ gone' = gone \ {i}
      /\ item' = [item EXCEPT ![t] = NoItem]
      /\ pc' = [pc EXCEPT ![t] = "idle"]
      /\ UNCHANGED <<names, heap, items, path, to, kind>>
  BY DEF Reply, Goto
<1>2. held' \in [Instance -> Nat]
  BY <1>1 DEF TypeOK
<1> QED BY <1>1, <1>2 DEF TypeOK, Jobs

LEMMA ForgetTyping == ASSUME TypeOK, NEW t \in Thread, Forget(t) PROVE TypeOK'
<1> USE DEF Goto, Jobs, fskit, locals
<1>1. CASE path[t] \in DOMAIN items
  <2>1. items[path[t]] \in Instance
    BY <1>1 DEF TypeOK
  <2>2. heap' \in [Instance -> {Free} \cup Item]
    BY <1>1, <2>1, ReleasedTyping DEF Forget
  <2>3. items' = [q \in DOMAIN items \ {path[t]} |-> items[q]]
    BY <1>1 DEF Forget
  <2>4. DOMAIN items' \subseteq Place /\ items' \in [DOMAIN items' -> Instance]
    BY <2>3 DEF TypeOK
  <2> QED BY <2>2, <2>4 DEF TypeOK, Forget
<1>2. CASE path[t] \notin DOMAIN items
  BY <1>2 DEF TypeOK, Forget
<1> QED BY <1>1, <1>2

LEMMA DropTyping ==
    ASSUME TypeOK, NEW t \in Thread, Drop(t), item[t] \in Instance PROVE TypeOK'
<1>1. heap' \in [Instance -> {Free} \cup Item]
  BY ReleasedTyping DEF Drop
<1> QED BY <1>1 DEF TypeOK, Drop, Goto, Jobs, fskit

-----------------------------------------------------------------------------
(* Steps that neither make a reference nor give one up: calls but reclaims,*)
(* and what the backend does.                                              *)

Still(t) == UNCHANGED <<heap, items, fskit, item>>

LEMMA NoReferenceMoves ==
    ASSUME IInv, NEW t \in Thread, Still(t), NEW job \in Jobs \ {"reply", "drop"},
           item[t] = NoItem, pc' = [pc EXCEPT ![t] = job]
    PROVE  (Counted /\ CachedAtItsPath /\ KnownIsHeld /\ CarriersKnow)'
<1>1. Counted'
  BY DEF IInv, Counted, Still, fskit, InCache, Users
<1>2. CachedAtItsPath' /\ KnownIsHeld'
  BY DEF IInv, CachedAtItsPath, KnownIsHeld, Still, fskit, Live
<1>3. CarriersKnow'
  BY DEF IInv, TypeOK, CarriersKnow, Still
<1> QED BY <1>1, <1>2, <1>3

LEMMA StillSteps ==
    ASSUME IInv, NEW t \in Thread,
           \/ Activate(t)
           \/ \E p \in Node : Lookup(t, p) \/ RemoveItem(t, p) \/ \E k \in Kind : CreateItem(t, p, k)
           \/ \E i \in Instance, q \in Node : RenameItem(t, i, q)
           \/ BackendRefuses(t) \/ Stat(t) \/ Create(t) \/ Remove(t) \/ Rename(t)
    PROVE  (Counted /\ CachedAtItsPath /\ KnownIsHeld /\ CarriersKnow)'
<1>1. ASSUME NEW job \in Jobs \ {"reply", "drop"}, NEW p, NEW q, NEW k,
             Call(t, job, p, q, k, NoItem), UNCHANGED fskit
      PROVE  (Counted /\ CachedAtItsPath /\ KnownIsHeld /\ CarriersKnow)'
  <2>1. pc[t] = "idle" /\ item[t] = NoItem
    BY <1>1 DEF IInv, CarriersKnow, Call
  <2>2. Still(t)
    BY <1>1, <2>1 DEF Call, Still, store, IInv, TypeOK
  <2> QED BY <1>1, <2>1, <2>2, NoReferenceMoves DEF Call
<1>2. CASE Activate(t)
  BY <1>1, <1>2 DEF Activate, Jobs
<1>3. ASSUME NEW p \in Node, Lookup(t, p) \/ RemoveItem(t, p) \/ \E k \in Kind : CreateItem(t, p, k)
      PROVE  (Counted /\ CachedAtItsPath /\ KnownIsHeld /\ CarriersKnow)'
  BY <1>1, <1>3 DEF Lookup, RemoveItem, CreateItem, Jobs
<1>4. ASSUME NEW i \in Instance, NEW q \in Node, RenameItem(t, i, q)
      PROVE  (Counted /\ CachedAtItsPath /\ KnownIsHeld /\ CarriersKnow)'
  BY <1>1, <1>4 DEF RenameItem, Jobs
<1>5. ASSUME BackendRefuses(t) \/ Stat(t) \/ Create(t) \/ Remove(t) \/ Rename(t)
      PROVE  (Counted /\ CachedAtItsPath /\ KnownIsHeld /\ CarriersKnow)'
  <2>1. pc[t] \in {"stat", "create", "stat for remove", "remove", "rename"}
    BY <1>5 DEF BackendRefuses, Stat, Create, Remove, Rename
  <2>2. item[t] = NoItem
    BY <2>1 DEF IInv, CarriersKnow
  <2>3. Still(t)
    BY <1>5 DEF BackendRefuses, Stat, Create, Remove, Rename, Still, store, locals
  <2>4. \E job \in Jobs \ {"reply", "drop"} : pc' = [pc EXCEPT ![t] = job]
    BY <1>5 DEF BackendRefuses, Stat, Create, Remove, Rename, Goto, Jobs
  <2> QED BY <2>2, <2>3, <2>4, NoReferenceMoves
<1> QED BY <1>2, <1>3, <1>4, <1>5

-----------------------------------------------------------------------------
(* Steps that make a reference, give one up or hand it on.                 *)

(* FSKit's reference becomes the handler's.                                *)
LEMMA ReclaimKeeps ==
    ASSUME IInv, NEW t \in Thread, NEW i \in Instance, ReclaimItem(t, i)
    PROVE  (Counted /\ CachedAtItsPath /\ KnownIsHeld /\ CarriersKnow)'
<1>1. /\ i \in known /\ held[i] > 0 /\ known' = known \ {i} /\ held' = [held EXCEPT ![i] = @ - 1]
      /\ pc[t] = "idle" /\ pc' = [pc EXCEPT ![t] = "forget"]
      /\ item' = [item EXCEPT ![t] = i] /\ UNCHANGED <<heap, items>>
  BY DEF ReclaimItem, Call, store
<1>2. item[t] = NoItem /\ i # item[t]
  BY <1>1, InstanceAssumption DEF IInv, CarriersKnow
<1>3. Counted'
  <2> SUFFICES ASSUME NEW j \in Instance
               PROVE  heap[j].refs = held'[j] + (IF InCache(items, j) THEN 1 ELSE 0)
                                         + Cardinality(Users(item', j))
    BY <1>1 DEF Counted
  <2>1. Cardinality(Users(item', j)) = Cardinality(Users(item, j)) + (IF j = i THEN 1 ELSE 0)
    BY <1>1, <1>2, OneMore DEF IInv, TypeOK
  <2>2. heap[j].refs = held[j] + (IF InCache(items, j) THEN 1 ELSE 0) + Cardinality(Users(item, j))
        /\ held[j] \in Nat
    BY DEF IInv, TypeOK, Counted
  <2>3. held'[j] = IF j = i THEN held[j] - 1 ELSE held[j]
    BY <1>1 DEF IInv, TypeOK
  <2> QED BY <2>1, <2>2, <2>3, UsersCounted
<1>4. KnownIsHeld'
  BY <1>1 DEF IInv, TypeOK, KnownIsHeld
<1>5. CachedAtItsPath'
  BY <1>1 DEF IInv, CachedAtItsPath, Live
<1>6. CarriersKnow'
  BY <1>1 DEF IInv, TypeOK, CarriersKnow
<1> QED BY <1>3, <1>4, <1>5, <1>6

LEMMA MintKeeps ==
    ASSUME IInv, NEW t \in Thread, Mint(t)
    PROVE  (Counted /\ CachedAtItsPath /\ KnownIsHeld /\ CarriersKnow)'
<1>1. pc[t] = "mint" /\ pc' = [pc EXCEPT ![t] = "reply"] /\ UNCHANGED <<known, held>>
  BY DEF Mint, Goto, fskit
<1>2. item[t] = NoItem
  BY <1>1 DEF IInv, CarriersKnow
<1>3. KnownIsHeld'
  BY <1>1 DEF IInv, KnownIsHeld
<1>4. ASSUME NEW i \in Instance, item' = [item EXCEPT ![t] = i]
      PROVE  /\ CarriersKnow'
             /\ \A j \in Instance : Cardinality(Users(item', j))
                    = Cardinality(Users(item, j)) + (IF j = i THEN 1 ELSE 0)
  <2>1. CarriersKnow'
    BY <1>1, <1>4, InstanceAssumption DEF IInv, TypeOK, CarriersKnow
  <2>2. ASSUME NEW j \in Instance
        PROVE  Cardinality(Users(item', j))
                    = Cardinality(Users(item, j)) + (IF j = i THEN 1 ELSE 0)
    BY <1>2, <1>4, OneMore DEF IInv, TypeOK
  <2> QED BY <2>1, <2>2
<1>5. CASE path[t] \in DOMAIN items
  <2> DEFINE i == items[path[t]]
  <2>1. i \in Instance /\ Live(i)
    BY <1>5 DEF IInv, TypeOK, CachedAtItsPath
  <2>2. /\ heap' = [heap EXCEPT ![i].refs = @ + 1] /\ item' = [item EXCEPT ![t] = i]
        /\ UNCHANGED items
    BY <1>5 DEF Mint
  <2> HIDE DEF i
  <2>3. heap[i] \in Item
    BY <2>1, LiveItemTyping DEF IInv
  <2>4. \A j \in Instance : j # i => heap'[j] = heap[j]
    BY <2>2 DEF IInv, TypeOK
  <2>5. heap'[i] = [heap[i] EXCEPT !.refs = @ + 1]
    BY <2>1, <2>2 DEF IInv, TypeOK
  <2>6. heap'[i].refs = heap[i].refs + 1 /\ heap'[i].path = heap[i].path
    BY <2>3, <2>5 DEF Item
  <2>7. Counted'
    <3> SUFFICES ASSUME NEW j \in Instance
                 PROVE  heap'[j].refs = held[j] + (IF InCache(items, j) THEN 1 ELSE 0)
                                            + Cardinality(Users(item', j))
      BY <1>1, <2>2 DEF Counted
    <3>1. heap[j].refs = held[j] + (IF InCache(items, j) THEN 1 ELSE 0) + Cardinality(Users(item, j))
          /\ held[j] \in Nat
      BY DEF IInv, TypeOK, Counted
    <3>2. Cardinality(Users(item', j)) = Cardinality(Users(item, j)) + (IF j = i THEN 1 ELSE 0)
      BY <1>4, <2>1, <2>2
    <3>3. heap'[j].refs = heap[j].refs + (IF j = i THEN 1 ELSE 0)
      <4>1. CASE j = i
        BY <4>1, <2>6
      <4>2. CASE j # i
        BY <4>2, <2>4, <3>1, UsersCounted
      <4> QED BY <4>1, <4>2
    <3> QED BY <3>1, <3>2, <3>3, UsersCounted
  <2>8. CachedAtItsPath'
    <3> SUFFICES ASSUME NEW p \in DOMAIN items PROVE heap'[items[p]] # Free /\ heap'[items[p]].path = p
      BY <2>2 DEF CachedAtItsPath, Live
    <3>1. items[p] \in Instance /\ heap[items[p]] # Free /\ heap[items[p]].path = p
      BY DEF IInv, TypeOK, CachedAtItsPath, Live
    <3>2. CASE items[p] = i
      BY <3>1, <3>2, <2>3, <2>6 DEF Free, Item
    <3>3. CASE items[p] # i
      BY <3>1, <3>3, <2>4
    <3> QED BY <3>2, <3>3
  <2> QED BY <1>3, <1>4, <2>1, <2>2, <2>7, <2>8
<1>6. CASE path[t] \notin DOMAIN items
  <2>1. PICK i \in Instance :
            /\ ~Live(i)
            /\ heap' = [heap EXCEPT ![i] = [path |-> path[t], kind |-> kind[t], refs |-> 2]]
            /\ items' = [p \in DOMAIN items \cup {path[t]} |-> IF p = path[t] THEN i ELSE items[p]]
            /\ item' = [item EXCEPT ![t] = i]
    BY <1>6 DEF Mint
  <2>2. \A j \in Instance : j # i => heap'[j] = heap[j]
    BY <2>1 DEF IInv, TypeOK
  <2>3. heap'[i] = [path |-> path[t], kind |-> kind[t], refs |-> 2]
    BY <2>1 DEF IInv, TypeOK
  <2>4. \A p \in DOMAIN items : items[p] \in Instance /\ items[p] # i
    BY <2>1 DEF IInv, TypeOK, CachedAtItsPath
  <2>5. Counted'
    <3> SUFFICES ASSUME NEW j \in Instance
                 PROVE  heap'[j].refs = held[j] + (IF InCache(items', j) THEN 1 ELSE 0)
                                            + Cardinality(Users(item', j))
      BY <1>1 DEF Counted
    <3>1. heap[j].refs = held[j] + (IF InCache(items, j) THEN 1 ELSE 0) + Cardinality(Users(item, j))
          /\ held[j] \in Nat
      BY DEF IInv, TypeOK, Counted
    <3>2. Cardinality(Users(item', j)) = Cardinality(Users(item, j)) + (IF j = i THEN 1 ELSE 0)
      BY <1>4, <2>1
    <3>3. CASE j = i
      <4>1. InCache(items', j) /\ ~InCache(items, j)
        BY <3>3, <2>1, <2>4 DEF InCache
      <4>2. heap[j].refs = 0
        BY <3>3, <2>1 DEF Live, Free
      <4>3. held[j] = 0 /\ Cardinality(Users(item, j)) = 0
        BY <3>1, <4>1, <4>2, UsersCounted
      <4>4. heap'[j].refs = 2
        BY <3>3, <2>3
      <4> QED BY <3>2, <3>3, <4>1, <4>3, <4>4
    <3>4. CASE j # i
      <4>1. InCache(items', j) <=> InCache(items, j)
        BY <3>4, <1>6, <2>1 DEF InCache
      <4> QED BY <3>1, <3>2, <3>4, <4>1, <2>2, UsersCounted
    <3> QED BY <3>3, <3>4
  <2>6. CachedAtItsPath'
    <3> SUFFICES ASSUME NEW p \in DOMAIN items' PROVE heap'[items'[p]] # Free /\ heap'[items'[p]].path = p
      BY DEF CachedAtItsPath, Live
    <3>1. CASE p = path[t]
      <4>1. heap'[items'[p]] = [path |-> path[t], kind |-> kind[t], refs |-> 2]
        BY <3>1, <2>1, <2>3
      <4> QED BY <3>1, <4>1 DEF Free
    <3>2. CASE p # path[t]
      <4>1. p \in DOMAIN items /\ items'[p] = items[p]
        BY <3>2, <2>1
      <4> QED BY <4>1, <2>2, <2>4 DEF IInv, CachedAtItsPath, Live
    <3> QED BY <3>1, <3>2
  <2> QED BY <1>3, <1>4, <2>1, <2>5, <2>6
<1> QED BY <1>5, <1>6

(* The handler's reference becomes FSKit's.                                *)
LEMMA ReplyKeeps ==
    ASSUME IInv, NEW t \in Thread, Reply(t)
    PROVE  (Counted /\ CachedAtItsPath /\ KnownIsHeld /\ CarriersKnow)'
<1> DEFINE i == item[t]
<1>1. /\ pc[t] = "reply" /\ pc' = [pc EXCEPT ![t] = "idle"]
      /\ known' = known \cup {i} /\ held' = [held EXCEPT ![i] = @ + 1]
      /\ item' = [item EXCEPT ![t] = NoItem]
      /\ UNCHANGED <<heap, items>>
  BY DEF Reply, Goto
<1>2. i \in Instance
  BY <1>1, Reachable DEF IInv, CarriersKnow
<1>3. ASSUME NEW j \in Instance PROVE held'[j] = held[j] + (IF j = i THEN 1 ELSE 0) /\ held[j] \in Nat
  BY <1>1, <1>2 DEF IInv, TypeOK
<1>4. Counted'
  <2> SUFFICES ASSUME NEW j \in Instance
               PROVE  heap[j].refs = held'[j] + (IF InCache(items, j) THEN 1 ELSE 0)
                                         + Cardinality(Users(item', j))
    BY <1>1 DEF Counted
  <2>1. Cardinality(Users(item', j)) = Cardinality(Users(item, j)) - (IF j = i THEN 1 ELSE 0)
    BY <1>1, <1>2, OneLess DEF IInv, TypeOK
  <2>2. heap[j].refs = held[j] + (IF InCache(items, j) THEN 1 ELSE 0) + Cardinality(Users(item, j))
    BY DEF IInv, Counted
  <2> HIDE DEF i
  <2> QED BY <2>1, <2>2, <1>3, UsersCounted
<1>5. KnownIsHeld'
  <2> HIDE DEF i
  <2> QED BY <1>1, <1>2, <1>3 DEF IInv, TypeOK, KnownIsHeld
<1>6. CachedAtItsPath'
  BY <1>1 DEF IInv, CachedAtItsPath, Live
<1>7. CarriersKnow'
  BY <1>1 DEF IInv, TypeOK, CarriersKnow
<1> QED BY <1>4, <1>5, <1>6, <1>7

(* One reference less, and the item freed when it was the last.            *)
LEMMA OneReleased ==
    ASSUME TypeOK, NEW i \in Instance, Live(i)
    PROVE  /\ \A j \in Instance : Released(heap, i)[j].refs = heap[j].refs - (IF j = i THEN 1 ELSE 0)
           /\ \A j \in Instance : j # i => Released(heap, i)[j] = heap[j]
           /\ heap[i].refs > 1 => Released(heap, i)[i] # Free /\ Released(heap, i)[i].path = heap[i].path
<1> DEFINE left == IF heap[i].refs <= 1 THEN Free ELSE [heap[i] EXCEPT !.refs = @ - 1]
<1>1. heap[i] \in Item
  BY LiveItemTyping
<1>2. left.refs = heap[i].refs - 1 /\ (heap[i].refs > 1 => left # Free /\ left.path = heap[i].path)
  <2>1. CASE heap[i].refs <= 1
    BY <1>1, <2>1 DEF Item, Free
  <2>2. CASE heap[i].refs > 1
    BY <1>1, <2>2 DEF Item, Free
  <2> QED BY <1>1, <2>1, <2>2 DEF Item
<1>3. \A j \in Instance : Released(heap, i)[j] = IF j = i THEN left ELSE heap[j]
  BY DEF TypeOK, Released
<1>4. \A j \in Instance : heap[j].refs \in Nat
  BY DEF TypeOK, Free, Item
<1> HIDE DEF left
<1> QED BY <1>2, <1>3, <1>4

LEMMA ForgetKeeps ==
    ASSUME IInv, NEW t \in Thread, Forget(t)
    PROVE  (Counted /\ CachedAtItsPath /\ KnownIsHeld /\ CarriersKnow)'
<1>1. /\ pc[t] = "forget" /\ pc' = [pc EXCEPT ![t] = IF item[t] = NoItem THEN "idle" ELSE "drop"]
      /\ UNCHANGED <<known, held, item>>
  BY DEF Forget, Goto, fskit, locals
<1>2. KnownIsHeld'
  BY <1>1 DEF IInv, KnownIsHeld
<1>3. CarriersKnow'
  BY <1>1 DEF IInv, TypeOK, CarriersKnow
<1>4. CASE path[t] \notin DOMAIN items
  <2>1. UNCHANGED <<heap, items>>
    BY <1>4 DEF Forget
  <2> QED BY <2>1, <1>1, <1>2, <1>3 DEF IInv, Counted, CachedAtItsPath, Live, InCache, Users
<1>5. CASE path[t] \in DOMAIN items
  <2> DEFINE i == items[path[t]]
  <2>1. heap' = Released(heap, i) /\ items' = [q \in DOMAIN items \ {path[t]} |-> items[q]]
    BY <1>5 DEF Forget
  <2>2. i \in Instance /\ Live(i) /\ heap[i].path = path[t]
    BY <1>5 DEF IInv, TypeOK, CachedAtItsPath
  <2>3. \A p \in DOMAIN items : items[p] \in Instance /\ (items[p] = i => p = path[t])
    BY <2>2 DEF IInv, TypeOK, CachedAtItsPath
  <2>4. \A j \in Instance : InCache(items', j) <=> InCache(items, j) /\ j # i
    BY <2>1, <2>3 DEF InCache
  <2>5. InCache(items, i)
    BY <1>5 DEF InCache
  <2> HIDE DEF i
  <2>6. Counted'
    <3> SUFFICES ASSUME NEW j \in Instance
                 PROVE  heap'[j].refs = held[j] + (IF InCache(items', j) THEN 1 ELSE 0)
                                            + Cardinality(Users(item, j))
      BY <1>1 DEF Counted
    <3>1. heap[j].refs = held[j] + (IF InCache(items, j) THEN 1 ELSE 0) + Cardinality(Users(item, j))
          /\ held[j] \in Nat
      BY DEF IInv, TypeOK, Counted
    <3>2. heap'[j].refs = heap[j].refs - (IF j = i THEN 1 ELSE 0)
      BY <2>1, <2>2, OneReleased DEF IInv
    <3> QED BY <3>1, <3>2, <2>4, <2>5, UsersCounted
  <2>7. CachedAtItsPath'
    <3> SUFFICES ASSUME NEW p \in DOMAIN items' PROVE heap'[items'[p]] # Free /\ heap'[items'[p]].path = p
      BY DEF CachedAtItsPath, Live
    <3>1. p \in DOMAIN items /\ items'[p] = items[p] /\ items[p] # i /\ items[p] \in Instance
      BY <2>1, <2>3
    <3>2. heap'[items[p]] = heap[items[p]]
      BY <3>1, <2>1, <2>2, OneReleased DEF IInv
    <3> QED BY <3>1, <3>2 DEF IInv, CachedAtItsPath, Live
  <2> QED BY <1>2, <1>3, <2>6, <2>7
<1> QED BY <1>4, <1>5

(* The reference FSKit gave back is dropped.  A cached item stays: the     *)
(* cache's own reference is counted too.                                   *)
LEMMA DropKeeps ==
    ASSUME IInv, NEW t \in Thread, Drop(t)
    PROVE  (Counted /\ CachedAtItsPath /\ KnownIsHeld /\ CarriersKnow)'
<1> DEFINE i == item[t]
<1>1. /\ pc[t] = "drop" /\ pc' = [pc EXCEPT ![t] = "idle"]
      /\ heap' = Released(heap, i) /\ item' = [item EXCEPT ![t] = NoItem]
      /\ UNCHANGED <<items, known, held>>
  BY DEF Drop, Goto, fskit
<1>2. i \in Instance /\ Live(i)
  BY <1>1, Reachable DEF IInv, CarriersKnow
<1>3. \A j \in Instance : heap[j].refs = held[j] + (IF InCache(items, j) THEN 1 ELSE 0)
                                             + Cardinality(Users(item, j)) /\ held[j] \in Nat
  BY DEF IInv, TypeOK, Counted
<1>4. \A j \in Instance : Cardinality(Users(item', j))
                              = Cardinality(Users(item, j)) - (IF j = i THEN 1 ELSE 0)
  BY <1>1, <1>2, OneLess DEF IInv, TypeOK
<1>5. KnownIsHeld'
  BY <1>1 DEF IInv, KnownIsHeld
<1>6. CarriersKnow'
  BY <1>1 DEF IInv, TypeOK, CarriersKnow
<1> HIDE DEF i
<1>7. \A j \in Instance : heap'[j].refs = heap[j].refs - (IF j = i THEN 1 ELSE 0)
  BY <1>1, <1>2, OneReleased DEF IInv
<1>8. Counted'
  <2> SUFFICES ASSUME NEW j \in Instance
               PROVE  heap'[j].refs = held[j] + (IF InCache(items, j) THEN 1 ELSE 0)
                                          + Cardinality(Users(item', j))
    BY <1>1 DEF Counted
  <2> QED BY <1>3, <1>4, <1>7, UsersCounted
<1>9. CachedAtItsPath'
  <2> SUFFICES ASSUME NEW p \in DOMAIN items PROVE heap'[items[p]] # Free /\ heap'[items[p]].path = p
    BY <1>1 DEF CachedAtItsPath, Live
  <2>1. items[p] \in Instance /\ heap[items[p]] # Free /\ heap[items[p]].path = p
    BY DEF IInv, TypeOK, CachedAtItsPath, Live
  <2>2. CASE items[p] # i
    BY <2>1, <2>2, <1>1, <1>2, OneReleased DEF IInv
  <2>3. CASE items[p] = i
    <3>1. InCache(items, i)
      BY <2>3 DEF InCache
    <3>2. Cardinality(Users(item, i)) > 0
      BY <1>2, <1>4, UsersCounted
    <3>3. heap[i].refs > 1
      BY <1>2, <1>3, <3>1, <3>2, UsersCounted
    <3> QED BY <2>1, <2>3, <3>3, <1>1, <1>2, OneReleased DEF IInv
  <2> QED BY <2>2, <2>3
<1> QED BY <1>5, <1>6, <1>8, <1>9

-----------------------------------------------------------------------------
LEMMA InitIInv == Init => IInv
<1> SUFFICES ASSUME Init PROVE IInv
  OBVIOUS
<1>1. \A i \in Instance : Cardinality(Users(item, i)) = 0
  <2> SUFFICES ASSUME NEW i \in Instance PROVE Cardinality(Users(item, i)) = 0
    OBVIOUS
  <2>1. Users(item, i) = {}
    BY InstanceAssumption DEF Init, Users
  <2> QED BY <2>1, FS_EmptySet
<1>2. Counted
  BY <1>1 DEF Init, Counted, InCache, Free
<1>3. CachedAtItsPath /\ KnownIsHeld /\ CarriersKnow
  BY DEF Init, CachedAtItsPath, KnownIsHeld, CarriersKnow
<1> QED BY <1>2, <1>3, InitTyping DEF IInv

LEMMA StepIInv == IInv /\ [Next]_vars => IInv'
<1> SUFFICES ASSUME IInv, [Next]_vars PROVE IInv'
  OBVIOUS
<1>1. CASE UNCHANGED vars
  BY <1>1 DEF vars, store, fskit, locals, IInv, TypeOK, Counted, CachedAtItsPath, KnownIsHeld,
              CarriersKnow, Live, InCache, Users
<1>2. ASSUME NEW t \in Thread,
             \/ Activate(t)
             \/ \E p \in Node : Lookup(t, p) \/ RemoveItem(t, p) \/ \E k \in Kind : CreateItem(t, p, k)
             \/ \E i \in Instance, q \in Node : RenameItem(t, i, q)
      PROVE  IInv'
  BY <1>2, CallsTyping, StillSteps DEF IInv
<1>3. ASSUME NEW t \in Thread, NEW i \in Instance, ReclaimItem(t, i) PROVE IInv'
  BY <1>3, CallsTyping, ReclaimKeeps DEF IInv
<1>4. ASSUME NEW t \in Thread, BackendRefuses(t) \/ Stat(t) \/ Create(t) \/ Remove(t) \/ Rename(t)
      PROVE  IInv'
  BY <1>4, BackendTyping, RenameTyping, StillSteps DEF IInv
<1>5. ASSUME NEW t \in Thread, Mint(t) PROVE IInv'
  BY <1>5, MintTyping, MintKeeps DEF IInv
<1>6. ASSUME NEW t \in Thread, Reply(t) PROVE IInv'
  <2>1. item[t] \in Instance
    BY <1>6, Reachable DEF Reply, IInv, CarriersKnow
  <2> QED BY <1>6, <2>1, ReplyTyping, ReplyKeeps DEF IInv
<1>7. ASSUME NEW t \in Thread, Forget(t) PROVE IInv'
  BY <1>7, ForgetTyping, ForgetKeeps DEF IInv
<1>8. ASSUME NEW t \in Thread, Drop(t) PROVE IInv'
  <2>1. item[t] \in Instance
    BY <1>8, Reachable DEF Drop, IInv, CarriersKnow
  <2> QED BY <1>8, <2>1, DropTyping, DropKeeps DEF IInv
<1> QED BY <1>1, <1>2, <1>3, <1>4, <1>5, <1>6, <1>7, <1>8 DEF Next

LEMMA Invariance == Spec => []IInv
<1> QED BY InitIInv, StepIInv, PTL DEF Spec

(* Everything keeps the type its variable was declared with.               *)
THEOREM Typing == Spec => []TypeOK
<1>1. IInv => TypeOK
  BY DEF IInv
<1> QED BY <1>1, Invariance, PTL

(* Nothing that the cache, FSKit or a handler can still reach is freed,    *)
(* however handlers interleave (ext/src/volume.rs, ext/src/item.rs).       *)
THEOREM NothingFreedInUse == Spec => []ItemsStayAlive
<1>1. IInv => ItemsStayAlive
  BY Reachable DEF ItemsStayAlive
<1> QED BY <1>1, Invariance, PTL

-----------------------------------------------------------------------------
(* What FSKit gave up leaves the cache: of the steps that could leave an   *)
(* item behind, a reclaim is on its way to forget the very path the item   *)
(* is cached at.                                                           *)

LEMMA CallKeepsCache ==
    ASSUME IInv, CacheHoldsWhatFSKitKnows, NEW t \in Thread, NEW job, NEW p, NEW q, NEW k, NEW i,
           Call(t, job, p, q, k, i), UNCHANGED fskit
    PROVE  CacheHoldsWhatFSKitKnows'
<1>1. /\ pc[t] = "idle" /\ UNCHANGED <<items, known>>
      /\ \A u \in Thread \ {t} : pc'[u] = pc[u] /\ path'[u] = path[u] /\ item'[u] = item[u]
  BY DEF Call, store, fskit, IInv, TypeOK
<1> QED BY <1>1 DEF CacheHoldsWhatFSKitKnows

LEMMA CacheStep ==
    IInv /\ CacheHoldsWhatFSKitKnows /\ [Next]_vars => CacheHoldsWhatFSKitKnows'
<1> SUFFICES ASSUME IInv, CacheHoldsWhatFSKitKnows, [Next]_vars PROVE CacheHoldsWhatFSKitKnows'
  OBVIOUS
<1>1. CASE UNCHANGED vars
  BY <1>1 DEF vars, store, fskit, locals, CacheHoldsWhatFSKitKnows
<1>2. ASSUME NEW t \in Thread,
             \/ Activate(t)
             \/ \E p \in Node : Lookup(t, p) \/ RemoveItem(t, p) \/ \E k \in Kind : CreateItem(t, p, k)
             \/ \E i \in Instance, q \in Node : RenameItem(t, i, q)
      PROVE  CacheHoldsWhatFSKitKnows'
  BY <1>2, CallKeepsCache DEF Activate, Lookup, RemoveItem, CreateItem, RenameItem
<1>3. ASSUME NEW t \in Thread, NEW i \in Instance, ReclaimItem(t, i)
      PROVE  CacheHoldsWhatFSKitKnows'
  <2>1. /\ pc[t] = "idle" /\ UNCHANGED items /\ known' = known \ {i}
        /\ pc'[t] = "forget" /\ path'[t] = heap[i].path
        /\ \A u \in Thread \ {t} : pc'[u] = pc[u] /\ path'[u] = path[u] /\ item'[u] = item[u]
    BY <1>3 DEF ReclaimItem, Call, store, IInv, TypeOK
  <2>2. \A p \in DOMAIN items : items[p] = i => path'[t] = p
    BY <2>1 DEF IInv, CachedAtItsPath
  <2> QED BY <2>1, <2>2 DEF CacheHoldsWhatFSKitKnows
<1>4. ASSUME NEW t \in Thread, BackendRefuses(t) \/ Stat(t) \/ Create(t) \/ Remove(t) \/ Rename(t)
      PROVE  CacheHoldsWhatFSKitKnows'
  <2>1. /\ pc[t] \notin {"reply", "forget"} /\ UNCHANGED <<items, known, path, item>>
        /\ \A u \in Thread \ {t} : pc'[u] = pc[u]
    BY <1>4 DEF BackendRefuses, Stat, Create, Remove, Rename, Goto, store, fskit, locals, IInv, TypeOK
  <2> QED BY <2>1 DEF CacheHoldsWhatFSKitKnows
<1>5. ASSUME NEW t \in Thread, Mint(t) PROVE CacheHoldsWhatFSKitKnows'
  <2>1. /\ pc[t] = "mint" /\ pc'[t] = "reply" /\ UNCHANGED <<known, path>>
        /\ \A u \in Thread \ {t} : pc'[u] = pc[u]
    BY <1>5 DEF Mint, Goto, fskit, IInv, TypeOK
  <2>2. \A u \in Thread \ {t} : item'[u] = item[u]
    BY <1>5 DEF Mint, IInv, TypeOK
  <2>3. \A p \in DOMAIN items' : \/ p \in DOMAIN items /\ items'[p] = items[p]
                                 \/ items'[p] = item'[t]
    BY <1>5 DEF Mint, IInv, TypeOK
  <2> QED BY <2>1, <2>2, <2>3 DEF CacheHoldsWhatFSKitKnows
<1>6. ASSUME NEW t \in Thread, Reply(t) PROVE CacheHoldsWhatFSKitKnows'
  <2>1. /\ pc[t] = "reply" /\ known' = known \cup {item[t]} /\ UNCHANGED <<items, path>>
        /\ \A u \in Thread \ {t} : pc'[u] = pc[u] /\ item'[u] = item[u]
    BY <1>6 DEF Reply, Goto, IInv, TypeOK
  <2> QED BY <2>1 DEF CacheHoldsWhatFSKitKnows
<1>7. ASSUME NEW t \in Thread, Forget(t) PROVE CacheHoldsWhatFSKitKnows'
  <2>1. /\ pc[t] = "forget" /\ UNCHANGED <<known, path, item>>
        /\ \A u \in Thread \ {t} : pc'[u] = pc[u]
    BY <1>7 DEF Forget, Goto, fskit, locals, IInv, TypeOK
  <2>2. \A p \in DOMAIN items' : p # path[t] /\ p \in DOMAIN items /\ items'[p] = items[p]
    BY <1>7 DEF Forget
  <2> QED BY <2>1, <2>2 DEF CacheHoldsWhatFSKitKnows
<1>8. ASSUME NEW t \in Thread, Drop(t) PROVE CacheHoldsWhatFSKitKnows'
  <2>1. /\ pc[t] = "drop" /\ UNCHANGED <<items, known, path>>
        /\ \A u \in Thread \ {t} : pc'[u] = pc[u] /\ item'[u] = item[u]
    BY <1>8 DEF Drop, Goto, fskit, IInv, TypeOK
  <2> QED BY <2>1 DEF CacheHoldsWhatFSKitKnows
<1> QED BY <1>1, <1>2, <1>3, <1>4, <1>5, <1>6, <1>7, <1>8 DEF Next

(* The cache lets go of what FSKit has given up, as the comment of `items` *)
(* in ext/src/volume.rs promises.                                          *)
THEOREM CacheFollowsFSKit == Spec => []CacheHoldsWhatFSKitKnows
<1>1. Init => CacheHoldsWhatFSKitKnows
  BY DEF Init, CacheHoldsWhatFSKitKnows
<1> QED BY <1>1, CacheStep, Invariance, PTL DEF Spec

-----------------------------------------------------------------------------
(* Hidden names.  A handler only looks at the last name of the path it is  *)
(* given; that no name above it is hidden is because the directory it is   *)
(* in was handed out, and items keep their path when the bucket changes.   *)

Visible(p) == \A n \in 1..Len(p) : p[n] \notin Litter

NothingHidden ==
    /\ \A i \in Instance : Live(i) => Visible(heap[i].path)
    /\ \A t \in Thread : pc[t] \in {"stat", "create", "mint"} => Visible(path[t])

LEMMA VisibleChild ==
    ASSUME IInv, NothingHidden, NEW p \in Node, InDirectory(p), ~IsHidden(p)
    PROVE  Visible(p)
<1>1. PICK i \in known : heap[i].path = Parent(p)
  BY DEF InDirectory
<1>2. Visible(Parent(p))
  BY <1>1, Reachable DEF NothingHidden, IInv, TypeOK
<1>3. p \in Seq(Name) /\ p # <<>>
  BY NodeAssumption DEF PathSet, Root
<1>4. Len(p) \in Nat /\ Len(p) > 0
  BY <1>3
<1>5. \A n \in 1..(Len(p) - 1) : p[n] \notin Litter
  <2> DEFINE last == Len(p) - 1
  <2>1. last \in Nat /\ last <= Len(p)
    BY <1>4
  <2>2. Parent(p) = SubSeq(p, 1, last)
    BY <1>3 DEF Parent, Root
  <2> HIDE DEF last
  <2>3. Len(SubSeq(p, 1, last)) = last
    BY <1>3, <2>1
  <2>4. \A n \in 1..last : SubSeq(p, 1, last)[n] = p[n]
    BY <1>3, <2>1
  <2>5. \A n \in 1..last : p[n] \notin Litter
    BY <1>2, <2>2, <2>3, <2>4 DEF Visible
  <2> QED BY <2>5 DEF last
<1>6. p[Len(p)] \notin Litter
  BY <1>3 DEF IsHidden, Basename, Root
<1> QED BY <1>4, <1>5, <1>6 DEF Visible

(* Where nothing is made, nothing hidden comes to be. *)
LEMMA PathsKept ==
    ASSUME IInv, NothingHidden, NEW t \in Thread,
           \A i \in Instance : heap'[i] # Free => Live(i) /\ heap'[i].path = heap[i].path,
           \A u \in Thread \ {t} : pc'[u] = pc[u] /\ path'[u] = path[u],
           pc'[t] \in {"stat", "create", "mint"} => Visible(path'[t])
    PROVE  NothingHidden'
<1>1. \A i \in Instance : Live(i)' => Visible(heap'[i].path)
  BY DEF NothingHidden, Live
<1>2. \A u \in Thread : pc'[u] \in {"stat", "create", "mint"} => Visible(path'[u])
  BY DEF NothingHidden
<1> QED BY <1>1, <1>2 DEF NothingHidden, Visible

LEMMA CallHidesNothing ==
    ASSUME IInv, NothingHidden, NEW t \in Thread, NEW job, NEW p, NEW q, NEW k, NEW i,
           Call(t, job, p, q, k, i), job \in {"stat", "create", "mint"} => Visible(p)
    PROVE  NothingHidden'
<1>1. /\ pc'[t] = job /\ path'[t] = p /\ UNCHANGED heap
      /\ \A u \in Thread \ {t} : pc'[u] = pc[u] /\ path'[u] = path[u]
  BY DEF Call, store, IInv, TypeOK
<1>2. \A j \in Instance : heap'[j] # Free => Live(j) /\ heap'[j].path = heap[j].path
  BY <1>1 DEF Live
<1> QED BY <1>1, <1>2, PathsKept

LEMMA HiddenStep == IInv /\ NothingHidden /\ [Next]_vars => NothingHidden'
<1> SUFFICES ASSUME IInv, NothingHidden, [Next]_vars PROVE NothingHidden'
  OBVIOUS
<1>1. CASE UNCHANGED vars
  BY <1>1 DEF vars, store, locals, NothingHidden, Live, Visible
<1>2. ASSUME NEW t \in Thread, Activate(t) PROVE NothingHidden'
  BY <1>2, CallHidesNothing DEF Activate, Visible, Root
<1>3. ASSUME NEW t \in Thread, NEW p \in Node,
             Lookup(t, p) \/ RemoveItem(t, p) \/ \E k \in Kind : CreateItem(t, p, k)
      PROVE  NothingHidden'
  BY <1>3, VisibleChild, CallHidesNothing DEF Lookup, RemoveItem, CreateItem
<1>4. ASSUME NEW t \in Thread, NEW i \in Instance,
             ReclaimItem(t, i) \/ \E q \in Node : RenameItem(t, i, q)
      PROVE  NothingHidden'
  BY <1>4, CallHidesNothing DEF ReclaimItem, RenameItem
<1>5. ASSUME NEW t \in Thread, BackendRefuses(t) \/ Stat(t) \/ Create(t) \/ Remove(t) \/ Rename(t)
      PROVE  NothingHidden'
  <2>1. /\ UNCHANGED <<heap, path>>
        /\ \A u \in Thread \ {t} : pc'[u] = pc[u]
    BY <1>5 DEF BackendRefuses, Stat, Create, Remove, Rename, Goto, store, locals, IInv, TypeOK
  <2>2. pc'[t] \in {"stat", "create", "mint"} => pc[t] \in {"stat", "create"}
    BY <1>5 DEF BackendRefuses, Stat, Create, Remove, Rename, Goto, IInv, TypeOK
  <2>3. pc'[t] \in {"stat", "create", "mint"} => Visible(path'[t])
    BY <2>1, <2>2 DEF NothingHidden
  <2>4. \A i \in Instance : heap'[i] # Free => Live(i) /\ heap'[i].path = heap[i].path
    BY <2>1 DEF Live
  <2> QED BY <2>1, <2>3, <2>4, PathsKept
<1>6. ASSUME NEW t \in Thread, Mint(t) PROVE NothingHidden'
  <2>1. /\ pc[t] = "mint" /\ pc'[t] = "reply" /\ UNCHANGED path
        /\ \A u \in Thread \ {t} : pc'[u] = pc[u]
    BY <1>6 DEF Mint, Goto, IInv, TypeOK
  <2>2. \A i \in Instance : heap'[i] # Free => \/ Live(i) /\ heap'[i].path = heap[i].path
                                              \/ heap'[i].path = path[t]
    <3>1. CASE path[t] \in DOMAIN items
      <4>1. heap' = [heap EXCEPT ![items[path[t]]].refs = @ + 1]
            /\ Live(items[path[t]]) /\ items[path[t]] \in Instance
        BY <1>6, <3>1 DEF Mint, IInv, TypeOK, CachedAtItsPath
      <4>2. heap[items[path[t]]] \in Item
        BY <4>1, LiveItemTyping DEF IInv
      <4> QED BY <4>1, <4>2 DEF Live, IInv, TypeOK, Item
    <3>2. CASE path[t] \notin DOMAIN items
      BY <1>6, <3>2 DEF Mint, Live, IInv, TypeOK
    <3> QED BY <3>1, <3>2
  <2>3. \A i \in Instance : heap'[i] # Free => Visible(heap'[i].path)
    BY <2>1, <2>2 DEF NothingHidden
  <2> QED BY <2>1, <2>3 DEF NothingHidden, Live, Visible
<1>7. ASSUME NEW t \in Thread, Reply(t) PROVE NothingHidden'
  <2>1. /\ pc'[t] = "idle" /\ UNCHANGED <<heap, path>>
        /\ \A u \in Thread \ {t} : pc'[u] = pc[u]
    BY <1>7 DEF Reply, Goto, IInv, TypeOK
  <2> QED BY <2>1, PathsKept DEF Live
<1>8. ASSUME NEW i \in Instance, Live(i), heap' = Released(heap, i)
      PROVE  \A j \in Instance : heap'[j] # Free => Live(j) /\ heap'[j].path = heap[j].path
  <2>1. ASSUME NEW j \in Instance, heap'[j] # Free PROVE Live(j) /\ heap'[j].path = heap[j].path
    <3>1. CASE j # i
      BY <1>8, <2>1, <3>1, OneReleased DEF IInv, Live
    <3>2. CASE j = i
      <4>1. heap[i] \in Item
        BY <1>8, LiveItemTyping DEF IInv
      <4>2. heap[i].refs > 1
        BY <1>8, <2>1, <3>2, <4>1 DEF Released, IInv, TypeOK, Item
      <4> QED BY <1>8, <3>2, <4>2, OneReleased DEF IInv
    <3> QED BY <3>1, <3>2
  <2> QED BY <2>1
<1>9. ASSUME NEW t \in Thread, Forget(t) \/ Drop(t) PROVE NothingHidden'
  <2>1. /\ pc'[t] \in {"idle", "drop"} /\ UNCHANGED path
        /\ \A u \in Thread \ {t} : pc'[u] = pc[u]
    BY <1>9 DEF Forget, Drop, Goto, locals, IInv, TypeOK
  <2>2. \A j \in Instance : heap'[j] # Free => Live(j) /\ heap'[j].path = heap[j].path
    <3>1. CASE UNCHANGED heap
      BY <3>1 DEF Live
    <3>2. CASE path[t] \in DOMAIN items /\ heap' = Released(heap, items[path[t]])
      BY <3>2, <1>8 DEF IInv, TypeOK, CachedAtItsPath
    <3>3. CASE pc[t] = "drop" /\ heap' = Released(heap, item[t])
      BY <3>3, <1>8, Reachable DEF IInv, CarriersKnow
    <3> QED BY <1>9, <3>1, <3>2, <3>3 DEF Forget, Drop
  <2> QED BY <2>1, <2>2, PathsKept
<1> QED BY <1>1, <1>2, <1>3, <1>4, <1>5, <1>6, <1>7, <1>9 DEF Next

(* Names of macOS's own bookkeeping, and what is below them, never become  *)
(* items, though a rename may put things there (ext/src/volume.rs).        *)
THEOREM HiddenIsNeverAnItem == Spec => []HiddenStaysOutOfSight
<1>1. Init => NothingHidden
  BY DEF Init, NothingHidden, Live
<1>2. IInv /\ NothingHidden => HiddenStaysOutOfSight
  <2> SUFFICES ASSUME IInv, NothingHidden, NEW i \in known \cup {items[p] : p \in DOMAIN items}
               PROVE  Visible(heap[i].path)
    BY DEF HiddenStaysOutOfSight, Visible
  <2>1. i \in Instance /\ Live(i)
    BY Reachable DEF IInv, TypeOK
  <2> QED BY <2>1 DEF NothingHidden
<1> QED BY <1>1, <1>2, HiddenStep, Invariance, PTL DEF Spec
=============================================================================
