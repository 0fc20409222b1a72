------------------------------ MODULE ItemCache -----------------------------
(***************************************************************************)
(* ext/src/volume.rs and item.rs: the items the volume hands to FSKit.  An *)
(* item is a reference-counted object that carries the path and kind it    *)
(* was made with.  The volume caches one per path (a path's fileID is its  *)
(* hash) and keeps a reference to it; each reply hands FSKit another.      *)
(* Handlers run on concurrent FSKit threads; they call the backend, and    *)
(* then take the lock of the cache.                                        *)
(*                                                                         *)
(* The backend's call is one step on the names there are (MemStore); what  *)
(* FSKit does with items is modelled from what the handlers say of it.     *)
(***************************************************************************)
EXTENDS Path, FiniteSets

CONSTANTS Node,          \* the paths in use, the root not among them
          Litter,        \* the names of macOS's own bookkeeping
          Renames,       \* the pairs <<from, to>> FSKit asks to rename
          Instance,      \* where an S3Item can be allocated
          NoItem,        \* stands for no item
          Thread,        \* the threads FSKit runs handlers on
          MaxHeld        \* bound on the references FSKit holds to one item

ASSUME NodeAssumption == Node \subseteq PathSet \ {Root}
ASSUME RenamesAssumption == Renames \subseteq Node \X Node
ASSUME InstanceAssumption == NoItem \notin Instance
ASSUME ThreadAssumption == IsFiniteSet(Thread)
ASSUME MaxHeldAssumption == MaxHeld \in Nat

Place == Node \cup {Root}
Kind == {"file", "dir"}
Item == [path : Place, kind : Kind, refs : Nat \ {0}]
Free == [refs |-> 0]
Jobs == {"idle", "stat", "create", "stat for remove", "remove", "rename",
         "mint", "reply", "forget", "drop"}

VARIABLES names,         \* the kind of what is at each path of the bucket, or "none"
          heap,          \* the items: path, kind and reference count
          items,         \* the cache: a function from some paths to items
          known,         \* (external) the items FSKit has in use
          held,          \* (external) how many references to it FSKit was handed
          gone,          \* (history) items whose file was removed, renamed or replaced since
          pc,            \* per thread: what its handler does next
          path,          \* per thread: the path it works on
          to,            \* per thread: where a rename goes
          kind,          \* per thread: the kind it was told or found
          item           \* per thread: the item it has a reference to

store == <<names, heap, items, gone>>
fskit == <<known, held>>
locals == <<path, to, kind, item>>
vars == <<store, fskit, pc, locals>>

(* The type invariant: an item that is allocated has a path, a kind and at *)
(* least one reference (NSObject's retain count is never 0).               *)
TypeOK ==
    /\ names \in [Place -> Kind \cup {"none"}]
    /\ heap \in [Instance -> {Free} \cup Item]
    /\ DOMAIN items \subseteq Place /\ items \in [DOMAIN items -> Instance]
    /\ known \subseteq Instance /\ gone \subseteq Instance
    /\ held \in [Instance -> Nat]
    /\ pc \in [Thread -> Jobs]
    /\ path \in [Thread -> Place]
    /\ to \in [Thread -> Place]
    /\ kind \in [Thread -> Kind]
    /\ item \in [Thread -> Instance \cup {NoItem}]

Init ==
    /\ names = [p \in Place |-> IF p = Root THEN "dir" ELSE "none"]
    /\ heap = [i \in Instance |-> Free]
    /\ items = <<>>
    /\ known = {}
    /\ held = [i \in Instance |-> 0]
    /\ gone = {}
    /\ pc = [t \in Thread |-> "idle"]
    /\ path = [t \in Thread |-> Root]
    /\ to = [t \in Thread |-> Root]
    /\ kind = [t \in Thread |-> "dir"]
    /\ item = [t \in Thread |-> NoItem]

Live(i) == heap[i] # Free

Under(p, q) == Below(FileKey(q), p)

IsHidden(p) == Basename(p) \in Litter

-----------------------------------------------------------------------------
(* FSKit calls a handler. *)

Call(t, job, p, q, k, i) ==
    /\ pc[t] = "idle"
    /\ pc' = [pc EXCEPT ![t] = job]
    /\ path' = [path EXCEPT ![t] = p]
    /\ to' = [to EXCEPT ![t] = q]
    /\ kind' = [kind EXCEPT ![t] = k]
    /\ item' = [item EXCEPT ![t] = i]
    /\ UNCHANGED store

RootKnown == \E i \in known : heap[i].path = Root

(* The volume's first item is the root's.  FSKit has it for the lifetime   *)
(* of the mount.                                                           *)
Activate(t) ==
    /\ ~RootKnown /\ \A u \in Thread : pc[u] = "idle"
    /\ Call(t, "mint", Root, Root, "dir", NoItem)
    /\ UNCHANGED fskit

(* External: FSKit names things in directories it has items of, creates    *)
(* names it takes to be unused, and renames to an unused name or over what *)
(* POSIX lets a rename replace: a file by a file, an empty directory by a  *)
(* directory.                                                              *)
InDirectory(p) ==
    \E i \in known \ gone : heap[i].path = Parent(p) /\ heap[i].kind = "dir"

Replaceable(p, q) ==
    \/ names[q] = "none"
    \/ names[q] = names[p] /\ \A r \in Node : Under(q, r) => names[r] = "none"

(* Bounds: FSKit asks for a name while it holds few references to its      *)
(* item, and while there is room for every item handlers may allocate.     *)
Bounded(p) ==
    /\ p \in DOMAIN items => held[items[p]] < MaxHeld
    /\ Cardinality({t \in Thread : pc[t] \in {"stat", "create", "mint"}})
           < Cardinality({i \in Instance : ~Live(i)})

MutantLookup(t, p) ==                          \* litter is looked up as well
    /\ InDirectory(p) /\ Bounded(p)
    /\ Call(t, "stat", p, Root, "dir", NoItem)
    /\ UNCHANGED fskit

(* A name of litter is answered ENOENT, and may not be created (EPERM).    *)
(* A rename does not ask.                                                  *)
Lookup(t, p) ==
    /\ InDirectory(p) /\ Bounded(p) /\ ~IsHidden(p)
    /\ Call(t, "stat", p, Root, "dir", NoItem)
    /\ UNCHANGED fskit

CreateItem(t, p, k) ==
    /\ InDirectory(p) /\ Bounded(p) /\ ~IsHidden(p) /\ names[p] = "none"
    /\ Call(t, "create", p, Root, k, NoItem)
    /\ UNCHANGED fskit

(* The item's own kind decides between unlink and rmdir; without an item   *)
(* the backend is asked.  FSKit removes names it could look up.            *)
RemoveItem(t, p) ==
    /\ InDirectory(p) /\ ~IsHidden(p)
    /\ \/ Call(t, "stat for remove", p, Root, "dir", NoItem)
       \/ \E i \in known \ gone :
              heap[i].path = p /\ Call(t, "remove", p, Root, heap[i].kind, NoItem)
    /\ UNCHANGED fskit

(* What is renamed is the item's path; an item it goes over (overItem) is  *)
(* not looked at.                                                          *)
RenameItem(t, i, q) ==
    /\ i \in known \ gone /\ <<heap[i].path, q>> \in Renames
    /\ InDirectory(heap[i].path) /\ InDirectory(q) /\ Replaceable(heap[i].path, q)
    /\ Call(t, "rename", heap[i].path, q, "dir", NoItem)
    /\ UNCHANGED fskit

(* FSKit gives up the item and one reference to it, "exactly once per      *)
(* item"; the root only when it is the last.                               *)
ReclaimItem(t, i) ==
    /\ i \in known /\ held[i] > 0
    /\ heap[i].path = Root => known = {i} /\ \A u \in Thread : pc[u] = "idle"
    /\ Call(t, "forget", heap[i].path, Root, "dir", i)
    /\ known' = known \ {i}
    /\ held' = [held EXCEPT ![i] = @ - 1]

-----------------------------------------------------------------------------
(* The calls of the backend. *)

Goto(t, job) == pc' = [pc EXCEPT ![t] = job]

(* It answers Err, and the handler replies the errno. *)
BackendRefuses(t) ==
    /\ pc[t] \in {"stat", "create", "stat for remove", "remove", "rename"}
    /\ Goto(t, "idle")
    /\ UNCHANGED <<store, fskit, locals>>

Stat(t) ==
    /\ pc[t] \in {"stat", "stat for remove"} /\ names[path[t]] # "none"
    /\ kind' = [kind EXCEPT ![t] = names[path[t]]]
    /\ Goto(t, IF pc[t] = "stat" THEN "mint" ELSE "remove")
    /\ UNCHANGED <<store, fskit, path, to, item>>

(* The items of these paths no longer are what the bucket has there. *)
Obsolete(ps) == gone' = gone \cup {i \in Instance : Live(i) /\ heap[i].path \in ps}

Create(t) ==
    /\ pc[t] = "create" /\ names[path[t]] = "none"
    /\ names' = [names EXCEPT ![path[t]] = kind[t]]
    /\ Goto(t, "mint")
    /\ UNCHANGED <<heap, items, gone, fskit, locals>>

Remove(t) ==
    /\ pc[t] = "remove" /\ names[path[t]] = kind[t]
    /\ \A q \in Node : Under(path[t], q) => names[q] = "none"
    /\ names' = [names EXCEPT ![path[t]] = "none"]
    /\ Obsolete({path[t]})
    /\ Goto(t, "forget")
    /\ UNCHANGED <<heap, items, fskit, locals>>

(* What stat finds of k put where l is: a file hides a directory. *)
Over(k, l) == IF k = "none" \/ l = "file" THEN l ELSE k

(* What is at the target is replaced, its items being obsolete with those  *)
(* of what moved.                                                          *)
Rename(t) ==
    /\ pc[t] = "rename" /\ names[path[t]] # "none"
    /\ LET moved == {p \in Node : p = path[t] \/ Under(path[t], p)}
           target(p) == Rekey(FileKey(p), path[t], to[t]).path
           left(p) == IF p \in moved THEN "none" ELSE names[p]
       IN  /\ names' = [p \in Place |->
                  IF \E q \in moved : target(q) = p
                  THEN Over(names[CHOOSE q \in moved : target(q) = p], left(p))
                  ELSE left(p)]
           /\ Obsolete(moved \cup {target(p) : p \in moved})
    /\ Goto(t, "forget")
    /\ UNCHANGED <<heap, items, fskit, locals>>

-----------------------------------------------------------------------------
(* The cache. *)

MutantReleased(h, i) == [h EXCEPT ![i].refs = @ - 1]     \* never frees

(* The heap after one reference to i is released. *)
Released(h, i) == [h EXCEPT ![i] = IF h[i].refs <= 1 THEN Free ELSE [h[i] EXCEPT !.refs = @ - 1]]

MutantMint(t) ==                               \* hands out the cache's own reference
    /\ pc[t] = "mint"
    /\ \/ /\ path[t] \in DOMAIN items
          /\ item' = [item EXCEPT ![t] = items[path[t]]]
          /\ UNCHANGED <<heap, items>>
       \/ \E i \in Instance :
          /\ path[t] \notin DOMAIN items /\ ~Live(i)
          /\ heap' = [heap EXCEPT ![i] = [path |-> path[t], kind |-> kind[t], refs |-> 1]]
          /\ items' = [p \in DOMAIN items \cup {path[t]} |-> IF p = path[t] THEN i ELSE items[p]]
          /\ item' = [item EXCEPT ![t] = i]
    /\ Goto(t, "reply")
    /\ UNCHANGED <<names, gone, fskit, path, to, kind>>

(* item_for: the cached item, or a new one that is cached. *)
Mint(t) ==
    /\ pc[t] = "mint"
    /\ \/ /\ path[t] \in DOMAIN items
          /\ LET i == items[path[t]] IN
             /\ heap' = [heap EXCEPT ![i].refs = @ + 1]
             /\ item' = [item EXCEPT ![t] = i]
          /\ UNCHANGED items
       \/ \E i \in Instance :
          /\ path[t] \notin DOMAIN items /\ ~Live(i)
          /\ heap' = [heap EXCEPT ![i] = [path |-> path[t], kind |-> kind[t], refs |-> 2]]
          /\ items' = [p \in DOMAIN items \cup {path[t]} |-> IF p = path[t] THEN i ELSE items[p]]
          /\ item' = [item EXCEPT ![t] = i]
    /\ Goto(t, "reply")
    /\ UNCHANGED <<names, gone, fskit, path, to, kind>>

(* The reply hands the reference over (into_raw). *)
Reply(t) ==
    /\ pc[t] = "reply"
    /\ LET i == item[t] IN
       /\ known' = known \cup {i}
       /\ held' = [held EXCEPT ![i] = @ + 1]
       /\ gone' = gone \ {i}
    /\ item' = [item EXCEPT ![t] = NoItem]
    /\ Goto(t, "idle")
    /\ UNCHANGED <<names, heap, items, path, to, kind>>

MutantForget(t) ==                             \* reclaim does not forget
    /\ pc[t] = "forget"
    /\ LET p == path[t] IN
       \/ /\ p \in DOMAIN items /\ item[t] = NoItem
          /\ heap' = Released(heap, items[p])
          /\ items' = [q \in DOMAIN items \ {p} |-> items[q]]
       \/ (p \notin DOMAIN items \/ item[t] # NoItem) /\ UNCHANGED <<heap, items>>
    /\ Goto(t, IF item[t] = NoItem THEN "idle" ELSE "drop")
    /\ UNCHANGED <<names, gone, fskit, locals>>

(* forget_item, of remove, rename and reclaim: whatever item the cache has *)
(* for the path.                                                           *)
Forget(t) ==
    /\ pc[t] = "forget"
    /\ LET p == path[t] IN
       \/ /\ p \in DOMAIN items
          /\ heap' = Released(heap, items[p])
          /\ items' = [q \in DOMAIN items \ {p} |-> items[q]]
       \/ p \notin DOMAIN items /\ UNCHANGED <<heap, items>>
    /\ Goto(t, IF item[t] = NoItem THEN "idle" ELSE "drop")
    /\ UNCHANGED <<names, gone, fskit, locals>>

(* drop_retained_item: the reference FSKit gave back. *)
Drop(t) ==
    /\ pc[t] = "drop"
    /\ heap' = Released(heap, item[t])
    /\ item' = [item EXCEPT ![t] = NoItem]
    /\ Goto(t, "idle")
    /\ UNCHANGED <<names, items, gone, fskit, path, to, kind>>

-----------------------------------------------------------------------------
Next ==
    \E t \in Thread :
        \/ Activate(t)
        \/ \E p \in Node : Lookup(t, p) \/ RemoveItem(t, p) \/ \E k \in Kind : CreateItem(t, p, k)
        \/ \E i \in Instance : ReclaimItem(t, i) \/ \E q \in Node : RenameItem(t, i, q)
        \/ BackendRefuses(t) \/ Stat(t) \/ Create(t) \/ Remove(t) \/ Rename(t)
        \/ Mint(t) \/ Reply(t) \/ Forget(t) \/ Drop(t)

Spec == Init /\ [][Next]_vars

-----------------------------------------------------------------------------
(* Properties. *)

(* An item somebody can still reach is not freed: neither one the cache    *)
(* has, nor one FSKit holds, nor one a handler is about to hand over or to *)
(* drop, however lookups, removals and reclaims of its path interleave.    *)
ItemsStayAlive ==
    /\ \A p \in DOMAIN items : Live(items[p])
    /\ \A i \in Instance : held[i] > 0 \/ i \in known => Live(i)
    /\ \A t \in Thread : item[t] # NoItem => Live(item[t])

(* The cache holds items "that FSKit currently references" (volume.rs),    *)
(* or is about to: what FSKit has given up leaves the cache.               *)
CacheHoldsWhatFSKitKnows ==
    \A p \in DOMAIN items :
        \/ items[p] \in known
        \/ \E t \in Thread : pc[t] = "reply" /\ item[t] = items[p]
        \/ \E t \in Thread : pc[t] = "forget" /\ path[t] = p

(* "This name, or one above it, is litter": no item of such a path is ever *)
(* handed out or cached, also after a rename has put something there       *)
(* (junk.rs: hiding a directory hides its whole subtree).                  *)
HiddenStaysOutOfSight ==
    \A i \in known \cup {items[p] : p \in DOMAIN items} :
        \A n \in 1..Len(heap[i].path) : heap[i].path[n] \notin Litter

(* "every lookup/create/activate for a given fileID must hand back the     *)
(* *same* object" (volume.rs, items): of the items FSKit has in use for    *)
(* what is now in the bucket no two have one fileID.                       *)
OneItemPerFileID ==
    \A i, j \in known \ gone : heap[i].path = heap[j].path => i = j
=============================================================================
