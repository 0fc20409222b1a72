--------------------------- MODULE MemStoreProofs ---------------------------
(***************************************************************************)
(* What the in-memory backend does, for any callers, requests and seeds.   *)
(***************************************************************************)
EXTENDS MemStore, ObjectsProofs

-----------------------------------------------------------------------------
LEMMA RequestFields ==
    ASSUME NEW r \in Request
    PROVE  /\ r.path \in PathSet
           /\ r.op \notin {"list", "stat"} => r.path # Root
           /\ r.op = "read" => r.offset \in Nat /\ r.len \in Nat
           /\ r.op \in {"create", "remove"} => r.kind \in {"file", "dir"}
           /\ r.op = "write" => r.offset \in Nat /\ r.data \in Bytes
           /\ r.op = "truncate" => r.len \in Nat
           /\ r.op = "rename" => r.to \in PathSet /\ r.to # Root
BY RequestAssumption, RequestsTyped

-----------------------------------------------------------------------------
(* The map with the keys under one path moved under another. *)
LEMMA MovedStore ==
    ASSUME NEW o, IsStore(o), NEW from \in PathSet \ {Root}, NEW to \in PathSet \ {Root},
           NEW ks \in SUBSET DOMAIN o, \A k \in ks : Seqs!IsPrefix(from, k.path)
    PROVE  /\ IsStore(Moved(o, ks, from, to))
           /\ \A x : x \in DOMAIN Moved(o, ks, from, to)
                        <=> x \in DOMAIN o \ ks \/ \E k \in ks : x = Rekey(k, from, to)
           /\ \A k \in ks : Moved(o, ks, from, to)[Rekey(k, from, to)] = o[k]
           /\ \A x \in DOMAIN o \ ks : (\A k \in ks : Rekey(k, from, to) # x)
                                           => Moved(o, ks, from, to)[x] = o[x]
<1> DEFINE target(k) == Rekey(k, from, to)
           keys == (DOMAIN o \ ks) \cup {target(k) : k \in ks}
           source(x) == CHOOSE k \in ks : target(k) = x
           m == [x \in keys |-> IF \E k \in ks : target(k) = x THEN o[source(x)] ELSE o[x]]
<1>1. Moved(o, ks, from, to) = m
  BY DEF Moved
<1>2. \A k \in ks : k \in Key /\ target(k) \in Key /\ o[k] \in Bytes
  BY StoredBytes, RekeyedPath
<1>3. \A k, l \in ks : target(k) = target(l) => k = l
  BY <1>2, RekeyInjective
<1> HIDE DEF target
<1>4. \A k \in ks : source(target(k)) = k
  BY <1>3
<1>5. \A k \in ks : target(k) \in keys /\ m[target(k)] = o[k]
  BY <1>4
<1>6. \A x \in DOMAIN o \ ks : x \in keys /\ ((\A k \in ks : target(k) # x) => m[x] = o[x])
  OBVIOUS
<1>7. \A x \in keys : x \in Key /\ m[x] \in Bytes
  <2> SUFFICES ASSUME NEW x \in keys PROVE x \in Key /\ m[x] \in Bytes
    OBVIOUS
  <2>1. CASE \E k \in ks : target(k) = x
    BY <1>2, <1>5, <2>1
  <2>2. CASE ~\E k \in ks : target(k) = x
    BY <1>6, <2>2, StoredBytes
  <2> QED BY <2>1, <2>2
<1>8. IsStore(m) /\ DOMAIN m = keys
  BY <1>7 DEF IsStore
<1> QED BY <1>1, <1>5, <1>6, <1>8 DEF target

-----------------------------------------------------------------------------
(* Typing. *)

LEMMA ApplyTyping ==
    ASSUME TypeOK, NEW t \in Task, NEW o, NEW res, Apply(t, o, res),
           IsStore(o), res \in Results, res # NoReply
    PROVE  TypeOK'
<1>1. IsStore(objects)'
  BY DEF Apply, IsStore
<1>2. /\ phase' = [phase EXCEPT ![t] = "applied"] /\ reply' = [reply EXCEPT ![t] = res]
      /\ UNCHANGED req
  BY DEF Apply
<1> QED BY <1>1, <1>2 DEF TypeOK

LEMMA RefuseTyping ==
    ASSUME TypeOK, NEW t \in Task, NEW e \in Errors, Refuse(t, e) PROVE TypeOK'
BY ApplyTyping, ResultTypes DEF Refuse, TypeOK

LEMMA OperateTyping == ASSUME TypeOK, NEW t \in Task, Operate(t) PROVE TypeOK'
<1> DEFINE r == req[t]
<1>1. r \in Request /\ IsStore(objects)
  BY DEF TypeOK
<1>2. {"NotFound", "NotADirectory", "NotAFile", "AlreadyExists", "NotEmpty"} \subseteq Errors
  BY DEF Errors
<1>3. CASE List(t)
  <2>1. Children(objects, r.path) \in SUBSET [name : Name, entry : [kind : {"file", "dir"}, size : Nat]]
    BY <1>1, RequestFields, ChildrenTyping
  <2> QED BY <1>1, <1>2, <1>3, <2>1, ApplyTyping, RefuseTyping, ResultTypes DEF List
<1>4. CASE Stat(t)
  <2>1. HasFile(objects, r.path) => Len(objects[FileKey(r.path)]) \in Nat
    BY <1>1, StoredBytes, BytesIndexed DEF HasFile
  <2>2. (\E kind \in {"file", "dir"}, size \in Nat : Apply(t, objects, Found(Entry(kind, size))))
        \/ Refuse(t, "NotFound")
    BY <1>4, <2>1 DEF Stat, StatAnswer, Refuse
  <2> QED BY <1>1, <1>2, <2>2, ApplyTyping, RefuseTyping, ResultTypes
<1>5. CASE Read(t)
  <2>1. HasFile(objects, r.path) => Slice(objects[FileKey(r.path)], r.offset, r.len) \in Bytes
    BY <1>1, <1>5, StoredBytes, SliceInBytes, RequestFields DEF HasFile, Read, Calling
  <2> QED BY <1>1, <1>2, <1>5, <2>1, ApplyTyping, RefuseTyping, ResultTypes DEF Read
<1>6. CASE Create(t)
  <2>1. r.path \in PathSet \ {Root}
    BY <1>1, <1>6, RequestFields DEF Create, Calling
  <2>2. [path |-> r.path, dir |-> r.kind = "dir"] \in Key
    BY <2>1 DEF Key
  <2>3. IsStore(Put(objects, [path |-> r.path, dir |-> r.kind = "dir"], <<>>))
    BY <1>1, <2>2, PutInStore, EmptyBytes
  <2> QED BY <1>1, <1>2, <1>6, <2>3, ApplyTyping, RefuseTyping, ResultTypes DEF Create
<1>7. CASE Write(t)
  <2> DEFINE base == IF HasFile(objects, r.path) THEN objects[FileKey(r.path)] ELSE <<>>
  <2>1. r.path \in PathSet \ {Root} /\ r.offset \in Nat /\ r.data \in Bytes
    BY <1>1, <1>7, RequestFields DEF Write, Calling
  <2>2. base \in Bytes
    BY <1>1, StoredBytes, EmptyBytes DEF HasFile
  <2>3. Refuse(t, "NotAFile")
        \/ Apply(t, Put(objects, FileKey(r.path), Splice(base, r.offset, r.data)), Done)
    BY <1>7 DEF Write
  <2> HIDE DEF base
  <2>4. IsStore(Put(objects, FileKey(r.path), Splice(base, r.offset, r.data)))
    BY <1>1, <2>1, <2>2, PutInStore, SplicedBytes, KeysOfPath
  <2> QED BY <1>1, <1>2, <2>3, <2>4, ApplyTyping, RefuseTyping, ResultTypes
<1>8. CASE Truncate(t)
  <2> DEFINE k == FileKey(r.path)
  <2>1. r.path \in PathSet \ {Root} /\ r.len \in Nat
    BY <1>1, <1>8, RequestFields DEF Truncate, Calling
  <2>2. k \in DOMAIN objects => IsStore(Put(objects, k, Resize(objects[k], r.len)))
    BY <1>1, <2>1, StoredBytes, PutInStore, ResizedBytes
  <2> QED BY <1>1, <1>2, <1>8, <2>2, ApplyTyping, RefuseTyping, ResultTypes DEF Truncate
<1>9. CASE Remove(t)
  <2>1. \A k : IsStore(Drop(objects, k))
    BY <1>1, DropFromStore
  <2> QED BY <1>1, <1>2, <1>9, <2>1, ApplyTyping, RefuseTyping, ResultTypes DEF Remove
<1>10. CASE Rename(t)
  <2> DEFINE ks == IF HasFile(objects, r.path) THEN {FileKey(r.path)}
                   ELSE {k \in DOMAIN objects : StartsWith(k, r.path)}
  <2>1. r.path \in PathSet \ {Root} /\ r.to \in PathSet \ {Root}
    BY <1>1, <1>10, RequestFields DEF Rename, Calling
  <2>2. ks \in SUBSET DOMAIN objects /\ \A k \in ks : Seqs!IsPrefix(r.path, k.path)
    BY <2>1, KeysOfPath, PrefixReflexive DEF HasFile, StartsWith
  <2>3. Refuse(t, "NotFound") \/ Apply(t, Moved(objects, ks, r.path, r.to), Done)
    BY <1>10 DEF Rename
  <2> HIDE DEF ks
  <2>4. IsStore(Moved(objects, ks, r.path, r.to))
    BY <1>1, <2>1, <2>2, MovedStore
  <2> QED BY <1>2, <2>3, <2>4, ApplyTyping, RefuseTyping, ResultTypes
<1> QED BY <1>3, <1>4, <1>5, <1>6, <1>7, <1>8, <1>9, <1>10 DEF Operate

LEMMA InitTyping == Init => TypeOK
<1>1. NoRequest \in Request
  BY RequestAssumption DEF NoRequest
<1> QED BY <1>1, SeedAssumption DEF Init, TypeOK

LEMMA StepTyping == TypeOK /\ [Next]_vars => TypeOK'
<1> SUFFICES ASSUME TypeOK, [Next]_vars PROVE TypeOK'
  OBVIOUS
<1>1. CASE UNCHANGED vars
  BY <1>1 DEF vars, TypeOK, IsStore
<1>2. ASSUME NEW t \in Task, NEW r \in Request, Invoke(t, r) PROVE TypeOK'
  BY <1>2 DEF Invoke, TypeOK, IsStore
<1>3. ASSUME NEW t \in Task, Operate(t) PROVE TypeOK'
  BY <1>3, OperateTyping
<1>4. ASSUME NEW t \in Task, Return(t) PROVE TypeOK'
  <2>1. NoRequest \in Request
    BY RequestAssumption DEF NoRequest
  <2> QED BY <1>4, <2>1 DEF Return, TypeOK, IsStore
<1> QED BY <1>1, <1>2, <1>3, <1>4 DEF Next

(* The map stays a map of keys to bytes and each call's result one of the  *)
(* results the trait has, whatever is asked.                               *)
THEOREM Typing == Spec => []TypeOK
BY InitTyping, StepTyping, PTL DEF Spec

-----------------------------------------------------------------------------
(* A listing and the stats of its entries are two scans of the same keys.  *)

Listed(p, n) == {x.entry : x \in {y \in Children(objects, p) : y.name = n}}

LEMMA ListedName ==
    ASSUME IsStore(objects), NEW p \in PathSet, NEW n \in Name
    PROVE  \A e : e \in Listed(p, n)
               <=> \/ /\ HasFile(objects, Join(p, n))
                      /\ e = Entry("file", Len(objects[FileKey(Join(p, n))]))
                   \/ HasPrefix(objects, Join(p, n)) /\ e = Entry("dir", 0)
<1> DEFINE name(k) == k.path[Len(p) + 1]
           child(k) == IF k = FileKey(Join(p, name(k)))
                       THEN [name |-> name(k), entry |-> Entry("file", Len(objects[k]))]
                       ELSE [name |-> name(k), entry |-> Entry("dir", 0)]
           below == {k \in DOMAIN objects : Below(k, p)}
           file == FileKey(Join(p, n))
<1>1. Children(objects, p) = {child(k) : k \in below}
  BY DEF Children
<1>2. \A k \in below : /\ child(k).name = name(k)
                       /\ child(k).entry = IF k = FileKey(Join(p, name(k)))
                                           THEN Entry("file", Len(objects[k])) ELSE Entry("dir", 0)
  OBVIOUS
<1>3. \A k \in DOMAIN objects :
          k \in below /\ name(k) = n <=> k = file \/ StartsWith(k, Join(p, n))
  BY StoredBytes, BelowIsUnderChild
<1>4. ~StartsWith(file, Join(p, n))
  BY DEF StartsWith, FileKey
<1>5. \A k \in below : name(k) = n => child(k).entry = IF k = file THEN Entry("file", Len(objects[k]))
                                                                 ELSE Entry("dir", 0)
  BY <1>2
<1> HIDE DEF child, name, below, file
<1>6. Listed(p, n) = {child(k).entry : k \in {k \in below : name(k) = n}}
  BY <1>1, <1>2 DEF Listed
<1>7. \A k : k \in below => k \in DOMAIN objects
  BY DEF below
<1>8. \A k : k \in below /\ name(k) = n <=> k \in DOMAIN objects /\ (k = file \/ StartsWith(k, Join(p, n)))
  BY <1>3, <1>7
<1>9. ASSUME NEW e
      PROVE  e \in Listed(p, n)
                 <=> \/ file \in DOMAIN objects /\ e = Entry("file", Len(objects[file]))
                     \/ HasPrefix(objects, Join(p, n)) /\ e = Entry("dir", 0)
  <2>1. e \in Listed(p, n) <=> \E k \in below : name(k) = n /\ e = child(k).entry
    BY <1>6
  <2>2. e \in Listed(p, n)
            <=> \E k \in DOMAIN objects : /\ k = file \/ StartsWith(k, Join(p, n))
                                         /\ e = IF k = file THEN Entry("file", Len(objects[k]))
                                                            ELSE Entry("dir", 0)
    BY <1>5, <1>8, <2>1
  <2> QED BY <1>4, <2>2 DEF HasPrefix
<1> QED BY <1>9 DEF HasFile, file

LEMMA StoreListsWhatItHas == TypeOK => ListingMatchesStat
<1> SUFFICES ASSUME TypeOK, NEW p \in {Root} \cup {Parent(k.path) : k \in DOMAIN objects},
                    NEW n \in Name
             PROVE  LET answer == StatAnswer(objects, Join(p, n))
                    IN  Listed(p, n) = CASE ~IsOk(answer) -> {}
                                         [] Shadow(objects, Join(p, n)) -> {answer.entry, Entry("dir", 0)}
                                         [] OTHER -> {answer.entry}
  BY DEF ListingMatchesStat, Listed
<1>1. IsStore(objects)
  BY DEF TypeOK
<1>2. p \in PathSet
  <2>1. Root \in PathSet
    BY DEF Root, PathSet
  <2>2. ASSUME NEW q \in PathSet PROVE Parent(q) \in PathSet
    <3>1. CASE q = Root
      BY <2>1, <3>1 DEF Parent
    <3>2. CASE q # Root
      BY <3>2, ParentPath
    <3> QED BY <3>1, <3>2
  <2> QED BY <1>1, <2>1, <2>2, StoredBytes, KeyFields
<1>3. PICK q \in PathSet : q = Join(p, n) /\ q # Root
  BY <1>2, Joined
<1>4. PICK f : f = Entry("file", Len(objects[FileKey(q)]))
  OBVIOUS
<1>5. PICK d : d = Entry("dir", 0)
  OBVIOUS
<1>6. \A e : e \in Listed(p, n) <=> (HasFile(objects, q) /\ e = f) \/ (HasPrefix(objects, q) /\ e = d)
  BY <1>1, <1>2, <1>3, <1>4, <1>5, ListedName, Zenon
<1>7. /\ IsOk(Found(f)) /\ Found(f).entry = f
      /\ IsOk(Found(d)) /\ Found(d).entry = d /\ ~IsOk(Err("NotFound"))
  BY DEF IsOk, Found, Err
<1>8. StatAnswer(objects, q) = IF HasFile(objects, q) THEN Found(f)
                               ELSE IF HasPrefix(objects, q) THEN Found(d) ELSE Err("NotFound")
  BY <1>3, <1>4, <1>5 DEF StatAnswer, IsDir
<1>9. CASE HasFile(objects, q)
  BY <1>3, <1>5, <1>6, <1>7, <1>8, <1>9 DEF Shadow
<1>10. CASE ~HasFile(objects, q)
  BY <1>3, <1>6, <1>7, <1>8, <1>10 DEF Shadow
<1> QED BY <1>9, <1>10

(* A directory's listing names what stat answers for, once and as stat     *)
(* answers it, but where a path is both a file and a directory; whatever   *)
(* keys a seed or a sequence of calls has left (core/src/mem.rs, list and  *)
(* stat).                                                                  *)
THEOREM ListingAgrees == Spec => []ListingMatchesStat
BY Typing, StoreListsWhatItHas, PTL

-----------------------------------------------------------------------------
(* A step that answers a call is the step of its operation. *)
LEMMA AppliedBy ==
    ASSUME [Next]_vars, NEW t \in Task, NEW op, Applying(t, op), TypeOK
    PROVE  Operate(t) /\ Calling(t, op)
<1>1. phase[t] = "called" /\ phase'[t] = "applied" /\ req[t].op = op
  BY DEF Applying
<1>2. ASSUME NEW u \in Task, NEW r \in Request, Invoke(u, r) PROVE FALSE
  BY <1>1, <1>2 DEF Invoke, TypeOK
<1>3. ASSUME NEW u \in Task, Return(u) PROVE FALSE
  BY <1>1, <1>3 DEF Return, TypeOK
<1>4. ASSUME NEW u \in Task, Operate(u) PROVE u = t
  <2>1. \E o, res : Apply(u, o, res)
    BY <1>4 DEF Operate, List, Stat, Read, Create, Write, Truncate, Remove, Rename, Refuse
  <2> QED BY <1>1, <2>1 DEF Apply, TypeOK
<1> QED BY <1>1, <1>2, <1>3, <1>4 DEF Next, vars, Calling

LEMMA OperationOf ==
    ASSUME NEW t \in Task, Operate(t), NEW op, Calling(t, op)
    PROVE  /\ op = "write" => Write(t)
           /\ op = "rename" => Rename(t)
<1>1. ASSUME op = "write" PROVE Write(t)
  <2>1. ~List(t) /\ ~Stat(t) /\ ~Read(t) /\ ~Create(t) /\ ~Truncate(t) /\ ~Remove(t) /\ ~Rename(t)
    BY <1>1 DEF List, Stat, Read, Create, Truncate, Remove, Rename, Calling
  <2> QED BY <2>1 DEF Operate
<1>2. ASSUME op = "rename" PROVE Rename(t)
  <2>1. ~List(t) /\ ~Stat(t) /\ ~Read(t) /\ ~Create(t) /\ ~Write(t) /\ ~Truncate(t) /\ ~Remove(t)
    BY <1>2 DEF List, Stat, Read, Create, Write, Truncate, Remove, Calling
  <2> QED BY <2>1 DEF Operate
<1> QED BY <1>1, <1>2

LEMMA WriteStep ==
    ASSUME TypeOK, NEW t \in Task, Write(t), reply'[t] = Done
    PROVE  LET r == req[t]
               k == FileKey(r.path)
               old == IF k \in DOMAIN objects THEN objects[k] ELSE <<>>
               new == objects'[k]
           IN  /\ Slice(new, r.offset, Len(r.data)) = r.data
               /\ Len(new) >= Len(old)
               /\ \A i \in 1..Len(old) : i <= r.offset \/ i > r.offset + Len(r.data) => new[i] = old[i]
               /\ \A i \in (Len(old) + 1)..r.offset : new[i] = 0
<1> DEFINE r == req[t]
           k == FileKey(r.path)
           old == IF k \in DOMAIN objects THEN objects[k] ELSE <<>>
           new == Splice(old, r.offset, r.data)
<1>1. r.path \in PathSet \ {Root} /\ r.offset \in Nat /\ r.data \in Bytes
  BY RequestFields DEF TypeOK, Write, Calling
<1>2. IsStore(objects) /\ old \in Bytes
  BY StoredBytes, EmptyBytes DEF TypeOK
<1>3. objects' = Put(objects, k, new)
  <2>1. \/ reply' = [reply EXCEPT ![t] = Err("NotAFile")]
        \/ objects' = Put(objects, k, new)
    BY DEF Write, Apply, Refuse, HasFile
  <2>2. Err("NotAFile") # Done
    BY ResultTypes DEF Errors
  <2> QED BY <2>1, <2>2 DEF TypeOK
<1> HIDE DEF old
<1>4. new \in Bytes /\ k \in Key
  BY <1>1, <1>2, SplicedBytes, KeysOfPath
<1>5. Len(old) \in Nat /\ Len(r.data) \in Nat
  BY <1>1, <1>2, BytesIndexed
<1>6. /\ Len(new) = IF Len(old) < r.offset + Len(r.data) THEN r.offset + Len(r.data) ELSE Len(old)
      /\ \A i \in 1..Len(r.data) : new[r.offset + i] = r.data[i]
      /\ \A i \in 1..Len(old) : i <= r.offset \/ i > r.offset + Len(r.data) => new[i] = old[i]
      /\ \A i \in (Len(old) + 1)..r.offset : new[i] = 0
  BY <1>1, <1>2, SplicedBytes
<1> HIDE DEF new, k
<1>7. objects'[k] = new
  <2>1. Put(objects, k, new)[k] = new
    BY <1>2, <1>4, PutInStore
  <2>2. objects' = Put(objects, k, new)
    BY <1>3
  <2> QED BY ONLY <2>1, <2>2
<1>8. Len(new) >= Len(old) /\ r.offset + Len(r.data) <= Len(new)
  BY <1>1, <1>5, <1>6
<1>9. Slice(new, r.offset, Len(r.data)) = r.data
  BY <1>1, <1>4, <1>6, <1>8, SlicedBytes
<1> QED BY <1>6, <1>7, <1>8, <1>9 DEF old, k

(* "The whole slice is written", in place, at every offset, however long   *)
(* the file was (core/src/mem.rs, write).                                  *)
THEOREM WritesInPlace == Spec => WriteIsInPlace
<1>1. ASSUME TypeOK, [Next]_vars, NEW t \in Task, Applying(t, "write"), reply'[t] = Done
      PROVE  Write(t)
  BY <1>1, AppliedBy, OperationOf
<1>2. TypeOK /\ [Next]_vars => WriteIsInPlace!1
  BY <1>1, WriteStep
<1> QED BY <1>2, Typing, PTL DEF Spec, WriteIsInPlace

-----------------------------------------------------------------------------
(* The kernel renames nothing into itself or onto what it is in. *)
KernelRenames == \A r \in Request : r.op = "rename" => ~Related(r.path, r.to)

LEMMA RenameStep ==
    ASSUME KernelRenames, TypeOK, NEW t \in Task, Rename(t), reply'[t] = Done
    PROVE  LET r == req[t]
               file == HasFile(objects, r.path)
               moves(k) == IF file THEN k = FileKey(r.path) ELSE StartsWith(k, r.path)
           IN  \A k \in DOMAIN objects :
                 IF moves(k) THEN /\ k \notin DOMAIN objects'
                                  /\ Rekey(k, r.path, r.to) \in DOMAIN objects'
                                  /\ objects'[Rekey(k, r.path, r.to)] = objects[k]
                 ELSE StartsWith(k, r.to) \/ k = FileKey(r.to)
                      \/ (k \in DOMAIN objects' /\ objects'[k] = objects[k])
<1> DEFINE r == req[t]
           ks == IF HasFile(objects, r.path) THEN {FileKey(r.path)}
                 ELSE {k \in DOMAIN objects : StartsWith(k, r.path)}
           target(k) == Rekey(k, r.path, r.to)
<1>1. r.path \in PathSet \ {Root} /\ r.to \in PathSet \ {Root} /\ ~Related(r.path, r.to)
  BY RequestFields DEF KernelRenames, TypeOK, Rename, Calling
<1>2. IsStore(objects) /\ ks \in SUBSET DOMAIN objects
  BY DEF TypeOK, HasFile
<1>3. \A k \in ks : k \in Key /\ Seqs!IsPrefix(r.path, k.path)
  BY <1>1, <1>2, StoredBytes, KeysOfPath, PrefixReflexive DEF StartsWith
<1>4. \A k \in DOMAIN objects : k \in ks <=> IF HasFile(objects, r.path) THEN k = FileKey(r.path)
                                             ELSE StartsWith(k, r.path)
  OBVIOUS
<1>5. objects' = Moved(objects, ks, r.path, r.to)
  <2>1. \/ reply' = [reply EXCEPT ![t] = Err("NotFound")]
        \/ objects' = Moved(objects, ks, r.path, r.to)
    BY DEF Rename, Apply, Refuse
  <2>2. Err("NotFound") # Done
    BY ResultTypes DEF Errors
  <2> QED BY <2>1, <2>2 DEF TypeOK
<1> HIDE DEF ks
<1>6. /\ \A x : x \in DOMAIN objects' <=> x \in DOMAIN objects \ ks \/ \E k \in ks : x = target(k)
      /\ \A k \in ks : objects'[target(k)] = objects[k]
      /\ \A x \in DOMAIN objects \ ks : (\A k \in ks : target(k) # x) => objects'[x] = objects[x]
  <2> DEFINE m == Moved(objects, ks, r.path, r.to)
  <2> HIDE DEF r
  <2>1. /\ \A x : x \in DOMAIN m <=> x \in DOMAIN objects \ ks \/ \E k \in ks : x = target(k)
        /\ \A k \in ks : m[target(k)] = objects[k]
        /\ \A x \in DOMAIN objects \ ks : (\A k \in ks : target(k) # x) => m[x] = objects[x]
    BY <1>1, <1>2, <1>3, MovedStore
  <2>2. objects' = m
    BY <1>5
  <2> HIDE DEF m, target
  <2> QED BY <2>1, <2>2
<1>7. \A k \in ks : target(k) \in Key /\ target(k).dir = k.dir /\ Seqs!IsPrefix(r.to, target(k).path)
  BY <1>1, <1>3, RekeyedPath, RekeyedUnder
<1>8. ASSUME NEW k \in ks, NEW l \in ks PROVE target(l) # k
  <2>1. ~Seqs!IsPrefix(r.to, k.path)
    BY <1>1, <1>3, KeyFields, UnrelatedPathsPart
  <2> QED BY <1>7, <2>1
<1>9. ASSUME NEW k \in ks PROVE StartsWith(target(k), r.to) \/ target(k) = FileKey(r.to)
  <2>1. target(k).path = r.to /\ ~target(k).dir => target(k) = FileKey(r.to)
    BY <1>1, <1>7, KeysOfPath, KeyFields
  <2> QED BY <1>7, <2>1 DEF StartsWith
<1> HIDE DEF target
<1>10. ASSUME NEW k \in DOMAIN objects
       PROVE  IF k \in ks THEN k \notin DOMAIN objects' /\ target(k) \in DOMAIN objects'
                               /\ objects'[target(k)] = objects[k]
              ELSE StartsWith(k, r.to) \/ k = FileKey(r.to)
                      \/ (k \in DOMAIN objects' /\ objects'[k] = objects[k])
  <2>1. CASE k \in ks
    BY <1>6, <1>8, <2>1
  <2>2. CASE k \notin ks
    BY <1>6, <1>9, <2>2
  <2> QED BY <2>1, <2>2
<1> QED BY <1>4, <1>10 DEF target

(* A rename moves the file, or every key of the tree, and nothing else     *)
(* (core/src/mem.rs, rename), whatever the tree holds.                     *)
THEOREM RenamesMoveTrees == ASSUME KernelRenames PROVE Spec => RenameMovesTree
<1>1. ASSUME TypeOK, [Next]_vars, NEW t \in Task, Applying(t, "rename"), reply'[t] = Done
      PROVE  Rename(t)
  BY <1>1, AppliedBy, OperationOf
<1>2. TypeOK /\ [Next]_vars => RenameMovesTree!1
  BY <1>1, RenameStep
<1> QED BY <1>2, Typing, PTL DEF Spec, RenameMovesTree
=============================================================================
