---------------------------- MODULE ObjectsProofs ---------------------------
(***************************************************************************)
(* Facts about paths, keys, stores and bytes that the proofs about both    *)
(* backends rest on.                                                       *)
(***************************************************************************)
EXTENDS Objects, TLAPS

-----------------------------------------------------------------------------
(* Paths and keys. *)

LEMMA PrefixByName ==
    ASSUME NEW p \in PathSet, NEW q \in PathSet
    PROVE  Seqs!IsPrefix(p, q) <=> Len(p) <= Len(q) /\ \A i \in 1..Len(p) : p[i] = q[i]
BY DEF Seqs!IsPrefix, PathSet

LEMMA KeyFields ==
    ASSUME NEW k \in Key
    PROVE  /\ k.path \in PathSet /\ k.path # Root /\ k.dir \in BOOLEAN
           /\ \A l \in Key : k.path = l.path /\ k.dir = l.dir => k = l
BY DEF Key

LEMMA KeysOfPath ==
    ASSUME NEW p \in PathSet \ {Root}
    PROVE  /\ FileKey(p) \in Key /\ FileKey(p).path = p /\ ~FileKey(p).dir
           /\ DirKey(p) \in Key /\ DirKey(p).path = p /\ DirKey(p).dir
BY DEF FileKey, DirKey, Key

(* Two paths with a common extension are related. *)
LEMMA UnrelatedPathsPart ==
    ASSUME NEW p \in PathSet, NEW q \in PathSet, ~Related(p, q),
           NEW x \in PathSet, Seqs!IsPrefix(p, x)
    PROVE  ~Seqs!IsPrefix(q, x)
<1> SUFFICES ASSUME Seqs!IsPrefix(q, x) PROVE FALSE
  OBVIOUS
<1>1. /\ Len(p) <= Len(x) /\ \A i \in 1..Len(p) : p[i] = x[i]
      /\ Len(q) <= Len(x) /\ \A i \in 1..Len(q) : q[i] = x[i]
  BY PrefixByName
<1>2. Len(p) \in Nat /\ Len(q) \in Nat
  BY DEF PathSet
<1>3. CASE Len(p) <= Len(q)
  BY <1>1, <1>2, <1>3, PrefixByName DEF Related
<1>4. CASE Len(q) <= Len(p)
  BY <1>1, <1>2, <1>4, PrefixByName DEF Related
<1> QED BY <1>2, <1>3, <1>4

LEMMA PrefixReflexive == ASSUME NEW p \in PathSet PROVE Seqs!IsPrefix(p, p)
<1>1. Len(p) \in Nat
  BY DEF PathSet
<1> QED BY <1>1, PrefixByName

LEMMA PrefixTransitive ==
    ASSUME NEW p \in PathSet, NEW q \in PathSet, NEW x \in PathSet,
           Seqs!IsPrefix(p, q), Seqs!IsPrefix(q, x)
    PROVE  Seqs!IsPrefix(p, x)
<1>1. Len(p) \in Nat /\ Len(q) \in Nat /\ Len(x) \in Nat
  BY DEF PathSet
<1>2. /\ Len(p) <= Len(q) /\ \A i \in 1..Len(p) : p[i] = q[i]
      /\ Len(q) <= Len(x) /\ \A i \in 1..Len(q) : q[i] = x[i]
  BY PrefixByName
<1> QED BY <1>1, <1>2, PrefixByName

LEMMA PrefixAntisymmetric ==
    ASSUME NEW p \in PathSet, NEW q \in PathSet, Seqs!IsPrefix(p, q), Len(q) <= Len(p)
    PROVE  p = q
<1>1. Len(p) \in Nat /\ Len(q) \in Nat
  BY DEF PathSet
<1>2. Len(p) = Len(q) /\ \A i \in 1..Len(p) : p[i] = q[i]
  BY <1>1, PrefixByName
<1> QED BY <1>2 DEF PathSet

(* A prefix is the first components, and a proper one is of the parent. *)
LEMMA PrefixIsInitial ==
    ASSUME NEW p \in PathSet, NEW q \in PathSet, Seqs!IsPrefix(q, p)
    PROVE  q = SubSeq(p, 1, Len(q))
<1> DEFINE n == Len(q)
<1>1. n \in Nat /\ n <= Len(p) /\ \A i \in 1..n : q[i] = p[i]
  BY PrefixByName DEF PathSet
<1> HIDE DEF n
<1>2. SubSeq(p, 1, n) \in PathSet /\ Len(SubSeq(p, 1, n)) = n
  BY <1>1 DEF PathSet
<1>3. \A i \in 1..n : SubSeq(p, 1, n)[i] = p[i]
  BY <1>1 DEF PathSet
<1> DEFINE s == SubSeq(p, 1, n)
<1>4. s \in PathSet /\ Len(s) = n /\ \A i \in 1..n : s[i] = q[i]
  BY <1>1, <1>2, <1>3
<1> HIDE DEF s
<1>5. s = q
  BY <1>4 DEF PathSet, n
<1> QED BY <1>5 DEF s, n

LEMMA ParentPath ==
    ASSUME NEW p \in PathSet \ {Root}
    PROVE  /\ Parent(p) \in PathSet /\ Len(Parent(p)) = Len(p) - 1
           /\ Seqs!IsPrefix(Parent(p), p)
           /\ \A q \in PathSet : Seqs!IsPrefix(q, p) /\ q # p => Seqs!IsPrefix(q, Parent(p))
<1> DEFINE n == Len(p) - 1
           s == SubSeq(p, 1, n)
<1>1. n \in Nat /\ n <= Len(p) /\ Len(p) = n + 1
  BY DEF PathSet, Root
<1>2. Parent(p) = s
  BY DEF Parent
<1> HIDE DEF n
<1>3. s \in PathSet /\ Len(s) = n
  BY <1>1 DEF PathSet
<1>4. \A i \in 1..n : s[i] = p[i]
  BY <1>1 DEF PathSet
<1> HIDE DEF s
<1>5. Seqs!IsPrefix(s, p)
  BY <1>1, <1>3, <1>4, PrefixByName
<1>6. ASSUME NEW q \in PathSet, Seqs!IsPrefix(q, p), q # p PROVE Seqs!IsPrefix(q, s)
  <2>1. Len(q) \in Nat /\ Len(q) <= Len(p) /\ \A i \in 1..Len(q) : q[i] = p[i]
    BY <1>6, PrefixByName DEF PathSet
  <2>2. ~(Len(p) <= Len(q))
    BY <1>6, PrefixAntisymmetric
  <2>3. Len(q) <= n
    BY <1>1, <2>1, <2>2
  <2> QED BY <1>1, <1>3, <1>4, <2>1, <2>3, PrefixByName
<1> QED BY <1>2, <1>3, <1>5, <1>6 DEF n

LEMMA Suffix ==
    ASSUME NEW p \in PathSet, NEW n \in Nat, n <= Len(p)
    PROVE  /\ SubSeq(p, n + 1, Len(p)) \in PathSet
           /\ Len(SubSeq(p, n + 1, Len(p))) = Len(p) - n
           /\ \A i \in 1..(Len(p) - n) : SubSeq(p, n + 1, Len(p))[i] = p[n + i]
<1>1. SubSeq(p, n + 1, Len(p)) \in PathSet /\ Len(SubSeq(p, n + 1, Len(p))) = Len(p) - n
  BY DEF PathSet
<1>2. \A i \in 1..(Len(p) - n) : SubSeq(p, n + 1, Len(p))[i] = p[n + i]
  BY DEF PathSet
<1> QED BY <1>1, <1>2

LEMMA Concatenation ==
    ASSUME NEW p \in PathSet, NEW q \in PathSet
    PROVE  /\ p \o q \in PathSet
           /\ Len(p \o q) = Len(p) + Len(q)
           /\ \A i \in 1..Len(p) : (p \o q)[i] = p[i]
           /\ \A i \in 1..Len(q) : (p \o q)[Len(p) + i] = q[i]
<1>1. p \o q \in PathSet /\ Len(p \o q) = Len(p) + Len(q)
  BY DEF PathSet
<1>2. \A i \in 1..Len(p) : (p \o q)[i] = p[i]
  BY DEF PathSet
<1>3. \A i \in 1..Len(q) : (p \o q)[Len(p) + i] = q[i]
  BY DEF PathSet
<1> QED BY <1>1, <1>2, <1>3

(* What is under a path under another. *)
LEMMA RekeyedPath ==
    ASSUME NEW k \in Key, NEW from \in PathSet, NEW to \in PathSet \ {Root},
           Seqs!IsPrefix(from, k.path)
    PROVE  /\ Rekey(k, from, to) \in Key
           /\ Rekey(k, from, to).dir = k.dir
           /\ Len(Rekey(k, from, to).path) = Len(to) + (Len(k.path) - Len(from))
           /\ \A i \in 1..Len(to) : Rekey(k, from, to).path[i] = to[i]
           /\ \A i \in 1..(Len(k.path) - Len(from)) :
                  Rekey(k, from, to).path[Len(to) + i] = k.path[Len(from) + i]
<1> DEFINE suffix == SubSeq(k.path, Len(from) + 1, Len(k.path))
           n == Len(from)
<1>1. k.path \in PathSet /\ to # <<>> /\ Len(to) \in Nat /\ Len(to) > 0
  BY KeyFields DEF PathSet, Root
<1>2. n \in Nat /\ n <= Len(k.path) /\ Len(k.path) \in Nat
  BY <1>1, PrefixByName DEF PathSet
<1>3. ASSUME NEW p \in PathSet, p = k.path
      PROVE  /\ SubSeq(p, n + 1, Len(p)) \in PathSet
             /\ Len(SubSeq(p, n + 1, Len(p))) = Len(p) - n
             /\ \A i \in 1..(Len(p) - n) : SubSeq(p, n + 1, Len(p))[i] = p[n + i]
  <2> HIDE DEF n
  <2> QED BY <1>2, <1>3, Suffix
<1>4. /\ suffix \in PathSet /\ Len(suffix) = Len(k.path) - n
      /\ \A i \in 1..(Len(k.path) - n) : suffix[i] = k.path[n + i]
  BY <1>1, <1>3
<1> HIDE DEF n, suffix
<1>6. /\ to \o suffix \in PathSet /\ Len(to \o suffix) = Len(to) + Len(suffix)
      /\ \A i \in 1..Len(to) : (to \o suffix)[i] = to[i]
      /\ \A i \in 1..Len(suffix) : (to \o suffix)[Len(to) + i] = suffix[i]
  BY <1>4, Concatenation
<1>9. to \o suffix # <<>>
  BY <1>1, <1>2, <1>4, <1>6 DEF PathSet
<1>10. Rekey(k, from, to) = [k EXCEPT !.path = to \o suffix]
  BY DEF Rekey, suffix
<1>11. Rekey(k, from, to) \in Key /\ Rekey(k, from, to).path = to \o suffix
       /\ Rekey(k, from, to).dir = k.dir
  BY <1>6, <1>9, <1>10 DEF Key, PathSet, Root
<1> QED BY <1>2, <1>4, <1>6, <1>11 DEF n

LEMMA RekeyedUnder ==
    ASSUME NEW k \in Key, NEW from \in PathSet, NEW to \in PathSet \ {Root},
           Seqs!IsPrefix(from, k.path)
    PROVE  Seqs!IsPrefix(to, Rekey(k, from, to).path)
<1>1. Rekey(k, from, to).path \in PathSet
  BY RekeyedPath, KeyFields
<1>2. Len(from) <= Len(k.path) /\ Len(from) \in Nat /\ Len(to) \in Nat /\ Len(k.path) \in Nat
  BY PrefixByName, KeyFields DEF PathSet
<1> QED BY <1>1, <1>2, PrefixByName, RekeyedPath

LEMMA RekeyedFile ==
    ASSUME NEW from \in PathSet \ {Root}, NEW to \in PathSet \ {Root}
    PROVE  Rekey(FileKey(from), from, to) = FileKey(to)
<1> DEFINE r == Rekey(FileKey(from), from, to)
<1>1. /\ r \in Key /\ r.dir = FALSE /\ Len(r.path) = Len(to)
      /\ \A i \in 1..Len(to) : r.path[i] = to[i]
  <2>1. Seqs!IsPrefix(from, FileKey(from).path) /\ Len(from) \in Nat /\ Len(to) \in Nat
    BY PrefixReflexive, KeysOfPath DEF PathSet
  <2> QED BY <2>1, RekeyedPath, KeysOfPath
<1> HIDE DEF r
<1>2. r.path = to
  BY <1>1, KeyFields DEF PathSet
<1>3. r = FileKey(to)
  BY <1>1, <1>2, KeyFields, KeysOfPath
<1> QED BY <1>3 DEF r

LEMMA RekeyInjective ==
    ASSUME NEW k \in Key, NEW l \in Key, NEW from \in PathSet, NEW to \in PathSet \ {Root},
           Seqs!IsPrefix(from, k.path), Seqs!IsPrefix(from, l.path),
           Rekey(k, from, to) = Rekey(l, from, to)
    PROVE  k = l
<1>1. /\ Len(from) <= Len(k.path) /\ \A i \in 1..Len(from) : from[i] = k.path[i]
      /\ Len(from) <= Len(l.path) /\ \A i \in 1..Len(from) : from[i] = l.path[i]
  BY PrefixByName, KeyFields
<1>2. Len(from) \in Nat /\ Len(to) \in Nat /\ Len(k.path) \in Nat /\ Len(l.path) \in Nat
  BY KeyFields DEF PathSet
<1>3. k.dir = l.dir /\ Len(k.path) = Len(l.path)
  BY <1>2, RekeyedPath
<1>4. \A i \in 1..(Len(k.path) - Len(from)) : k.path[Len(from) + i] = l.path[Len(from) + i]
  <2> DEFINE r == Rekey(k, from, to)
  <2>1. \A i \in 1..(Len(k.path) - Len(from)) : r.path[Len(to) + i] = k.path[Len(from) + i]
    BY RekeyedPath
  <2>2. \A i \in 1..(Len(l.path) - Len(from)) : Rekey(l, from, to).path[Len(to) + i] = l.path[Len(from) + i]
    BY RekeyedPath
  <2>3. r = Rekey(l, from, to)
    OBVIOUS
  <2> HIDE DEF r
  <2> QED BY <1>3, <2>1, <2>2, <2>3
<1>5. ASSUME NEW i \in 1..Len(k.path) PROVE k.path[i] = l.path[i]
  <2>1. CASE i <= Len(from)
    BY <1>1, <2>1
  <2>2. CASE i > Len(from)
    <3>1. i - Len(from) \in 1..(Len(k.path) - Len(from)) /\ i = Len(from) + (i - Len(from))
      BY <1>2, <2>2
    <3> QED BY <1>4, <3>1
  <2> QED BY <1>2, <2>1, <2>2
<1>6. k.path = l.path
  BY <1>3, <1>5, KeyFields DEF PathSet
<1> QED BY <1>3, <1>6, KeyFields

LEMMA StartsWithPrefix ==
    ASSUME NEW k, NEW p, StartsWith(k, p) PROVE Seqs!IsPrefix(p, k.path)
BY DEF StartsWith

-----------------------------------------------------------------------------
(* Stores. *)

LEMMA PutInStore ==
    ASSUME NEW o, IsStore(o), NEW k \in Key, NEW v \in Bytes
    PROVE  /\ IsStore(Put(o, k, v))
           /\ DOMAIN Put(o, k, v) = DOMAIN o \cup {k}
           /\ Put(o, k, v)[k] = v
           /\ \A x \in DOMAIN o : x # k => Put(o, k, v)[x] = o[x]
BY DEF IsStore, Put

LEMMA PutIsRead == ASSUME NEW o, NEW k, NEW v PROVE Put(o, k, v)[k] = v
BY DEF Put

LEMMA DropFromStore ==
    ASSUME NEW o, IsStore(o), NEW k
    PROVE  /\ IsStore(Drop(o, k))
           /\ DOMAIN Drop(o, k) = DOMAIN o \ {k}
           /\ \A x \in DOMAIN o \ {k} : Drop(o, k)[x] = o[x]
BY DEF IsStore, Drop

LEMMA StoredBytes ==
    ASSUME NEW o, IsStore(o), NEW k \in DOMAIN o PROVE k \in Key /\ o[k] \in Bytes
BY DEF IsStore

-----------------------------------------------------------------------------
(* Bytes. *)

LEMMA ByteSequence ==
    ASSUME NEW n \in Nat, NEW b \in [1..n -> Byte] PROVE b \in Bytes /\ Len(b) = n
BY DEF Bytes

LEMMA BytesIndexed ==
    ASSUME NEW b \in Bytes
    PROVE  Len(b) \in Nat /\ (\A i \in 1..Len(b) : b[i] \in Byte) /\ b \in [1..Len(b) -> Byte]
BY DEF Bytes

LEMMA EmptyBytes == <<>> \in Bytes /\ Len(<<>>) = 0
BY DEF Bytes

LEMMA SplicedBytes ==
    ASSUME NEW b \in Bytes, NEW offset \in Nat, NEW data \in Bytes
    PROVE  /\ Splice(b, offset, data) \in Bytes
           /\ Len(Splice(b, offset, data)) =
                  IF Len(b) < offset + Len(data) THEN offset + Len(data) ELSE Len(b)
           /\ \A i \in 1..Len(data) : Splice(b, offset, data)[offset + i] = data[i]
           /\ \A i \in 1..Len(b) : i <= offset \/ i > offset + Len(data)
                  => Splice(b, offset, data)[i] = b[i]
           /\ \A i \in (Len(b) + 1)..offset : Splice(b, offset, data)[i] = 0
<1> DEFINE end == offset + Len(data)
           n == IF Len(b) < end THEN end ELSE Len(b)
           at(i) == IF offset < i /\ i <= end THEN data[i - offset]
                    ELSE IF i <= Len(b) THEN b[i] ELSE 0
<1>1. Len(b) \in Nat /\ Len(data) \in Nat /\ end \in Nat /\ n \in Nat /\ n >= end /\ n >= Len(b)
  BY BytesIndexed
<1>2. Splice(b, offset, data) = [i \in 1..n |-> at(i)]
  BY DEF Splice
<1>3. ASSUME NEW i \in 1..n PROVE at(i) \in Byte
  <2>1. CASE offset < i /\ i <= end
    <3>1. i - offset \in 1..Len(data)
      BY <1>1, <2>1
    <3> QED BY <2>1, <3>1, BytesIndexed
  <2>2. CASE ~(offset < i /\ i <= end) /\ i <= Len(b)
    <3>1. i \in 1..Len(b)
      BY <1>1, <2>2
    <3> QED BY <2>2, <3>1, BytesIndexed
  <2>3. CASE ~(offset < i /\ i <= end) /\ ~(i <= Len(b))
    BY <2>3, ByteAssumption
  <2> QED BY <2>1, <2>2, <2>3
<1>4. \A i \in 1..Len(data) : offset + i \in 1..n /\ at(offset + i) = data[i]
  BY <1>1
<1>5. \A i \in 1..Len(b) : i \in 1..n /\ (i <= offset \/ i > end => at(i) = b[i])
  BY <1>1
<1>6. \A i \in (Len(b) + 1)..offset : i \in 1..n /\ at(i) = 0
  BY <1>1
<1> DEFINE s == [i \in 1..n |-> at(i)]
<1>7. s \in [1..n -> Byte]
  BY <1>3
<1>8. \A i \in 1..n : s[i] = at(i)
  OBVIOUS
<1> HIDE DEF at, n, s
<1>9. s \in Bytes /\ Len(s) = n
  BY <1>1, <1>7, ByteSequence
<1>10. Splice(b, offset, data) = s
  BY <1>2 DEF s
<1> QED BY <1>4, <1>5, <1>6, <1>8, <1>9, <1>10 DEF n

LEMMA ResizedBytes ==
    ASSUME NEW b \in Bytes, NEW len \in Nat
    PROVE  Resize(b, len) \in Bytes /\ Len(Resize(b, len)) = len
<1>1. Resize(b, len) \in [1..len -> Byte]
  <2> SUFFICES ASSUME NEW i \in 1..len PROVE (IF i <= Len(b) THEN b[i] ELSE 0) \in Byte
    BY DEF Resize
  <2>1. i <= Len(b) => i \in 1..Len(b)
    BY BytesIndexed
  <2> QED BY <2>1, BytesIndexed, ByteAssumption
<1> QED BY <1>1, ByteSequence

(* A slice that lies within the bytes. *)
LEMMA SlicedBytes ==
    ASSUME NEW b \in Bytes, NEW offset \in Nat, NEW data \in Bytes, offset + Len(data) <= Len(b),
           \A i \in 1..Len(data) : b[offset + i] = data[i]
    PROVE  Slice(b, offset, Len(data)) = data
<1> DEFINE m == Len(data)
           s == SubSeq(b, offset + 1, offset + m)
<1>1. Len(b) \in Nat /\ m \in Nat
  BY BytesIndexed
<1>2. Slice(b, offset, m) = s
  BY <1>1 DEF Slice
<1> HIDE DEF m
<1>3. s \in Bytes /\ Len(s) = m
  BY <1>1 DEF Bytes, m
<1>4. \A i \in 1..m : s[i] = b[offset + i]
  BY <1>1 DEF Bytes, m
<1> HIDE DEF s
<1>5. s = data
  BY <1>1, <1>3, <1>4 DEF Bytes, m
<1> QED BY <1>2, <1>5 DEF m

(* Any slice is made of the bytes. *)
LEMMA SliceInBytes ==
    ASSUME NEW b \in Bytes, NEW offset \in Nat, NEW len \in Nat
    PROVE  Slice(b, offset, len) \in Bytes
<1> DEFINE end == IF offset + len < Len(b) THEN offset + len ELSE Len(b)
<1>1. Len(b) \in Nat /\ end \in Nat /\ end <= Len(b)
  BY BytesIndexed
<1>2. Slice(b, offset, len) = SubSeq(b, offset + 1, end)
  BY DEF Slice
<1> HIDE DEF end
<1> QED BY <1>1, <1>2 DEF Bytes

-----------------------------------------------------------------------------
(* Children. *)

LEMMA Joined ==
    ASSUME NEW p \in PathSet, NEW n \in Name
    PROVE  /\ Join(p, n) \in PathSet /\ Join(p, n) # Root
           /\ Len(Join(p, n)) = Len(p) + 1
           /\ \A i \in 1..Len(p) : Join(p, n)[i] = p[i]
           /\ Join(p, n)[Len(p) + 1] = n
BY DEF Join, PathSet, Root

(* What is below a path has a name in it; it is, or is below, that child. *)
LEMMA BelowHasName ==
    ASSUME NEW k \in Key, NEW p \in PathSet, Below(k, p)
    PROVE  /\ Len(p) \in Nat /\ Len(k.path) \in Nat /\ Len(p) < Len(k.path)
           /\ k.path[Len(p) + 1] \in Name
<1>1. /\ k.path \in PathSet /\ Len(k.path) \in Nat /\ Len(p) \in Nat
      /\ Len(p) <= Len(k.path) /\ \A i \in 1..Len(p) : p[i] = k.path[i]
  BY KeyFields, PrefixByName DEF Below, StartsWith, PathSet
<1>2. k.path # p
  <2> SUFFICES ASSUME k.path = p PROVE FALSE
    OBVIOUS
  <2>1. k.dir /\ k.path = p /\ k # DirKey(p)
    BY DEF Below, StartsWith
  <2> QED BY <2>1 DEF Key, DirKey
<1>3. Len(p) # Len(k.path)
  BY <1>1, <1>2 DEF PathSet
<1>4. Len(p) + 1 \in 1..Len(k.path)
  BY <1>1, <1>3
<1> QED BY <1>1, <1>3, <1>4 DEF PathSet

LEMMA BelowIsUnderChild ==
    ASSUME NEW k \in Key, NEW p \in PathSet, NEW n \in Name
    PROVE  Below(k, p) /\ k.path[Len(p) + 1] = n
               <=> k = FileKey(Join(p, n)) \/ StartsWith(k, Join(p, n))
<1>1. /\ k.path \in PathSet /\ Len(k.path) \in Nat /\ Len(p) \in Nat /\ k.dir \in BOOLEAN
  BY KeyFields DEF PathSet
<1>2. k = FileKey(Join(p, n)) \/ StartsWith(k, Join(p, n)) <=> Seqs!IsPrefix(Join(p, n), k.path)
  <2>1. k.path = Join(p, n) /\ ~k.dir => k = FileKey(Join(p, n))
    BY Joined, KeysOfPath, KeyFields
  <2>2. FileKey(Join(p, n)).path = Join(p, n) /\ Seqs!IsPrefix(Join(p, n), Join(p, n))
    BY Joined, KeysOfPath, PrefixReflexive
  <2> QED BY <2>1, <2>2 DEF StartsWith
<1> DEFINE j == Join(p, n)
<1>3. /\ j \in PathSet /\ Len(j) = Len(p) + 1 /\ j[Len(p) + 1] = n
      /\ \A i \in 1..Len(p) : j[i] = p[i]
  BY Joined
<1> HIDE DEF j
<1>4. ASSUME Seqs!IsPrefix(j, k.path) PROVE Below(k, p) /\ k.path[Len(p) + 1] = n
  <2>1. Len(p) + 1 <= Len(k.path) /\ \A i \in 1..(Len(p) + 1) : j[i] = k.path[i]
    BY <1>1, <1>3, <1>4, PrefixByName
  <2>2. \A i \in 1..Len(p) : p[i] = k.path[i]
    BY <1>1, <1>3, <2>1
  <2>3. Len(p) <= Len(k.path)
    BY <1>1, <2>1
  <2>4. Seqs!IsPrefix(p, k.path)
    BY <1>1, <2>2, <2>3, PrefixByName
  <2>5. k.path # p
    BY <1>1, <2>1
  <2>6. k # DirKey(p)
    BY <2>5 DEF DirKey
  <2>7. k.path[Len(p) + 1] = n
    BY <1>1, <1>3, <2>1
  <2> QED BY <2>4, <2>5, <2>6, <2>7 DEF Below, StartsWith
<1>5. ASSUME Below(k, p), k.path[Len(p) + 1] = n PROVE Seqs!IsPrefix(j, k.path)
  <2>1. Len(p) < Len(k.path) /\ \A i \in 1..Len(p) : p[i] = k.path[i]
    BY <1>1, <1>5, BelowHasName, PrefixByName DEF Below, StartsWith
  <2>2. ASSUME NEW i \in 1..(Len(p) + 1) PROVE j[i] = k.path[i]
    <3>1. CASE i = Len(p) + 1
      BY <1>3, <1>5, <3>1
    <3>2. CASE i # Len(p) + 1
      <4>1. i \in 1..Len(p)
        BY <1>1, <3>2
      <4> QED BY <1>3, <2>1, <4>1
    <3> QED BY <3>1, <3>2
  <2> QED BY <1>1, <1>3, <2>1, <2>2, PrefixByName
<1> QED BY <1>2, <1>4, <1>5 DEF j

LEMMA ChildrenTyping ==
    ASSUME NEW o, IsStore(o), NEW p \in PathSet
    PROVE  Children(o, p) \in SUBSET [name : Name, entry : [kind : {"file", "dir"}, size : Nat]]
<1> SUFFICES ASSUME NEW k \in DOMAIN o, Below(k, p)
             PROVE  (LET name == k.path[Len(p) + 1] IN
                       IF k = FileKey(Join(p, name))
                       THEN [name |-> name, entry |-> Entry("file", Len(o[k]))]
                       ELSE [name |-> name, entry |-> Entry("dir", 0)])
                     \in [name : Name, entry : [kind : {"file", "dir"}, size : Nat]]
  BY DEF Children
<1>1. k.path[Len(p) + 1] \in Name
  BY StoredBytes, BelowHasName
<1>2. Len(o[k]) \in Nat
  BY StoredBytes, BytesIndexed
<1> QED BY <1>1, <1>2 DEF Entry

-----------------------------------------------------------------------------
(* Requests and results. *)

LEMMA RequestsTyped ==
    ASSUME NEW r \in Requests
    PROVE  /\ r.path \in PathSet
           /\ r.op \notin {"list", "stat"} => r.path # Root
           /\ r.op = "read" => r.offset \in Nat /\ r.len \in Nat
           /\ r.op \in {"create", "remove"} => r.kind \in {"file", "dir"}
           /\ r.op = "write" => r.offset \in Nat /\ r.data \in Bytes
           /\ r.op = "truncate" => r.len \in Nat
           /\ r.op = "rename" => r.to \in PathSet /\ r.to # Root
BY DEF Requests

LEMMA ResultTypes ==
    /\ \A e \in Errors : Err(e) \in Results /\ Err(e) # NoReply /\ Err(e) # Done
    /\ Done \in Results /\ Done # NoReply
    /\ \A b \in Bytes : Contents(b) \in Results /\ Contents(b) # NoReply /\ Contents(b) # Done
    /\ \A kind \in {"file", "dir"}, size \in Nat :
           /\ Found(Entry(kind, size)) \in Results /\ Found(Entry(kind, size)) # NoReply
           /\ Found(Entry(kind, size)) # Done
    /\ \A entries \in SUBSET [name : Name, entry : [kind : {"file", "dir"}, size : Nat]] :
           Listing(entries) \in Results /\ Listing(entries) # NoReply /\ Listing(entries) # Done
<1>1. \A e \in Errors : Err(e) \in Results /\ Err(e) # NoReply /\ Err(e) # Done
  BY DEF Results, Err, NoReply, Done
<1>2. Done \in Results /\ Done # NoReply
  BY DEF Results, Done, NoReply
<1>3. \A b \in Bytes : Contents(b) \in Results /\ Contents(b) # NoReply /\ Contents(b) # Done
  BY DEF Results, Contents, NoReply, Done
<1>4. \A kind \in {"file", "dir"}, size \in Nat :
           /\ Found(Entry(kind, size)) \in Results /\ Found(Entry(kind, size)) # NoReply
           /\ Found(Entry(kind, size)) # Done
  BY DEF Results, Found, Entry, NoReply, Done
<1>5. \A entries \in SUBSET [name : Name, entry : [kind : {"file", "dir"}, size : Nat]] :
           Listing(entries) \in Results /\ Listing(entries) # NoReply /\ Listing(entries) # Done
  BY DEF Results, Listing, NoReply, Done
<1> QED BY <1>1, <1>2, <1>3, <1>4, <1>5

-----------------------------------------------------------------------------
(* Results about paths and keys. *)

LEMMA SamePath ==
    ASSUME NEW p \in PathSet, NEW q \in PathSet, Len(p) = Len(q), \A i \in 1..Len(p) : p[i] = q[i]
    PROVE  p = q
BY DEF PathSet

(* Re-keying the other way restores the key. *)
LEMMA RekeyInverse ==
    ASSUME NEW k \in Key, NEW from \in PathSet \ {Root}, NEW to \in PathSet \ {Root},
           Seqs!IsPrefix(from, k.path)
    PROVE  Rekey(Rekey(k, from, to), to, from) = k
<1>1. PICK l : l = Rekey(k, from, to)
  OBVIOUS
<1>2. PICK b : b = Rekey(l, to, from)
  OBVIOUS
<1>3. /\ k.path \in PathSet /\ Len(from) \in Nat /\ Len(to) \in Nat /\ Len(k.path) \in Nat
      /\ Len(from) <= Len(k.path) /\ \A i \in 1..Len(from) : from[i] = k.path[i]
  BY KeyFields, PrefixByName DEF PathSet
<1>4. /\ l \in Key /\ l.dir = k.dir /\ Len(l.path) = Len(to) + (Len(k.path) - Len(from))
      /\ \A i \in 1..(Len(k.path) - Len(from)) : l.path[Len(to) + i] = k.path[Len(from) + i]
      /\ Seqs!IsPrefix(to, l.path) /\ l.path \in PathSet
  <2>1. /\ l \in Key /\ l.dir = k.dir /\ Len(l.path) = Len(to) + (Len(k.path) - Len(from))
        /\ \A i \in 1..(Len(k.path) - Len(from)) : l.path[Len(to) + i] = k.path[Len(from) + i]
    BY <1>1, <1>3, RekeyedPath
  <2>2. Seqs!IsPrefix(to, l.path)
    BY <1>1, <1>3, RekeyedUnder
  <2> QED BY <2>1, <2>2, KeyFields
<1>5. /\ b \in Key /\ b.dir = k.dir /\ Len(b.path) = Len(k.path) /\ b.path \in PathSet
      /\ \A i \in 1..Len(from) : b.path[i] = from[i]
      /\ \A i \in 1..(Len(k.path) - Len(from)) : b.path[Len(from) + i] = l.path[Len(to) + i]
  <2>1. Len(l.path) - Len(to) = Len(k.path) - Len(from)
    BY <1>3, <1>4
  <2>2. /\ b \in Key /\ b.dir = l.dir /\ Len(b.path) = Len(from) + (Len(l.path) - Len(to))
        /\ \A i \in 1..Len(from) : b.path[i] = from[i]
        /\ \A i \in 1..(Len(l.path) - Len(to)) : b.path[Len(from) + i] = l.path[Len(to) + i]
    BY <1>2, <1>4, RekeyedPath
  <2>3. Len(b.path) = Len(k.path)
    BY <1>3, <2>1, <2>2
  <2> QED BY <1>4, <2>1, <2>2, <2>3, KeyFields
<1>6. ASSUME NEW i \in 1..Len(b.path) PROVE b.path[i] = k.path[i]
  <2>1. CASE i <= Len(from)
    BY <1>3, <1>5, <2>1
  <2>2. CASE i > Len(from)
    <3>1. PICK j \in 1..(Len(k.path) - Len(from)) : i = Len(from) + j
      <4>1. i - Len(from) \in 1..(Len(k.path) - Len(from)) /\ i = Len(from) + (i - Len(from))
        BY <1>3, <1>5, <2>2
      <4> QED BY <4>1
    <3> QED BY <1>4, <1>5, <3>1
  <2> QED BY <1>3, <2>1, <2>2
<1>7. b = k
  <2>1. b.path = k.path
    BY <1>3, <1>5, <1>6, SamePath
  <2> QED BY <1>5, <2>1, KeyFields
<1> QED BY <1>1, <1>2, <1>7

(* Re-keying under a renamed directory is undone by renaming back, and     *)
(* takes what starts with the one prefix to what starts with the other:    *)
(* the cut and join of rename (core/src/mem.rs, backend/src/lib.rs).       *)
THEOREM RenamingBackRestoresKeys ==
    ASSUME NEW k \in Key, NEW from \in PathSet \ {Root}, NEW to \in PathSet \ {Root}, StartsWith(k, from)
    PROVE  /\ StartsWith(Rekey(k, from, to), to)
           /\ Rekey(Rekey(k, from, to), to, from) = k
<1>1. PICK l : l = Rekey(k, from, to)
  OBVIOUS
<1>2. /\ k.path \in PathSet /\ Seqs!IsPrefix(from, k.path)
      /\ Len(from) \in Nat /\ Len(to) \in Nat /\ Len(k.path) \in Nat
      /\ \A i \in 1..Len(from) : from[i] = k.path[i]
  BY KeyFields, PrefixByName, StartsWithPrefix DEF PathSet
<1>3. /\ l.dir = k.dir /\ Len(l.path) = Len(to) + (Len(k.path) - Len(from))
      /\ Seqs!IsPrefix(to, l.path)
  BY <1>1, <1>2, RekeyedPath, RekeyedUnder
<1>4. StartsWith(l, to)
  <2>1. CASE l.path = to
    <3>1. Len(k.path) = Len(from)
      BY <1>2, <1>3, <2>1
    <3>2. k.path = from
      BY <1>2, <3>1, SamePath
    <3> QED BY <1>3, <3>2 DEF StartsWith
  <2> QED BY <1>3, <2>1 DEF StartsWith
<1> QED BY <1>1, <1>2, <1>4, RekeyInverse

(* path::parent and path::basename take apart what the volume's join puts  *)
(* together, and the other way round (core/src/path.rs).                   *)
THEOREM JoinTakesApart ==
    /\ \A p \in PathSet \ {Root} : Join(Parent(p), Basename(p)) = p
    /\ \A d \in PathSet, n \in Name : Parent(Join(d, n)) = d /\ Basename(Join(d, n)) = n
<1>1. ASSUME NEW p \in PathSet \ {Root} PROVE Join(Parent(p), Basename(p)) = p
  <2>1. /\ Parent(p) \in PathSet /\ Len(Parent(p)) = Len(p) - 1 /\ Len(p) \in Nat /\ Len(p) > 0
        /\ Basename(p) = p[Len(p)] /\ Basename(p) \in Name
        /\ \A i \in 1..(Len(p) - 1) : Parent(p)[i] = p[i]
    BY ParentPath, PrefixByName DEF PathSet, Basename, Root
  <2>2. PICK q : q = Join(Parent(p), Basename(p))
    OBVIOUS
  <2>3. /\ q \in PathSet /\ Len(q) = Len(p) /\ q[Len(p)] = p[Len(p)]
        /\ \A i \in 1..(Len(p) - 1) : q[i] = p[i]
    BY <2>1, <2>2, Joined
  <2>4. \A i \in 1..Len(q) : q[i] = p[i]
    BY <2>1, <2>3
  <2> QED BY <2>2, <2>3, <2>4, SamePath
<1>2. ASSUME NEW d \in PathSet, NEW n \in Name PROVE Parent(Join(d, n)) = d /\ Basename(Join(d, n)) = n
  <2>1. PICK q : q = Join(d, n)
    OBVIOUS
  <2>2. /\ q \in PathSet /\ q # Root /\ Len(q) = Len(d) + 1 /\ q[Len(d) + 1] = n /\ Len(d) \in Nat
        /\ \A i \in 1..Len(d) : q[i] = d[i]
    <3>1. Len(d) \in Nat
      BY DEF PathSet
    <3> QED BY <2>1, <3>1, Joined
  <2>3. Parent(q) = d
    <3>1. /\ Parent(q) \in PathSet /\ Len(Parent(q)) = Len(d)
          /\ \A i \in 1..Len(d) : Parent(q)[i] = q[i]
      BY <2>2, ParentPath, PrefixByName
    <3> QED BY <2>2, <3>1, SamePath
  <2>4. Basename(q) = n
    BY <2>2 DEF Basename
  <2> QED BY <2>1, <2>3, <2>4
<1> QED BY <1>1, <1>2
=============================================================================
