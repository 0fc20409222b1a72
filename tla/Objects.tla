------------------------------ MODULE Objects -------------------------------
(***************************************************************************)
(* The flat key-to-bytes map that is an object store, and what the storage *)
(* trait (core/src/lib.rs) says with it: requests, entries, results, and   *)
(* the byte-level splice and resize both backends share.                   *)
(***************************************************************************)
EXTENDS Path, Integers

CONSTANT Byte        \* the byte values that occur, zero among them

ASSUME ByteAssumption == 0 \in Byte

Bytes == Seq(Byte)

(* A store is a function from the keys that exist to their bytes. *)
IsStore(o) == DOMAIN o \subseteq Key /\ o \in [DOMAIN o -> Bytes]

Put(o, k, v) == [x \in DOMAIN o \cup {k} |-> IF x = k THEN v ELSE o[x]]

Drop(o, k) == [x \in DOMAIN o \ {k} |-> o[x]]

-----------------------------------------------------------------------------
(* Results: Ok of what the operation returns, or Err(StorageError). *)

Listing(entries) == [entries |-> entries]
Found(entry) == [entry |-> entry]
Contents(bytes) == [bytes |-> bytes]
Done == [done |-> TRUE]       \* Ok(()) of the mutating operations

Err(e) == [err |-> e]

IsOk(res) == "err" \notin DOMAIN res

NoReply == [none |-> TRUE]    \* no result yet, or it has been handed over

Entry(kind, size) == [kind |-> kind, size |-> size]

Errors == {"NotFound", "NotADirectory", "NotAFile", "AlreadyExists", "NotEmpty", "Backend", "panic"}

Results ==
    LET Entries == [kind : {"file", "dir"}, size : Nat]
    IN  [entries : SUBSET [name : Name, entry : Entries]] \cup [entry : Entries]
        \cup [bytes : Bytes] \cup {Done} \cup [err : Errors]

-----------------------------------------------------------------------------
(* What the map says of a path. *)

HasFile(o, p) == FileKey(p) \in DOMAIN o

(* is_prefix: some key is at or below "p/". *)
HasPrefix(o, p) == \E k \in DOMAIN o : StartsWith(k, p)

IsDir(o, p) == p = Root \/ HasPrefix(o, p)

(* The immediate children: the first component after the prefix is a file  *)
(* if nothing follows it and a directory if a slash does.                  *)
Children(o, p) ==
    {LET name == k.path[Len(p) + 1] IN
         IF k = FileKey(Join(p, name))
         THEN [name |-> name, entry |-> Entry("file", Len(o[k]))]
         ELSE [name |-> name, entry |-> Entry("dir", 0)] :
     k \in {k \in DOMAIN o : Below(k, p)}}

-----------------------------------------------------------------------------
(* The bytes of a file after a write at an offset, and after a resize: the *)
(* gap below the offset and the extension are zeroes.                      *)

MutantSplice(b, offset, data) ==               \* drops what follows the slice
    [i \in 1..(offset + Len(data)) |->
        IF i > offset THEN data[i - offset] ELSE IF i <= Len(b) THEN b[i] ELSE 0]

Splice(b, offset, data) ==
    LET end == offset + Len(data)
    IN  [i \in 1..(IF Len(b) < end THEN end ELSE Len(b)) |->
            IF offset < i /\ i <= end THEN data[i - offset]
            ELSE IF i <= Len(b) THEN b[i] ELSE 0]

Resize(b, len) == [i \in 1..len |-> IF i <= Len(b) THEN b[i] ELSE 0]

(* At most len bytes from the offset on; short at the end of the file. *)
Slice(b, offset, len) ==
    SubSeq(b, offset + 1, IF offset + len < Len(b) THEN offset + len ELSE Len(b))

-----------------------------------------------------------------------------
(* The requests of the trait, one record per operation and arguments. *)

ListReq(p) == [op |-> "list", path |-> p]
StatReq(p) == [op |-> "stat", path |-> p]
ReadReq(p, offset, len) == [op |-> "read", path |-> p, offset |-> offset, len |-> len]
CreateReq(p, kind) == [op |-> "create", path |-> p, kind |-> kind]
WriteReq(p, offset, data) == [op |-> "write", path |-> p, offset |-> offset, data |-> data]
TruncateReq(p, len) == [op |-> "truncate", path |-> p, len |-> len]
RemoveReq(p, kind) == [op |-> "remove", path |-> p, kind |-> kind]
RenameReq(from, to) == [op |-> "rename", path |-> from, to |-> to]

Requests ==
    LET Nodes == PathSet \ {Root}
    IN  [op : {"list", "stat"}, path : PathSet]
        \cup [op : {"read"}, path : Nodes, offset : Nat, len : Nat]
        \cup [op : {"create", "remove"}, path : Nodes, kind : {"file", "dir"}]
        \cup [op : {"write"}, path : Nodes, offset : Nat, data : Bytes]
        \cup [op : {"truncate"}, path : Nodes, len : Nat]
        \cup [op : {"rename"}, path : Nodes, to : Nodes]

(* External: what the kernel makes sure of before it asks.  It creates in   *)
(* and renames into directories, writes where no ancestor is a file, and   *)
(* renames a node onto nothing or onto a node of the same kind, neither    *)
(* being the other's ancestor.                                             *)
Admissible(o, r) ==
    LET clear(p) == \A i \in 1..(Len(p) - 1) : ~HasFile(o, SubSeq(p, 1, i))
        exists(p) == HasFile(o, p) \/ IsDir(o, p)
    IN  CASE r.op = "create" -> IsDir(o, Parent(r.path))
          [] r.op = "write"  -> clear(r.path)
          [] r.op = "rename" -> /\ IsDir(o, Parent(r.to))
                                /\ ~Related(r.path, r.to)
                                /\ exists(r.to) => (HasFile(o, r.path) <=> HasFile(o, r.to))
          [] OTHER -> TRUE

(* The paths a request works on. *)
Paths(r) == IF r.op = "rename" THEN {r.path, r.to} ELSE {r.path}
=============================================================================
