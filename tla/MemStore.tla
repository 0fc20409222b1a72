------------------------------ MODULE MemStore ------------------------------
(***************************************************************************)
(* core/src/mem.rs: InMemoryBackend.  A call takes the lock, does all of   *)
(* its work on the map, and releases the lock; concurrent calls interleave *)
(* only around that.  It is both a component and, because each operation   *)
(* is one step, the reference the OpenDAL backend is compared with.        *)
(***************************************************************************)
EXTENDS Objects

CONSTANTS Task,          \* the concurrent callers
          Request,       \* the requests they issue
          Seed           \* the maps the store may be seeded with

ASSUME RequestAssumption == Request \subseteq Requests /\ Request # {}
ASSUME SeedAssumption == \A o \in Seed : IsStore(o)

VARIABLES objects,       \* RwLock<BTreeMap<String, Vec<u8>>>
          phase,         \* per task: "idle", "called" or "applied"
          req,           \* per task: its request
          reply          \* per task: the result of its call

vars == <<objects, phase, req, reply>>

(* What stands in req for the request of a task that has none. *)
NoRequest == CHOOSE r \in Request : TRUE

TypeOK ==
    /\ IsStore(objects)
    /\ phase \in [Task -> {"idle", "called", "applied"}]
    /\ req \in [Task -> Request]
    /\ reply \in [Task -> Results \cup {NoReply}]
    /\ \A t \in Task : phase[t] = "applied" <=> reply[t] # NoReply

Init ==
    /\ objects \in Seed
    /\ phase = [t \in Task |-> "idle"]
    /\ req = [t \in Task |-> NoRequest]
    /\ reply = [t \in Task |-> NoReply]

-----------------------------------------------------------------------------
Invoke(t, r) ==
    /\ phase[t] = "idle"
    /\ phase' = [phase EXCEPT ![t] = "called"]
    /\ req' = [req EXCEPT ![t] = r]
    /\ UNCHANGED <<objects, reply>>

(* The call of t is under way and is for this operation. *)
Calling(t, op) == phase[t] = "called" /\ req[t].op = op

(* Leave the critical section with a result and the map as given. *)
Apply(t, o, res) ==
    /\ objects' = o
    /\ reply' = [reply EXCEPT ![t] = res]
    /\ phase' = [phase EXCEPT ![t] = "applied"]
    /\ UNCHANGED req

Refuse(t, e) == Apply(t, objects, Err(e))

List(t) ==
    /\ Calling(t, "list")
    /\ LET p == req[t].path IN
       \/ IsDir(objects, p) /\ Apply(t, objects, Listing(Children(objects, p)))
       \/ ~IsDir(objects, p) /\ Refuse(t, IF HasFile(objects, p) THEN "NotADirectory"
                                                                 ELSE "NotFound")

MutantStatAnswer(o, p) ==                      \* looks for the prefix first
    IF IsDir(o, p) THEN Found(Entry("dir", 0))
    ELSE IF HasFile(o, p) THEN Found(Entry("file", Len(o[FileKey(p)])))
    ELSE Err("NotFound")

(* What stat answers: the object at the key, else the prefix. *)
StatAnswer(o, p) ==
    IF p # Root /\ HasFile(o, p) THEN Found(Entry("file", Len(o[FileKey(p)])))
    ELSE IF IsDir(o, p) THEN Found(Entry("dir", 0))
    ELSE Err("NotFound")

Stat(t) == Calling(t, "stat") /\ Apply(t, objects, StatAnswer(objects, req[t].path))

Read(t) ==
    /\ Calling(t, "read")
    /\ LET r == req[t] IN
       IF HasFile(objects, r.path)
       THEN Apply(t, objects, Contents(Slice(objects[FileKey(r.path)], r.offset, r.len)))
       ELSE Refuse(t, IF HasPrefix(objects, r.path) THEN "NotAFile" ELSE "NotFound")

Create(t) ==
    /\ Calling(t, "create")
    /\ LET r == req[t] IN
       IF HasFile(objects, r.path) \/ HasPrefix(objects, r.path)
       THEN Refuse(t, "AlreadyExists")
       ELSE Apply(t, Put(objects, [path |-> r.path, dir |-> r.kind = "dir"], <<>>), Done)

Write(t) ==
    /\ Calling(t, "write")
    /\ LET r == req[t]
           base == IF HasFile(objects, r.path) THEN objects[FileKey(r.path)] ELSE <<>>
       IN  IF ~HasFile(objects, r.path) /\ HasPrefix(objects, r.path)
           THEN Refuse(t, "NotAFile")
           ELSE Apply(t, Put(objects, FileKey(r.path), Splice(base, r.offset, r.data)), Done)

Truncate(t) ==
    /\ Calling(t, "truncate")
    /\ LET k == FileKey(req[t].path) IN
       IF k \notin DOMAIN objects THEN Refuse(t, "NotFound")
       ELSE Apply(t, Put(objects, k, Resize(objects[k], req[t].len)), Done)

Remove(t) ==
    /\ Calling(t, "remove")
    /\ LET r == req[t]
           k == [path |-> r.path, dir |-> r.kind = "dir"]
       IN  IF r.kind = "dir" /\ \E x \in DOMAIN objects : Below(x, r.path)
           THEN Refuse(t, "NotEmpty")
           ELSE IF k \notin DOMAIN objects THEN Refuse(t, "NotFound")
                                           ELSE Apply(t, Drop(objects, k), Done)

(* The map with a set of keys moved from under one path to under another.  *)
(* A destination that exists is replaced.                                  *)
Moved(o, ks, from, to) ==
    LET target == [k \in ks |-> Rekey(k, from, to)]
    IN  [x \in (DOMAIN o \ ks) \cup {target[k] : k \in ks} |->
            IF \E k \in ks : target[k] = x THEN o[CHOOSE k \in ks : target[k] = x] ELSE o[x]]

MutantRename(t) ==                             \* leaves the markers behind
    /\ Calling(t, "rename")
    /\ LET r == req[t]
           ks == {k \in DOMAIN objects : StartsWith(k, r.path) /\ ~k.dir}
       IN  IF ks = {} THEN Refuse(t, "NotFound")
           ELSE Apply(t, Moved(objects, ks, r.path, r.to), Done)

Rename(t) ==
    /\ Calling(t, "rename")
    /\ LET r == req[t]
           ks == IF HasFile(objects, r.path) THEN {FileKey(r.path)}
                 ELSE {k \in DOMAIN objects : StartsWith(k, r.path)}
       IN  IF ks = {} THEN Refuse(t, "NotFound")
           ELSE Apply(t, Moved(objects, ks, r.path, r.to), Done)

MutantReturn(t) ==                             \* the result is left behind
    /\ phase[t] = "applied"
    /\ phase' = [phase EXCEPT ![t] = "idle"]
    /\ UNCHANGED <<objects, req, reply>>

Return(t) ==
    /\ phase[t] = "applied"
    /\ phase' = [phase EXCEPT ![t] = "idle"]
    /\ req' = [req EXCEPT ![t] = NoRequest]
    /\ reply' = [reply EXCEPT ![t] = NoReply]
    /\ UNCHANGED objects

-----------------------------------------------------------------------------
Operate(t) ==
    \/ List(t) \/ Stat(t) \/ Read(t) \/ Create(t)
    \/ Write(t) \/ Truncate(t) \/ Remove(t) \/ Rename(t)

Next == \E t \in Task : (\E r \in Request : Invoke(t, r)) \/ Operate(t) \/ Return(t)

Spec == Init /\ [][Next]_vars

-----------------------------------------------------------------------------
(* Properties. *)

(* Some keys make the path a file and others a directory. *)
Shadow(o, p) == HasFile(o, p) /\ HasPrefix(o, p)

(* A directory lists a name exactly when stat answers for it, once, with   *)
(* the kind and the size that stat answers.  The two are separate scans of *)
(* the keys.  With one exception: where a path is a file and a directory   *)
(* it is listed as both, and stat answers the file.                        *)
ListingMatchesStat ==
    \A p \in {Root} \cup {Parent(k.path) : k \in DOMAIN objects} : \A n \in Name :
        LET listed == {x.entry : x \in {y \in Children(objects, p) : y.name = n}}
            answer == StatAnswer(objects, Join(p, n))
        IN  listed = CASE ~IsOk(answer)                -> {}
                       [] Shadow(objects, Join(p, n))  -> {answer.entry, Entry("dir", 0)}
                       [] OTHER                        -> {answer.entry}

Applying(t, op) == phase[t] = "called" /\ phase'[t] = "applied" /\ req[t].op = op

(* After a write that answers Ok the file holds the slice at its offset,   *)
(* the bytes around it are as before, and a gap before it is zeroes.       *)
WriteIsInPlace ==
    [][\A t \in Task : Applying(t, "write") /\ reply'[t] = Done =>
         LET r == req[t]
             k == FileKey(r.path)
             old == IF k \in DOMAIN objects THEN objects[k] ELSE <<>>
             new == objects'[k]
         IN  /\ Slice(new, r.offset, Len(r.data)) = r.data
             /\ Len(new) >= Len(old)
             /\ \A i \in 1..Len(old) : i <= r.offset \/ i > r.offset + Len(r.data) => new[i] = old[i]
             /\ \A i \in (Len(old) + 1)..r.offset : new[i] = 0]_vars

(* A rename that answers Ok moves the file, or the directory with all that *)
(* is in it, markers of empty directories included, and nothing else.      *)
RenameMovesTree ==
    [][\A t \in Task : Applying(t, "rename") /\ reply'[t] = Done =>
         LET r == req[t]
             file == HasFile(objects, r.path)
             moves(k) == IF file THEN k = FileKey(r.path) ELSE StartsWith(k, r.path)
         IN  \A k \in DOMAIN objects :
                 IF moves(k) THEN /\ k \notin DOMAIN objects'
                                  /\ Rekey(k, r.path, r.to) \in DOMAIN objects'
                                  /\ objects'[Rekey(k, r.path, r.to)] = objects[k]
                 ELSE StartsWith(k, r.to) \/ k = FileKey(r.to)
                      \/ (k \in DOMAIN objects' /\ objects'[k] = objects[k])]_vars
=============================================================================
