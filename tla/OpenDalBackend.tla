--------------------------- MODULE OpenDalBackend ---------------------------
(***************************************************************************)
(* backend/src/lib.rs: the storage trait over an OpenDAL operator.  A call *)
(* is a sequence of operator calls (HEAD, LIST, GET, PUT, COPY, DELETE on  *)
(* the bucket), each atomic at the service; nothing is locked between      *)
(* them, so other calls step in anywhere.  Each operator call may fail     *)
(* once its retries are used up, and a mutating one may fail with its      *)
(* effect applied or not; one whose answer is lost is made again.          *)
(***************************************************************************)
EXTENDS Objects

CONSTANTS Task,          \* the concurrent callers
          Request,       \* the requests they issue
          Seed,          \* the buckets the volume may be mounted on
          ServerCopy,    \* whether the service has a server-side copy
          Serial,        \* whether callers keep related paths apart
          MaxFaults      \* bound on the operator calls that fail or are made again

ASSUME RequestAssumption == Request \subseteq Requests /\ Request # {}
ASSUME SeedAssumption == \A o \in Seed : IsStore(o)
ASSUME SwitchAssumption == ServerCopy \in BOOLEAN /\ Serial \in BOOLEAN
ASSUME MaxFaultsAssumption == MaxFaults \in Nat

VARIABLES bucket,        \* the objects at the service
          pc,            \* per task: the operator call it is about to make
          req,           \* per task: its request
          reply,         \* per task: the result of its call, until it is handed over
          buf,           \* per task: `buf`, the object's bytes in memory
          size,          \* per task: `size` of read, from its stat
          todo,          \* per task: the keys a rename has yet to move
          blind,         \* (history) the paths stored at although the stat failed
          faults         \* how many operator calls have failed

locals == <<buf, size, todo>>
tally == <<blind, faults>>
vars == <<bucket, pc, req, reply, locals, tally>>

(* The operator call a task may be about to make. *)
Calls == {"head", "list", "get", "range", "walk", "put", "delete", "copy", "place", "unlink"}

(* What stands in req for the request of a task that has none. *)
NoRequest == CHOOSE r \in Request : TRUE

TypeOK ==
    /\ IsStore(bucket)
    /\ pc \in [Task -> {"idle", "done"} \cup Calls]
    /\ req \in [Task -> Request]
    /\ reply \in [Task -> Results \cup {NoReply}]
    /\ \A t \in Task : pc[t] = "done" <=> reply[t] # NoReply
    /\ buf \in [Task -> Bytes]
    /\ size \in [Task -> Nat]
    /\ todo \in [Task -> SUBSET Key]
    /\ blind \subseteq PathSet
    /\ faults \in 0..MaxFaults

Init ==
    /\ bucket \in Seed
    /\ pc = [t \in Task |-> "idle"]
    /\ req = [t \in Task |-> NoRequest]
    /\ reply = [t \in Task |-> NoReply]
    /\ buf = [t \in Task |-> <<>>]
    /\ size = [t \in Task |-> 0]
    /\ todo = [t \in Task |-> {}]
    /\ blind = {}
    /\ faults = 0

-----------------------------------------------------------------------------
(* Where a call goes next. *)

Goto(t, call) ==
    /\ pc' = [pc EXCEPT ![t] = call]
    /\ UNCHANGED <<req, reply>>

Answer(t, res) ==
    /\ pc' = [pc EXCEPT ![t] = "done"]
    /\ reply' = [reply EXCEPT ![t] = res]
    /\ UNCHANGED <<req, locals>>

Refuse(t, e) == Answer(t, Err(e))

(* Go and store these bytes at the request's path. *)
Store(t, bytes) ==
    /\ Goto(t, "put")
    /\ buf' = [buf EXCEPT ![t] = bytes]
    /\ UNCHANGED <<size, todo>>

MutantAfterStat(t, res) ==                     \* what the stat found is not looked at
    LET r == req[t] IN
    CASE r.op = "stat"   -> Answer(t, res)
      [] r.op = "create" -> Store(t, <<>>)
      [] r.op = "write"  -> Store(t, Splice(<<>>, r.offset, r.data))

(* What create and write do with the result of self.stat: only Ok means    *)
(* that something is there, every error is taken for absence.              *)
AfterStat(t, res) ==
    LET r == req[t] IN
    CASE r.op = "stat"   -> Answer(t, res)
      [] r.op = "create" -> IF IsOk(res) THEN Refuse(t, "AlreadyExists") ELSE Store(t, <<>>)
      [] r.op = "write"  -> IF IsOk(res) /\ res.entry.kind = "dir" THEN Refuse(t, "NotAFile")
                            ELSE Store(t, Splice(<<>>, r.offset, r.data))

(* The call is one self.stat makes on behalf of create or write. *)
SelfStat(t) == pc[t] \in {"head", "list"} /\ req[t].op \in {"create", "write"}

(* One more of the operator calls that fail. *)
Fault == faults < MaxFaults /\ faults' = faults + 1

MutantAfterFailure(t) ==                       \* the error is never handed over
    /\ pc' = [pc EXCEPT ![t] = "idle"]
    /\ UNCHANGED <<req, reply, locals>>

(* A failed operator call ends the request with its error, but for the     *)
(* calls self.stat makes on behalf of create and write.                    *)
AfterFailure(t) ==
    IF SelfStat(t)
    THEN AfterStat(t, Err("Backend"))
    ELSE Refuse(t, "Backend")

(* The operator call fails for good; `applied` is the bucket had it worked. *)
Fails(t, applied) ==
    /\ Fault
    /\ blind' = IF SelfStat(t) THEN blind \cup {req[t].path} ELSE blind
    /\ bucket' \in {bucket, applied}
    /\ AfterFailure(t)

Reads(t, call) ==
    /\ pc[t] = call
    /\ UNCHANGED <<bucket, tally>>

-----------------------------------------------------------------------------
(* Starting a request, and handing its result to the caller. *)

FirstCall(r) ==
    CASE r.op = "list" \/ (r.op = "remove" /\ r.kind = "dir") -> "list"
      [] r.op \in {"write", "truncate"} -> "get"
      [] OTHER -> "head"

(* Requests answered without asking the service. *)
Immediate(r) == (r.op = "stat" /\ r.path = Root) \/ (r.op = "read" /\ r.len = 0)

(* Callers that keep related paths apart do not start on a path while a    *)
(* call on it, above it or below it is under way.                          *)
Apart(t, r) ==
    \A u \in Task \ {t} : pc[u] # "idle" =>
        \A p \in Paths(r), q \in Paths(req[u]) : ~Related(p, q)

Start(t, r) ==
    /\ pc[t] = "idle"
    /\ Admissible(bucket, r)
    /\ Serial => Apart(t, r)
    /\ req' = [req EXCEPT ![t] = r]
    /\ IF Immediate(r)
       THEN /\ pc' = [pc EXCEPT ![t] = "done"]
            /\ reply' = [reply EXCEPT ![t] = IF r.op = "stat" THEN Found(Entry("dir", 0))
                                             ELSE Contents(<<>>)]
       ELSE /\ pc' = [pc EXCEPT ![t] = FirstCall(r)]
            /\ UNCHANGED reply
    /\ UNCHANGED <<bucket, locals, tally>>

MutantReturn(t) ==                             \* the result outlives the call
    /\ pc[t] = "done"
    /\ Goto(t, "idle")
    /\ UNCHANGED <<bucket, locals, tally>>

Return(t) ==
    /\ pc[t] = "done"
    /\ pc' = [pc EXCEPT ![t] = "idle"]
    /\ req' = [req EXCEPT ![t] = NoRequest]
    /\ reply' = [reply EXCEPT ![t] = NoReply]
    /\ buf' = [buf EXCEPT ![t] = <<>>]
    /\ size' = [size EXCEPT ![t] = 0]
    /\ todo' = [todo EXCEPT ![t] = {}]
    /\ UNCHANGED <<bucket, tally>>

-----------------------------------------------------------------------------
(* op.stat(file_key): an object is there or not.  Each operation goes its  *)
(* own way from the answer.                                                *)

MutantStatHead(t) ==                           \* create does not look for a directory
    /\ Reads(t, "head") /\ req[t].op \in {"stat", "create", "write"}
    /\ LET k == FileKey(req[t].path) IN
       IF k \in DOMAIN bucket THEN AfterStat(t, Found(Entry("file", Len(bucket[k]))))
       ELSE IF req[t].op = "create" THEN Store(t, <<>>) ELSE Goto(t, "list") /\ UNCHANGED locals

StatHead(t) ==
    /\ Reads(t, "head") /\ req[t].op \in {"stat", "create", "write"}
    /\ LET k == FileKey(req[t].path) IN
       \/ k \in DOMAIN bucket /\ AfterStat(t, Found(Entry("file", Len(bucket[k]))))
       \/ k \notin DOMAIN bucket /\ Goto(t, "list") /\ UNCHANGED locals

ReadHead(t) ==
    /\ Reads(t, "head") /\ req[t].op = "read"
    /\ LET k == FileKey(req[t].path) IN
       \/ k \notin DOMAIN bucket /\ Refuse(t, "NotFound")
       \/ /\ k \in DOMAIN bucket /\ req[t].offset >= Len(bucket[k])
          /\ Answer(t, Contents(<<>>))
       \/ /\ k \in DOMAIN bucket /\ req[t].offset < Len(bucket[k])
          /\ size' = [size EXCEPT ![t] = Len(bucket[k])]
          /\ Goto(t, "range") /\ UNCHANGED <<buf, todo>>

RemoveHead(t) ==
    /\ Reads(t, "head") /\ req[t].op = "remove"
    /\ \/ HasFile(bucket, req[t].path) /\ Goto(t, "delete") /\ UNCHANGED locals
       \/ ~HasFile(bucket, req[t].path) /\ Refuse(t, "NotFound")

RenameHead(t) ==
    /\ Reads(t, "head") /\ req[t].op = "rename"
    /\ LET k == FileKey(req[t].path) IN
       \/ /\ k \in DOMAIN bucket
          /\ todo' = [todo EXCEPT ![t] = {k}]
          /\ Goto(t, "copy") /\ UNCHANGED <<buf, size>>
       \/ k \notin DOMAIN bucket /\ Goto(t, "walk") /\ UNCHANGED locals

(* self.list(path), for list itself, for self.stat and for the rmdir check. *)
ListCall(t) ==
    /\ Reads(t, "list")
    /\ LET p == req[t].path
           res == IF IsDir(bucket, p) THEN Listing(Children(bucket, p)) ELSE Err("NotFound")
       IN  CASE req[t].op = "list" -> Answer(t, res)
             [] req[t].op = "remove" ->
                    IF IsOk(res) /\ res.entries = {} THEN Goto(t, "delete") /\ UNCHANGED locals
                    ELSE Answer(t, IF IsOk(res) THEN Err("NotEmpty") ELSE res)
             [] OTHER -> AfterStat(t, IF IsOk(res) THEN Found(Entry("dir", 0)) ELSE res)

(* The ranged GET of read.  The range was clamped to the size seen by the  *)
(* stat; OpenDAL panics on a range that ends beyond the object.            *)
RangeCall(t) ==
    /\ Reads(t, "range")
    /\ LET k == FileKey(req[t].path)
           end == IF req[t].offset + req[t].len < size[t]
                  THEN req[t].offset + req[t].len ELSE size[t]
       IN  Answer(t, IF k \notin DOMAIN bucket THEN Err("NotFound")
                     ELSE IF end > Len(bucket[k]) THEN Err("panic")
                     ELSE Contents(SubSeq(bucket[k], req[t].offset + 1, end)))

(* The whole-object GET of write and truncate. *)
WriteGet(t) ==
    /\ Reads(t, "get") /\ req[t].op = "write"
    /\ LET k == FileKey(req[t].path) IN
       \/ k \in DOMAIN bucket /\ Store(t, Splice(bucket[k], req[t].offset, req[t].data))
       \/ k \notin DOMAIN bucket /\ Goto(t, "head") /\ UNCHANGED locals

MutantTruncateGet(t) ==                        \* truncating a missing file creates it
    /\ Reads(t, "get") /\ req[t].op = "truncate"
    /\ LET k == FileKey(req[t].path) IN
       Store(t, Resize(IF k \in DOMAIN bucket THEN bucket[k] ELSE <<>>, req[t].len))

TruncateGet(t) ==
    /\ Reads(t, "get") /\ req[t].op = "truncate"
    /\ LET k == FileKey(req[t].path) IN
       \/ k \in DOMAIN bucket /\ Store(t, Resize(bucket[k], req[t].len))
       \/ k \notin DOMAIN bucket /\ Refuse(t, "NotFound")

(* Any of these calls, and the recursive LIST of rename, may fail. *)
ReadFails(t) ==
    /\ pc[t] \in {"head", "list", "get", "range", "walk"}
    /\ Fails(t, bucket)

-----------------------------------------------------------------------------
(* The mutating operator calls. *)

(* The key a request creates, stores or deletes. *)
Target(r) == [path |-> r.path, dir |-> r.op \in {"create", "remove"} /\ r.kind = "dir"]

PutCall(t) ==
    /\ pc[t] = "put"
    /\ LET applied == Put(bucket, Target(req[t]), buf[t]) IN
       \/ bucket' = applied /\ Answer(t, Done) /\ UNCHANGED tally
       \/ Fails(t, applied)

(* DELETE is idempotent: a key that is gone is no error. *)
DeleteCall(t) ==
    /\ pc[t] = "delete"
    /\ LET applied == Drop(bucket, Target(req[t])) IN
       \/ bucket' = applied /\ Answer(t, Done) /\ UNCHANGED tally
       \/ Fails(t, applied)

-----------------------------------------------------------------------------
(* Rename: every key to move is copied, then deleted.  For a file that is  *)
(* the one object; for a directory, what the recursive list found below    *)
(* it, without the marker of the directory itself.                         *)

WalkCall(t) ==
    /\ Reads(t, "walk")
    /\ LET ks == {k \in DOMAIN bucket : Below(k, req[t].path)} IN
       \/ ks = {} /\ Refuse(t, "NotFound")
       \/ /\ ks # {}
          /\ todo' = [todo EXCEPT ![t] = ks]
          /\ Goto(t, "copy") /\ UNCHANGED <<buf, size>>

(* The key the loop is at, in an order the service fixes, and its target. *)
Source(t) == CHOOSE k \in todo[t] : TRUE

Destination(t) == Rekey(Source(t), req[t].path, req[t].to)

Copied(t, bytes) == Put(bucket, Destination(t), bytes)

(* A marker is created, a file copied if it is still there. *)
CopyOf(t) ==
    IF Source(t).dir THEN Copied(t, <<>>)
    ELSE IF Source(t) \in DOMAIN bucket THEN Copied(t, bucket[Source(t)]) ELSE bucket

MutantCopyCall(t) ==                           \* the error of the copy is dropped
    /\ pc[t] = "copy" /\ (Source(t).dir \/ ServerCopy)
    /\ \/ bucket' = CopyOf(t) /\ UNCHANGED tally
       \/ Fault /\ bucket' \in {bucket, CopyOf(t)} /\ UNCHANGED blind
    /\ Goto(t, "unlink") /\ UNCHANGED locals

(* create_dir for a marker, copy_object for a file. *)
CopyCall(t) ==
    /\ pc[t] = "copy" /\ (Source(t).dir \/ ServerCopy)
    /\ LET missing == ~Source(t).dir /\ Source(t) \notin DOMAIN bucket
           applied == CopyOf(t)
       IN  \/ missing /\ Refuse(t, "NotFound") /\ UNCHANGED <<bucket, tally>>
           \/ ~missing /\ bucket' = applied /\ Goto(t, "unlink") /\ UNCHANGED <<locals, tally>>
           \/ Fails(t, applied)

(* copy_object without a server-side copy: read the source, write the copy. *)
FetchCall(t) ==
    /\ pc[t] = "copy" /\ ~Source(t).dir /\ ~ServerCopy
    /\ \/ /\ Source(t) \in DOMAIN bucket
          /\ buf' = [buf EXCEPT ![t] = bucket[Source(t)]]
          /\ Goto(t, "place") /\ UNCHANGED <<bucket, size, todo, tally>>
       \/ /\ Source(t) \notin DOMAIN bucket
          /\ Refuse(t, "NotFound") /\ UNCHANGED <<bucket, tally>>
       \/ Fails(t, bucket)

MutantPlaceCall(t) ==                          \* the error of the write is dropped
    /\ pc[t] = "place"
    /\ \/ bucket' = Copied(t, buf[t]) /\ UNCHANGED tally
       \/ Fault /\ bucket' \in {bucket, Copied(t, buf[t])} /\ UNCHANGED blind
    /\ Goto(t, "unlink") /\ UNCHANGED locals

PlaceCall(t) ==
    /\ pc[t] = "place"
    /\ \/ /\ bucket' = Copied(t, buf[t])
          /\ Goto(t, "unlink") /\ UNCHANGED <<locals, tally>>
       \/ Fails(t, Copied(t, buf[t]))

MutantUnlinkCall(t) ==                         \* the error of the delete is dropped
    /\ pc[t] = "unlink"
    /\ \/ bucket' = Drop(bucket, Source(t)) /\ UNCHANGED tally
       \/ Fault /\ UNCHANGED <<bucket, blind>>
    /\ LET rest == todo[t] \ {Source(t)} IN
       \/ rest = {} /\ Answer(t, Done)
       \/ /\ rest # {} /\ todo' = [todo EXCEPT ![t] = rest]
          /\ Goto(t, "copy") /\ UNCHANGED <<buf, size>>

MutantUnlinkCallLists(t) ==                    \* each key is found by listing anew
    /\ pc[t] = "unlink"
    /\ \/ bucket' = Drop(bucket, Source(t)) /\ Goto(t, "walk") /\ UNCHANGED <<locals, tally>>
       \/ Fails(t, Drop(bucket, Source(t)))

UnlinkCall(t) ==
    /\ pc[t] = "unlink"
    /\ LET applied == Drop(bucket, Source(t))
           rest == todo[t] \ {Source(t)}
       IN  \/ /\ bucket' = applied
              /\ rest # {}
              /\ todo' = [todo EXCEPT ![t] = rest]
              /\ Goto(t, "copy") /\ UNCHANGED <<buf, size, tally>>
           \/ bucket' = applied /\ rest = {} /\ Answer(t, Done) /\ UNCHANGED tally
           \/ Fails(t, applied)

-----------------------------------------------------------------------------
(* The bucket after the mutating operator call the task is about to make. *)
Applied(t) ==
    CASE pc[t] = "put"    -> Put(bucket, Target(req[t]), buf[t])
      [] pc[t] = "delete" -> Drop(bucket, Target(req[t]))
      [] pc[t] = "copy"   -> CopyOf(t)
      [] pc[t] = "place"  -> Copied(t, buf[t])
      [] pc[t] = "unlink" -> Drop(bucket, Source(t))

(* A mutating call is applied, its answer is lost in a way OpenDAL takes   *)
(* for temporary, and the retry layer makes the call once more.            *)
Repeat(t) ==
    /\ pc[t] \in {"put", "delete", "copy", "place", "unlink"}
    /\ pc[t] = "copy" => Source(t).dir \/ ServerCopy
    /\ Fault
    /\ bucket' = Applied(t)
    /\ UNCHANGED <<pc, req, reply, locals, blind>>

-----------------------------------------------------------------------------
Operate(t) ==
    \/ StatHead(t) \/ ReadHead(t) \/ RemoveHead(t) \/ RenameHead(t)
    \/ ListCall(t) \/ RangeCall(t) \/ WriteGet(t) \/ TruncateGet(t) \/ ReadFails(t)
    \/ PutCall(t) \/ DeleteCall(t)
    \/ WalkCall(t) \/ CopyCall(t) \/ FetchCall(t) \/ PlaceCall(t) \/ UnlinkCall(t)
    \/ Repeat(t)

Next == \E t \in Task : (\E r \in Request : Start(t, r)) \/ Operate(t) \/ Return(t)

Spec == Init /\ [][Next]_vars

(* block_on drives a call it has started to its end; the retries of each   *)
(* operator call are bounded, so each call answers or fails.               *)
FairSpec == Spec /\ \A t \in Task : WF_vars(Operate(t))

-----------------------------------------------------------------------------
(* Properties. *)

Finished(t, op) == pc[t] = "done" /\ req[t].op = op

(* No path is a file and a directory at once, unless a create or a write   *)
(* stored there although its own stat had failed.  The checks that keep it *)
(* so (create's and write's stat, rename's) are made some calls before the *)
(* put or copy that relies on them, and the put may be made twice.         *)
NoShadow ==
    \A k \in DOMAIN bucket : ~k.dir /\ HasPrefix(bucket, k.path) => k.path \in blind

(* A create puts nothing over what another call has stored, unless its own *)
(* stat has failed: an answered stat, and only that, is what keeps a file  *)
(* from being emptied by O_CREAT, through failures and repeated puts       *)
(* ("Refuse to clobber anything already at this path", backend/src/lib.rs, *)
(* where any failure of the stat counts as absence).                       *)
OnlyBlindCreatesClobber ==
    [][\A t \in Task : pc[t] = "put" /\ req[t].op = "create" =>
         LET k == Target(req[t])
         IN  k \in DOMAIN bucket \cap DOMAIN bucket' /\ bucket'[k] # bucket[k]
             => req[t].path \in blind]_vars

(* No operator call of a rename takes a file's bytes away before they are  *)
(* at the key they move to, however calls fail on the way: copy, then      *)
(* delete.                                                                 *)
RenameKeepsBytes ==
    [][\A k \in DOMAIN bucket \ DOMAIN bucket' : ~k.dir =>
         \A t \in Task : req[t].op = "rename" /\ pc'[t] # pc[t] =>
             LET k2 == Rekey(k, req[t].path, req[t].to)
             IN  k2 \in DOMAIN bucket' /\ bucket'[k2] = bucket[k]]_vars

(* A rename that answers Ok has left no file at its source path or below   *)
(* it, also when it resumes what earlier attempts that failed left half    *)
(* moved.                                                                  *)
RenameOkMovesAll ==
    \A t \in Task : Finished(t, "rename") /\ reply[t] = Done =>
        \A k \in DOMAIN bucket : k.path = req[t].path \/ Below(k, req[t].path) => k.dir

(* Every call a caller makes comes back: the loop over a directory ends    *)
(* and no sequence of failures leaves a call waiting.                      *)
EveryCallReturns == \A t \in Task : pc[t] \in Calls ~> pc[t] = "done"

(* The order in which a call makes its operator calls, up to the loop of a *)
(* rename, which goes from its last one back to its first.                 *)
Stage(call) ==
    CASE call = "get" -> 0
      [] call = "head" -> 1
      [] call \in {"list", "walk"} -> 2
      [] call \in {"range", "put", "delete", "copy"} -> 3
      [] call = "place" -> 4
      [] call = "unlink" -> 5

GetsOn(t) ==
    \/ pc'[t] = "done"
    \/ /\ pc'[t] \in Calls /\ Stage(pc[t]) < Stage(pc'[t])
       /\ pc[t] \in {"copy", "place"} => todo'[t] = todo[t]
    \/ /\ pc[t] = "unlink" /\ pc'[t] = "copy"
       /\ \E k \in todo[t] : todo'[t] = todo[t] \ {k}

(* A call goes on to a later operator call, or takes a key off the list    *)
(* its rename has read once, or answers; only a repeated call stands       *)
(* still, and it uses up a failure.  So no call runs on because others     *)
(* keep adding to the directory it moves.                                  *)
CallsGetOn ==
    [][ /\ \A t \in Task : pc[t] \in Calls => GetsOn(t) \/ UNCHANGED <<pc[t], todo[t]>>
        /\ pc' = pc => faults' = faults + 1 ]_vars

(* Every file that was there at mount time still has its bytes somewhere,  *)
(* where callers only rename, to targets that differ: copy-then-delete is  *)
(* "correct and simple" (core/src/lib.rs).  The order of the two calls     *)
(* keeps it so while renames of overlapping trees race, unless one moves   *)
(* back what the other is moving.                                          *)
SeededBytesSurvive ==
    \A b \in {<<1>>, <<2>>} : \E k \in DOMAIN bucket : bucket[k] = b

(* The bytes b move on: the keys of `home` are those a file holding b can  *)
(* be at, every rename takes such a key to one of higher rank and no other *)
(* key to one of them, and no other operation stores at or deletes one.    *)
Onward(home, rank, b) ==
    /\ home \subseteq Key /\ rank \in [home -> Nat]
    /\ \A k \in home : ~k.dir
    /\ \A o \in Seed : home \cap DOMAIN o # {} /\ \A k \in home \cap DOMAIN o : o[k] = b
    /\ \A r \in Request, k \in home :
         /\ r.op = "rename" /\ Seqs!IsPrefix(r.path, k.path) =>
                LET l == Rekey(k, r.path, r.to) IN l \in home /\ rank[l] > rank[k]
         /\ r.op = "rename" /\ Seqs!IsPrefix(r.to, k.path) => Rekey(k, r.to, r.path) \in home
         /\ r.op \in {"create", "write", "truncate", "remove"} => k # Target(r)

-----------------------------------------------------------------------------
(* What docs, comments and tests say of the backend. *)

(* core/src/lib.rs, write: "The whole slice is written on success."        *)
WrittenSliceStands ==
    \A t \in Task : Finished(t, "write") /\ reply[t] = Done =>
        LET r == req[t] IN
        /\ HasFile(bucket, r.path)
        /\ Slice(bucket[FileKey(r.path)], r.offset, Len(r.data)) = r.data
=============================================================================
