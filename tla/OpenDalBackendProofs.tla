------------------------ MODULE OpenDalBackendProofs ------------------------
(***************************************************************************)
(* What the S3 backend does, for any callers, requests and buckets, with   *)
(* and without a server-side copy, however many operator calls fail; and   *)
(* that it implements the in-memory backend when none fails.               *)
(***************************************************************************)
EXTENDS BackendRefinesMem, ObjectsProofs, FiniteSetTheorems

(* A call is where its operation's code can be, and the loop of a rename   *)
(* is over keys at or below its path.                                      *)
OnCourse ==
    \A t \in Task :
      /\ pc[t] = "list" => req[t].op \in {"list", "stat", "create", "write", "remove"}
      /\ pc[t] = "range" => req[t].op = "read"
      /\ pc[t] = "put" => req[t].op \in {"create", "write", "truncate"}
      /\ pc[t] = "delete" => req[t].op = "remove"
      /\ pc[t] \in {"walk", "copy", "place", "unlink"} => req[t].op = "rename"
      /\ pc[t] \in {"copy", "place", "unlink"} => todo[t] # {}
      /\ pc[t] = "idle" => todo[t] = {}
      /\ \A k \in todo[t] : Seqs!IsPrefix(req[t].path, k.path)

Sound == TypeOK /\ OnCourse

-----------------------------------------------------------------------------
LEMMA RequestFields ==
    ASSUME NEW r \in Request
    PROVE  /\ r.path \in PathSet
           /\ r.op \notin {"list", "stat"} => r.path # Root
           /\ r.op = "read" => r.offset \in Nat /\ r.len \in Nat
           /\ r.op \in {"create", "remove"} => r.kind \in {"file", "dir"}
           /\ r.op = "write" => r.offset \in Nat /\ r.data \in Bytes
           /\ r.op = "truncate" => r.len \in Nat
           /\ r.op = "rename" => r.to \in PathSet /\ r.to # Root
BY RequestAssumption, RequestsTyped

LEMMA IdleRequest == NoRequest \in Request
BY RequestAssumption DEF NoRequest

(* The key of a put, and the keys of a rename, are at or below the paths   *)
(* of the request.                                                         *)
LEMMA TargetKey ==
    ASSUME Sound, NEW t \in Task, pc[t] \in {"put", "delete"}
    PROVE  /\ Target(req[t]) \in Key /\ Target(req[t]).path = req[t].path
           /\ Seqs!IsPrefix(req[t].path, Target(req[t]).path)
<1>1. req[t] \in Request /\ req[t].op \in {"create", "write", "truncate", "remove"}
  BY DEF Sound, TypeOK, OnCourse
<1>2. req[t].path \in PathSet \ {Root}
  BY <1>1, RequestFields
<1>3. Target(req[t]) \in Key /\ Target(req[t]).path = req[t].path
  BY <1>2 DEF Target, Key
<1> QED BY <1>2, <1>3, PrefixReflexive

LEMMA MovedKeys ==
    ASSUME Sound, NEW t \in Task, pc[t] \in {"copy", "place", "unlink"}
    PROVE  /\ req[t] \in Request /\ req[t].op = "rename"
           /\ req[t].path \in PathSet \ {Root} /\ req[t].to \in PathSet \ {Root}
           /\ Source(t) \in todo[t] /\ Source(t) \in Key
           /\ Seqs!IsPrefix(req[t].path, Source(t).path)
           /\ Destination(t) \in Key /\ Destination(t).dir = Source(t).dir
           /\ Seqs!IsPrefix(req[t].to, Destination(t).path)
<1>1. req[t] \in Request /\ req[t].op = "rename"
  BY DEF Sound, TypeOK, OnCourse
<1>2. req[t].path \in PathSet \ {Root} /\ req[t].to \in PathSet \ {Root}
  BY <1>1, RequestFields
<1>3. todo[t] # {} /\ todo[t] \subseteq Key /\ \A k \in todo[t] : Seqs!IsPrefix(req[t].path, k.path)
  BY DEF Sound, TypeOK, OnCourse
<1>4. Source(t) \in todo[t]
  BY <1>3 DEF Source
<1>5. Source(t) \in Key /\ Seqs!IsPrefix(req[t].path, Source(t).path)
  BY <1>3, <1>4
<1>6. /\ Destination(t) \in Key /\ Destination(t).dir = Source(t).dir
      /\ Seqs!IsPrefix(req[t].to, Destination(t).path)
  BY <1>2, <1>5, RekeyedPath, RekeyedUnder DEF Destination
<1> QED BY <1>1, <1>2, <1>4, <1>5, <1>6

-----------------------------------------------------------------------------
(* What a step of a call does to the bucket: nothing, a put of the key its *)
(* request stores or its rename moves to, or a drop of a key at or below a *)
(* path of its request.                                                    *)

Puts(t, k) == \E v \in Bytes : bucket' = Put(bucket, k, v)

Reaches(r, k) == \E p \in Paths(r) : Seqs!IsPrefix(p, k.path)

Effect(t) ==
    \/ bucket' = bucket
    \/ pc[t] = "put" /\ Puts(t, Target(req[t]))
    \/ pc[t] \in {"copy", "place"} /\ Puts(t, Destination(t))
    \/ \E k \in Key : Reaches(req[t], k) /\ bucket' = Drop(bucket, k)

LEMMA FailureEffect ==
    ASSUME NEW t \in Task, NEW applied, Fails(t, applied)
    PROVE  bucket' = bucket \/ bucket' = applied
BY DEF Fails

LEMMA ReachedPaths ==
    ASSUME NEW r \in Request, NEW k
    PROVE  /\ Seqs!IsPrefix(r.path, k.path) => Reaches(r, k)
           /\ r.op = "rename" /\ Seqs!IsPrefix(r.to, k.path) => Reaches(r, k)
BY DEF Reaches, Paths

(* The copy of a key, as a marker, by the service or through memory. *)
LEMMA CopyEffect ==
    ASSUME Sound, NEW t \in Task, pc[t] \in {"copy", "place", "unlink"}
    PROVE  /\ Reaches(req[t], Source(t)) /\ Reaches(req[t], Destination(t))
           /\ buf[t] \in Bytes
           /\ \/ CopyOf(t) = bucket
              \/ \E v \in Bytes : CopyOf(t) = Put(bucket, Destination(t), v)
<1>1. buf[t] \in Bytes /\ IsStore(bucket)
  BY DEF Sound, TypeOK
<1>2. Source(t) \in DOMAIN bucket => bucket[Source(t)] \in Bytes
  BY <1>1, StoredBytes
<1>3. CopyOf(t) = bucket \/ \E v \in Bytes : CopyOf(t) = Put(bucket, Destination(t), v)
  BY <1>2, EmptyBytes DEF CopyOf, Copied
<1> QED BY <1>1, <1>3, MovedKeys, ReachedPaths

LEMMA OperateEffect == ASSUME Sound, NEW t \in Task, Operate(t) PROVE Effect(t)
<1>0. IsStore(bucket) /\ req[t] \in Request /\ buf[t] \in Bytes
  BY DEF Sound, TypeOK
<1>1. CASE StatHead(t) \/ ReadHead(t) \/ RemoveHead(t) \/ RenameHead(t) \/ ListCall(t) \/ RangeCall(t)
           \/ WriteGet(t) \/ TruncateGet(t) \/ WalkCall(t)
  BY <1>1 DEF Effect, StatHead, ReadHead, RemoveHead, RenameHead, ListCall, RangeCall, WriteGet,
              TruncateGet, WalkCall, Reads
<1>2. CASE ReadFails(t)
  BY <1>2, FailureEffect DEF Effect, ReadFails
<1>3. ASSUME pc[t] \in {"put", "delete"} PROVE Target(req[t]) \in Key /\ Reaches(req[t], Target(req[t]))
  BY <1>0, <1>3, TargetKey, ReachedPaths
<1>4. CASE PutCall(t)
  <2>1. pc[t] = "put" /\ (bucket' = bucket \/ bucket' = Put(bucket, Target(req[t]), buf[t]))
    BY <1>4, FailureEffect DEF PutCall
  <2> QED BY <1>0, <1>3, <2>1 DEF Effect, Puts
<1>5. CASE DeleteCall(t)
  <2>1. pc[t] = "delete" /\ (bucket' = bucket \/ bucket' = Drop(bucket, Target(req[t])))
    BY <1>5, FailureEffect DEF DeleteCall
  <2> QED BY <1>3, <2>1 DEF Effect
<1>6. CASE CopyCall(t)
  <2>1. pc[t] = "copy" /\ (bucket' = bucket \/ bucket' = CopyOf(t))
    BY <1>6, FailureEffect DEF CopyCall
  <2> QED BY <2>1, CopyEffect, MovedKeys DEF Effect, Puts
<1>7. CASE FetchCall(t)
  BY <1>7, FailureEffect DEF FetchCall, Effect
<1>8. CASE PlaceCall(t)
  <2>1. pc[t] = "place" /\ (bucket' = bucket \/ bucket' = Put(bucket, Destination(t), buf[t]))
    BY <1>8, FailureEffect DEF PlaceCall, Copied
  <2> QED BY <2>1, CopyEffect, MovedKeys DEF Effect, Puts
<1>9. CASE UnlinkCall(t)
  <2>1. pc[t] = "unlink" /\ (bucket' = bucket \/ bucket' = Drop(bucket, Source(t)))
    BY <1>9, FailureEffect DEF UnlinkCall
  <2> QED BY <2>1, CopyEffect, MovedKeys DEF Effect
<1>10. CASE Repeat(t)
  <2>1. bucket' = Applied(t) /\ pc[t] \in {"put", "delete", "copy", "place", "unlink"}
    BY <1>10 DEF Repeat
  <2>2. CASE pc[t] = "put"
    <3>1. bucket' = Put(bucket, Target(req[t]), buf[t])
      BY <2>1, <2>2 DEF Applied
    <3> QED BY <1>0, <1>3, <2>2, <3>1 DEF Effect, Puts
  <2>3. CASE pc[t] = "delete"
    <3>1. bucket' = Drop(bucket, Target(req[t]))
      BY <2>1, <2>3 DEF Applied
    <3> QED BY <1>3, <2>3, <3>1 DEF Effect
  <2>4. CASE pc[t] = "copy"
    <3>1. bucket' = CopyOf(t)
      BY <2>1, <2>4 DEF Applied
    <3> QED BY <2>4, <3>1, CopyEffect, MovedKeys DEF Effect, Puts
  <2>5. CASE pc[t] = "place"
    <3>1. bucket' = Put(bucket, Destination(t), buf[t])
      BY <2>1, <2>5 DEF Applied, Copied
    <3> QED BY <2>5, <3>1, CopyEffect, MovedKeys DEF Effect, Puts
  <2>6. CASE pc[t] = "unlink"
    <3>1. bucket' = Drop(bucket, Source(t))
      BY <2>1, <2>6 DEF Applied
    <3> QED BY <2>6, <3>1, CopyEffect, MovedKeys DEF Effect
  <2> QED BY <2>1, <2>2, <2>3, <2>4, <2>5, <2>6
<1> QED BY <1>1, <1>2, <1>4, <1>5, <1>6, <1>7, <1>8, <1>9, <1>10 DEF Operate

LEMMA TouchedKey ==
    ASSUME Sound, NEW t \in Task, Operate(t)
    PROVE  \/ bucket' = bucket
           \/ \E k \in Key : Reaches(req[t], k) /\ (Puts(t, k) \/ bucket' = Drop(bucket, k))
<1>1. pc[t] = "put" => Target(req[t]) \in Key /\ Reaches(req[t], Target(req[t]))
  BY TargetKey, ReachedPaths DEF Sound, TypeOK
<1>2. pc[t] \in {"copy", "place"} => Destination(t) \in Key /\ Reaches(req[t], Destination(t))
  BY CopyEffect, MovedKeys
<1> QED BY <1>1, <1>2, OperateEffect DEF Effect

LEMMA EffectStore == ASSUME Sound, NEW t \in Task, Operate(t) PROVE IsStore(bucket')
<1>1. IsStore(bucket)
  BY DEF Sound, TypeOK
<1>2. CASE bucket' = bucket
  BY <1>1, <1>2
<1>3. ASSUME NEW k \in Key, NEW v \in Bytes, bucket' = Put(bucket, k, v) PROVE IsStore(bucket')
  <2>1. IsStore(Put(bucket, k, v))
    BY <1>1, PutInStore
  <2> QED BY <1>3, <2>1
<1>4. ASSUME NEW k \in Key, bucket' = Drop(bucket, k) PROVE IsStore(bucket')
  <2>1. IsStore(Drop(bucket, k))
    BY <1>1, DropFromStore
  <2> QED BY <1>4, <2>1
<1> QED BY <1>2, <1>3, <1>4, TouchedKey DEF Puts

-----------------------------------------------------------------------------
(* Typing: each way a step ends leaves a call where it may be. *)

(* The part of the state a step of a call may change besides its own. *)
TallyOK == blind \subseteq PathSet /\ faults \in 0..MaxFaults

LEMMA Answered ==
    ASSUME Sound, NEW t \in Task, NEW res \in Results, res # NoReply, Answer(t, res),
           IsStore(bucket'), TallyOK'
    PROVE  Sound'
<1>1. /\ pc' = [pc EXCEPT ![t] = "done"] /\ reply' = [reply EXCEPT ![t] = res]
      /\ UNCHANGED <<req, buf, size, todo>>
  BY DEF Answer, locals
<1>2. IsStore(bucket)'
  BY DEF IsStore
<1>3. TypeOK'
  BY <1>1, <1>2 DEF Sound, TypeOK, TallyOK
<1>4. OnCourse'
  BY <1>1 DEF Sound, TypeOK, OnCourse
<1> QED BY <1>3, <1>4 DEF Sound

LEMMA Refused ==
    ASSUME Sound, NEW t \in Task, NEW e \in Errors, Refuse(t, e), IsStore(bucket'), TallyOK'
    PROVE  Sound'
BY Answered, ResultTypes DEF Refuse

(* Where an operation's next operator call may be. *)
Fits(t, call) ==
    /\ call \in Calls
    /\ call = "list" => req[t].op \in {"list", "stat", "create", "write", "remove"}
    /\ call = "range" => req[t].op = "read"
    /\ call = "put" => req[t].op \in {"create", "write", "truncate"}
    /\ call = "delete" => req[t].op = "remove"
    /\ call \in {"walk", "copy", "place", "unlink"} => req[t].op = "rename"

LEMMA Went ==
    ASSUME Sound, NEW t \in Task, NEW call, Fits(t, call), Goto(t, call), pc[t] \in Calls,
           IsStore(bucket'), TallyOK',
           NEW b \in Bytes, buf' = [buf EXCEPT ![t] = b],
           NEW n \in Nat, size' = [size EXCEPT ![t] = n],
           NEW ks \in SUBSET Key, todo' = [todo EXCEPT ![t] = ks],
           \A k \in ks : Seqs!IsPrefix(req[t].path, k.path),
           call \in {"copy", "place", "unlink"} => ks # {}
    PROVE  Sound'
<1>1. pc' = [pc EXCEPT ![t] = call] /\ UNCHANGED <<req, reply>>
  BY DEF Goto
<1>2. IsStore(bucket)'
  BY DEF IsStore
<1>3. TypeOK'
  <2>1. pc' \in [Task -> {"idle", "done"} \cup Calls]
    BY <1>1 DEF Sound, TypeOK, Fits
  <2>2. \A u \in Task : pc'[u] = "done" <=> reply'[u] # NoReply
    BY <1>1 DEF Sound, TypeOK, Fits, Calls
  <2>3. buf' \in [Task -> Bytes] /\ size' \in [Task -> Nat] /\ todo' \in [Task -> SUBSET Key]
    BY DEF Sound, TypeOK
  <2> QED BY <1>1, <1>2, <2>1, <2>2, <2>3 DEF Sound, TypeOK, TallyOK
<1>4. OnCourse'
  <2> SUFFICES ASSUME NEW u \in Task
               PROVE  OnCourse!(u)'
    BY DEF OnCourse
  <2>1. CASE u = t
    BY <1>1, <2>1 DEF Sound, TypeOK, OnCourse, Fits, Calls
  <2>2. CASE u # t
    BY <1>1, <2>2 DEF Sound, TypeOK, OnCourse
  <2> QED BY <2>1, <2>2
<1> QED BY <1>3, <1>4 DEF Sound

LEMMA WentOn ==
    ASSUME Sound, NEW t \in Task, NEW call, Fits(t, call), Goto(t, call), pc[t] \in Calls,
           IsStore(bucket'), TallyOK', UNCHANGED locals,
           call \in {"copy", "place", "unlink"} => todo[t] # {}
    PROVE  Sound'
<1>1. buf[t] \in Bytes /\ size[t] \in Nat /\ todo[t] \in SUBSET Key
      /\ \A k \in todo[t] : Seqs!IsPrefix(req[t].path, k.path)
  BY DEF Sound, TypeOK, OnCourse
<1>2. /\ buf' = [buf EXCEPT ![t] = buf[t]] /\ size' = [size EXCEPT ![t] = size[t]]
      /\ todo' = [todo EXCEPT ![t] = todo[t]]
  BY DEF Sound, TypeOK, locals
<1> QED BY <1>1, <1>2, Went

LEMMA Stored ==
    ASSUME Sound, NEW t \in Task, NEW b \in Bytes, Store(t, b), pc[t] \in Calls,
           req[t].op \in {"create", "write", "truncate"}, IsStore(bucket'), TallyOK'
    PROVE  Sound'
<1>1. size[t] \in Nat /\ todo[t] \in SUBSET Key
      /\ \A k \in todo[t] : Seqs!IsPrefix(req[t].path, k.path)
  BY DEF Sound, TypeOK, OnCourse
<1>2. /\ buf' = [buf EXCEPT ![t] = b] /\ size' = [size EXCEPT ![t] = size[t]]
      /\ todo' = [todo EXCEPT ![t] = todo[t]] /\ Goto(t, "put")
  BY DEF Sound, TypeOK, Store
<1>3. Fits(t, "put") /\ "put" \notin {"copy", "place", "unlink"}
  BY DEF Fits, Calls
<1> QED BY <1>1, <1>2, <1>3, Went

(* What self.stat may find. *)
Findings ==
    [entry : [kind : {"file", "dir"}, size : Nat]] \cup {Err(e) : e \in Errors}

LEMMA FindingTypes ==
    /\ Findings \subseteq Results /\ \A res \in Findings : res # NoReply /\ res # Done
    /\ \A kind \in {"file", "dir"}, n \in Nat : Found(Entry(kind, n)) \in Findings
    /\ \A e \in Errors : Err(e) \in Findings
<1>1. \A e \in Errors : Err(e) \in Results /\ Err(e) # NoReply /\ Err(e) # Done
  BY ResultTypes
<1>2. \A res \in [entry : [kind : {"file", "dir"}, size : Nat]] :
          res \in Results /\ res # NoReply /\ res # Done
  BY DEF Results, NoReply, Done
<1>3. \A kind \in {"file", "dir"}, n \in Nat : Found(Entry(kind, n)) \in Findings
  BY DEF Findings, Found, Entry
<1> QED BY <1>1, <1>2, <1>3 DEF Findings

LEMMA WentAfterStat ==
    ASSUME Sound, NEW t \in Task, NEW res \in Findings, AfterStat(t, res), pc[t] \in Calls,
           req[t].op \in {"stat", "create", "write"}, IsStore(bucket'), TallyOK'
    PROVE  Sound'
<1>1. req[t] \in Request /\ res \in Results /\ res # NoReply
      /\ {"AlreadyExists", "NotAFile"} \subseteq Errors
  BY FindingTypes DEF Sound, TypeOK, Errors
<1>2. CASE req[t].op = "stat"
  BY <1>1, <1>2, Answered DEF AfterStat
<1>3. CASE req[t].op = "create"
  BY <1>1, <1>3, Refused, Stored, EmptyBytes DEF AfterStat
<1>4. CASE req[t].op = "write"
  <2>1. Splice(<<>>, req[t].offset, req[t].data) \in Bytes
    BY <1>1, <1>4, RequestFields, SplicedBytes, EmptyBytes
  <2>2. Refuse(t, "NotAFile") \/ Store(t, Splice(<<>>, req[t].offset, req[t].data))
    BY <1>4 DEF AfterStat
  <2> QED BY <1>1, <1>4, <2>1, <2>2, Refused, Stored
<1> QED BY <1>2, <1>3, <1>4

LEMMA Failed ==
    ASSUME Sound, NEW t \in Task, NEW applied, Fails(t, applied), pc[t] \in Calls, IsStore(bucket')
    PROVE  Sound'
<1>1. TallyOK'
  <2>1. req[t].path \in PathSet
    BY RequestFields DEF Sound, TypeOK
  <2> QED BY <2>1, MaxFaultsAssumption DEF Fails, Fault, Sound, TypeOK, TallyOK
<1>2. "Backend" \in Errors
  BY DEF Errors
<1>3. CASE SelfStat(t)
  <2>1. AfterStat(t, Err("Backend")) /\ req[t].op \in {"stat", "create", "write"}
    BY <1>3 DEF Fails, AfterFailure, SelfStat
  <2> QED BY <1>1, <1>2, <2>1, WentAfterStat, FindingTypes
<1>4. CASE ~SelfStat(t)
  BY <1>1, <1>2, <1>4, Refused DEF Fails, AfterFailure
<1> QED BY <1>3, <1>4

LEMMA OperateTyping == ASSUME Sound, NEW t \in Task, Operate(t) PROVE Sound'
<1> DEFINE r == req[t]
           k == FileKey(r.path)
<1>1. r \in Request /\ IsStore(bucket) /\ TallyOK /\ r.path \in PathSet /\ todo[t] \in SUBSET Key
  BY RequestFields DEF Sound, TypeOK, TallyOK
<1>2. IsStore(bucket')
  BY EffectStore
<1>3. UNCHANGED tally => TallyOK'
  BY <1>1 DEF tally, TallyOK
<1>4. {"NotFound", "NotEmpty", "panic"} \subseteq Errors
  BY DEF Errors
<1>5. k \in DOMAIN bucket => bucket[k] \in Bytes /\ Len(bucket[k]) \in Nat
  BY <1>1, StoredBytes, BytesIndexed
<1>6. /\ {"head", "list", "get", "range", "walk", "put", "delete", "copy", "place", "unlink"} = Calls
      /\ Contents(<<>>) \in Results /\ Contents(<<>>) # NoReply
  BY ResultTypes, EmptyBytes DEF Calls
<1>7. CASE StatHead(t)
  <2>1. pc[t] \in Calls /\ r.op \in {"stat", "create", "write"} /\ TallyOK'
    BY <1>3, <1>6, <1>7 DEF StatHead, Reads
  <2>2. \/ k \in DOMAIN bucket /\ AfterStat(t, Found(Entry("file", Len(bucket[k]))))
        \/ Goto(t, "list") /\ UNCHANGED locals
    BY <1>7 DEF StatHead
  <2>3. Fits(t, "list") /\ "list" \notin {"copy", "place", "unlink"}
    BY <2>1 DEF Fits, Calls
  <2>4. k \in DOMAIN bucket => Found(Entry("file", Len(bucket[k]))) \in Findings
    BY <1>5, FindingTypes
  <2> HIDE DEF k
  <2> QED BY <1>2, <2>1, <2>2, <2>3, <2>4, WentAfterStat, WentOn
<1>8. CASE ReadHead(t)
  <2>1. pc[t] \in Calls /\ r.op = "read" /\ TallyOK'
    BY <1>3, <1>6, <1>8 DEF ReadHead, Reads
  <2>2. \/ Refuse(t, "NotFound")
        \/ Answer(t, Contents(<<>>))
        \/ /\ k \in DOMAIN bucket /\ Goto(t, "range") /\ UNCHANGED <<buf, todo>>
           /\ size' = [size EXCEPT ![t] = Len(bucket[k])]
    BY <1>8 DEF ReadHead
  <2>3. Fits(t, "range") /\ "range" \notin {"copy", "place", "unlink"}
    BY <2>1 DEF Fits, Calls
  <2> DEFINE n == Len(bucket[k])
  <2>4. ASSUME k \in DOMAIN bucket, Goto(t, "range"), UNCHANGED <<buf, todo>>,
               size' = [size EXCEPT ![t] = n]
        PROVE  Sound'
    <3>1. n \in Nat
      BY <1>5, <2>4
    <3>2. buf[t] \in Bytes /\ \A x \in todo[t] : Seqs!IsPrefix(r.path, x.path)
      BY DEF Sound, TypeOK, OnCourse
    <3>3. buf' = [buf EXCEPT ![t] = buf[t]] /\ todo' = [todo EXCEPT ![t] = todo[t]]
      BY <2>4 DEF Sound, TypeOK
    <3> HIDE DEF n
    <3> QED BY <1>1, <1>2, <2>1, <2>3, <2>4, <3>1, <3>2, <3>3, Went
  <2> QED BY <1>2, <1>4, <1>6, <2>1, <2>2, <2>4, Answered, Refused
<1>9. CASE RemoveHead(t)
  <2>1. pc[t] \in Calls /\ r.op = "remove" /\ TallyOK'
    BY <1>3, <1>6, <1>9 DEF RemoveHead, Reads
  <2>2. Fits(t, "delete") /\ "delete" \notin {"copy", "place", "unlink"}
    BY <2>1 DEF Fits, Calls
  <2> QED BY <1>2, <1>4, <1>9, <2>1, <2>2, WentOn, Refused DEF RemoveHead
<1>10. CASE RenameHead(t)
  <2>1. pc[t] \in Calls /\ r.op = "rename" /\ TallyOK'
    BY <1>3, <1>6, <1>10 DEF RenameHead, Reads
  <2>2. Fits(t, "walk") /\ Fits(t, "copy") /\ "walk" \notin {"copy", "place", "unlink"}
    BY <2>1 DEF Fits, Calls
  <2>3. CASE Goto(t, "walk") /\ UNCHANGED locals
    BY <1>2, <2>1, <2>2, <2>3, WentOn
  <2>4. CASE todo' = [todo EXCEPT ![t] = {k}] /\ Goto(t, "copy") /\ UNCHANGED <<buf, size>>
    <3>1. buf[t] \in Bytes /\ size[t] \in Nat /\ {k} \in SUBSET Key /\ {k} # {}
          /\ \A x \in {k} : Seqs!IsPrefix(r.path, x.path)
      BY <1>1, <2>1, RequestFields, KeysOfPath, PrefixReflexive DEF Sound, TypeOK
    <3>2. buf' = [buf EXCEPT ![t] = buf[t]] /\ size' = [size EXCEPT ![t] = size[t]]
      BY <2>4 DEF Sound, TypeOK
    <3> HIDE DEF k
    <3> QED BY <1>2, <2>1, <2>2, <2>4, <3>1, <3>2, Went
  <2> QED BY <1>10, <2>3, <2>4 DEF RenameHead
<1>11. CASE ListCall(t)
  <2> DEFINE res == IF IsDir(bucket, r.path) THEN Listing(Children(bucket, r.path)) ELSE Err("NotFound")
  <2>1. pc[t] \in Calls /\ r.op \in {"list", "stat", "create", "write", "remove"} /\ TallyOK'
    BY <1>3, <1>6, <1>11 DEF ListCall, Reads, Sound, OnCourse
  <2>2. res \in Results /\ res # NoReply
    BY <1>1, <1>4, ChildrenTyping, ResultTypes
  <2>3. CASE r.op = "list"
    <3>1. Answer(t, res)
      BY <1>11, <2>3 DEF ListCall
    <3> HIDE DEF res
    <3> QED BY <1>2, <2>1, <2>2, <3>1, Answered
  <2>4. CASE r.op = "remove"
    <3>1. \/ Goto(t, "delete") /\ UNCHANGED locals
          \/ Refuse(t, "NotEmpty") \/ Answer(t, res)
      BY <1>11, <2>4 DEF ListCall, Refuse
    <3>2. Fits(t, "delete") /\ "delete" \notin {"copy", "place", "unlink"}
      BY <2>4 DEF Fits, Calls
    <3> HIDE DEF res
    <3> QED BY <1>2, <1>4, <2>1, <2>2, <3>1, <3>2, WentOn, Answered, Refused
  <2>5. CASE r.op \in {"stat", "create", "write"}
    <3>1. AfterStat(t, IF IsOk(res) THEN Found(Entry("dir", 0)) ELSE res)
      BY <1>11, <2>5 DEF ListCall
    <3>2. (IF IsOk(res) THEN Found(Entry("dir", 0)) ELSE res) \in Findings
      <4>1. Found(Entry("dir", 0)) \in Findings /\ Err("NotFound") \in Findings
        BY <1>4, FindingTypes
      <4>2. IsOk(Listing(Children(bucket, r.path)))
        BY DEF IsOk, Listing
      <4> QED BY <4>1, <4>2
    <3> HIDE DEF res
    <3> QED BY <1>2, <2>1, <2>5, <3>1, <3>2, WentAfterStat
  <2> QED BY <2>1, <2>3, <2>4, <2>5
<1>12. CASE RangeCall(t)
  <2> DEFINE end == IF r.offset + r.len < size[t] THEN r.offset + r.len ELSE size[t]
             part == SubSeq(bucket[k], r.offset + 1, end)
  <2>1. r.op = "read" /\ TallyOK'
    BY <1>3, <1>12 DEF RangeCall, Reads, Sound, OnCourse
  <2>2. \/ Refuse(t, "NotFound") \/ Refuse(t, "panic")
        \/ k \in DOMAIN bucket /\ ~(end > Len(bucket[k])) /\ Answer(t, Contents(part))
    BY <1>12 DEF RangeCall, Refuse
  <2>3. k \in DOMAIN bucket /\ ~(end > Len(bucket[k])) => part \in Bytes
    <3> SUFFICES ASSUME k \in DOMAIN bucket, ~(end > Len(bucket[k])) PROVE part \in Bytes
      OBVIOUS
    <3>1. r.offset \in Nat /\ end \in Nat /\ end <= Len(bucket[k])
      BY <1>1, <1>5, <2>1, RequestFields DEF Sound, TypeOK
    <3>2. bucket[k] \in Bytes
      BY <1>5
    <3> HIDE DEF end, k
    <3> QED BY <3>1, <3>2 DEF Bytes
  <2> HIDE DEF part, end
  <2> QED BY <1>2, <1>4, <2>1, <2>2, <2>3, Answered, Refused, ResultTypes
<1>13. CASE WriteGet(t)
  <2>1. pc[t] \in Calls /\ r.op = "write" /\ TallyOK'
    BY <1>3, <1>6, <1>13 DEF WriteGet, Reads
  <2>2. \/ k \in DOMAIN bucket /\ Store(t, Splice(bucket[k], r.offset, r.data))
        \/ Goto(t, "head") /\ UNCHANGED locals
    BY <1>13 DEF WriteGet
  <2>3. k \in DOMAIN bucket => Splice(bucket[k], r.offset, r.data) \in Bytes
    BY <1>1, <1>5, <2>1, RequestFields, SplicedBytes
  <2>4. Fits(t, "head") /\ "head" \notin {"copy", "place", "unlink"}
    BY DEF Fits, Calls
  <2> HIDE DEF k
  <2> QED BY <1>2, <2>1, <2>2, <2>3, <2>4, Stored, WentOn
<1>14. CASE TruncateGet(t)
  <2>1. pc[t] \in Calls /\ r.op = "truncate" /\ TallyOK'
    BY <1>3, <1>6, <1>14 DEF TruncateGet, Reads
  <2>2. \/ k \in DOMAIN bucket /\ Store(t, Resize(bucket[k], r.len))
        \/ Refuse(t, "NotFound")
    BY <1>14 DEF TruncateGet
  <2>3. k \in DOMAIN bucket => Resize(bucket[k], r.len) \in Bytes
    BY <1>1, <1>5, <2>1, RequestFields, ResizedBytes
  <2> HIDE DEF k
  <2> QED BY <1>2, <1>4, <2>1, <2>2, <2>3, Stored, Refused
<1>15. CASE ReadFails(t)
  BY <1>2, <1>6, <1>15, Failed DEF ReadFails
<1>16. ASSUME NEW b, Answer(t, Done), bucket' = b, UNCHANGED tally PROVE Sound'
  BY <1>2, <1>3, <1>16, Answered, ResultTypes
<1>17. CASE PutCall(t)
  BY <1>2, <1>6, <1>16, <1>17, Failed DEF PutCall
<1>18. CASE DeleteCall(t)
  BY <1>2, <1>6, <1>16, <1>18, Failed DEF DeleteCall
<1>19. CASE WalkCall(t)
  <2> DEFINE ks == {x \in DOMAIN bucket : Below(x, r.path)}
  <2>1. pc[t] \in Calls /\ r.op = "rename" /\ TallyOK'
    BY <1>3, <1>6, <1>19 DEF WalkCall, Reads, Sound, OnCourse
  <2>2. CASE Refuse(t, "NotFound")
    BY <1>2, <1>4, <2>1, <2>2, Refused
  <2>3. CASE ks # {} /\ todo' = [todo EXCEPT ![t] = ks] /\ Goto(t, "copy") /\ UNCHANGED <<buf, size>>
    <3>1. buf[t] \in Bytes /\ size[t] \in Nat /\ ks \in SUBSET Key
          /\ \A x \in ks : Seqs!IsPrefix(r.path, x.path)
      BY <1>1, StoredBytes DEF Sound, TypeOK, Below, StartsWith
    <3>2. buf' = [buf EXCEPT ![t] = buf[t]] /\ size' = [size EXCEPT ![t] = size[t]]
      BY <2>3 DEF Sound, TypeOK
    <3>3. Fits(t, "copy")
      BY <2>1 DEF Fits, Calls
    <3> HIDE DEF ks
    <3> QED BY <1>2, <2>1, <2>3, <3>1, <3>2, <3>3, Went
  <2> QED BY <1>19, <2>2, <2>3 DEF WalkCall
<1>20. ASSUME pc[t] \in {"copy", "place", "unlink"}
       PROVE  /\ pc[t] \in Calls /\ todo[t] # {}
              /\ Fits(t, "copy") /\ Fits(t, "place") /\ Fits(t, "unlink")
              /\ \A x \in todo[t] : Seqs!IsPrefix(r.path, x.path)
  BY <1>20 DEF Sound, OnCourse, Fits, Calls
<1>21. CASE CopyCall(t)
  <2>1. CASE Refuse(t, "NotFound") /\ UNCHANGED tally
    BY <1>2, <1>3, <1>4, <2>1, Refused
  <2>2. CASE Goto(t, "unlink") /\ UNCHANGED <<locals, tally>>
    BY <1>2, <1>3, <1>20, <1>21, <2>2, WentOn DEF CopyCall
  <2>3. CASE Fails(t, CopyOf(t))
    BY <1>2, <1>20, <1>21, <2>3, Failed DEF CopyCall
  <2> QED BY <1>21, <2>1, <2>2, <2>3 DEF CopyCall
<1>22. CASE FetchCall(t)
  <2>1. CASE Refuse(t, "NotFound") /\ UNCHANGED tally
    BY <1>2, <1>3, <1>4, <2>1, Refused
  <2>2. CASE Fails(t, bucket)
    BY <1>2, <1>20, <1>22, <2>2, Failed DEF FetchCall
  <2>3. CASE /\ Source(t) \in DOMAIN bucket /\ buf' = [buf EXCEPT ![t] = bucket[Source(t)]]
             /\ Goto(t, "place") /\ UNCHANGED <<size, todo, tally>>
    <3> DEFINE b == bucket[Source(t)]
    <3>1. b \in Bytes /\ size[t] \in Nat
      BY <1>1, <2>3, StoredBytes DEF Sound, TypeOK
    <3>2. size' = [size EXCEPT ![t] = size[t]] /\ todo' = [todo EXCEPT ![t] = todo[t]] /\ TallyOK'
      BY <1>3, <2>3 DEF Sound, TypeOK
    <3>3. buf' = [buf EXCEPT ![t] = b] /\ Goto(t, "place")
      BY <2>3
    <3>4. pc[t] \in {"copy", "place", "unlink"}
      BY <1>22 DEF FetchCall
    <3> HIDE DEF b
    <3> QED BY <1>1, <1>2, <1>20, <3>1, <3>2, <3>3, <3>4, Went
  <2> QED BY <1>22, <2>1, <2>2, <2>3 DEF FetchCall
<1>23. CASE PlaceCall(t)
  <2>1. CASE Goto(t, "unlink") /\ UNCHANGED <<locals, tally>>
    BY <1>2, <1>3, <1>20, <1>23, <2>1, WentOn DEF PlaceCall
  <2>2. CASE Fails(t, Copied(t, buf[t]))
    BY <1>2, <1>20, <1>23, <2>2, Failed DEF PlaceCall
  <2> QED BY <1>23, <2>1, <2>2 DEF PlaceCall
<1>24. CASE UnlinkCall(t)
  <2> DEFINE rest == todo[t] \ {Source(t)}
  <2>1. pc[t] = "unlink"
    BY <1>24 DEF UnlinkCall
  <2>2. CASE rest # {} /\ todo' = [todo EXCEPT ![t] = rest] /\ Goto(t, "copy")
             /\ UNCHANGED <<buf, size, tally>>
    <3>1. buf[t] \in Bytes /\ size[t] \in Nat /\ rest \in SUBSET Key
          /\ \A x \in rest : Seqs!IsPrefix(r.path, x.path)
      BY <1>1, <1>20, <2>1 DEF Sound, TypeOK
    <3>2. buf' = [buf EXCEPT ![t] = buf[t]] /\ size' = [size EXCEPT ![t] = size[t]] /\ TallyOK'
      BY <1>3, <2>2 DEF Sound, TypeOK
    <3>3. rest # {} /\ todo' = [todo EXCEPT ![t] = rest] /\ Goto(t, "copy") /\ pc[t] \in Calls
      BY <1>20, <2>1, <2>2
    <3> HIDE DEF rest
    <3> QED BY <1>2, <1>20, <2>1, <3>1, <3>2, <3>3, Went
  <2>3. CASE Answer(t, Done) /\ UNCHANGED tally
    BY <1>16, <2>3
  <2>4. CASE Fails(t, Drop(bucket, Source(t)))
    BY <1>2, <1>20, <2>1, <2>4, Failed
  <2> QED BY <1>24, <2>2, <2>3, <2>4 DEF UnlinkCall
<1>25. CASE Repeat(t)
  <2>1. UNCHANGED <<pc, req, reply, buf, size, todo, blind>> /\ faults' \in 0..MaxFaults
    BY <1>25, MaxFaultsAssumption DEF Repeat, locals, Fault, Sound, TypeOK
  <2>2. IsStore(bucket)'
    BY <1>2 DEF IsStore
  <2> QED BY <2>1, <2>2 DEF Sound, TypeOK, OnCourse
<1> QED BY <1>7, <1>8, <1>9, <1>10, <1>11, <1>12, <1>13, <1>14, <1>15, <1>17, <1>18, <1>19,
           <1>21, <1>22, <1>23, <1>24, <1>25 DEF Operate

LEMMA StartTyping == ASSUME Sound, NEW t \in Task, NEW r \in Request, Start(t, r) PROVE Sound'
<1>1. /\ pc[t] = "idle" /\ reply[t] = NoReply /\ todo[t] = {} /\ req' = [req EXCEPT ![t] = r]
      /\ UNCHANGED <<bucket, buf, size, todo, blind, faults>>
  BY DEF Start, locals, tally, Sound, TypeOK, OnCourse
<1>2. IsStore(bucket)'
  BY <1>1 DEF Sound, TypeOK, IsStore
<1>3. CASE Immediate(r)
  <2>1. \E res \in Results : /\ res # NoReply /\ reply' = [reply EXCEPT ![t] = res]
                             /\ pc' = [pc EXCEPT ![t] = "done"]
    BY <1>3, ResultTypes, EmptyBytes DEF Start
  <2> QED BY <1>1, <1>2, <2>1 DEF Sound, TypeOK, OnCourse
<1>4. CASE ~Immediate(r)
  <2> DEFINE call == FirstCall(r)
  <2>1. /\ call \in {"list", "get", "head"}
        /\ call = "list" => r.op \in {"list", "remove"}
    BY DEF FirstCall
  <2>2. pc' = [pc EXCEPT ![t] = call] /\ UNCHANGED reply
    BY <1>4 DEF Start
  <2> HIDE DEF call
  <2> QED BY <1>1, <1>2, <2>1, <2>2 DEF Sound, TypeOK, OnCourse, Calls
<1> QED BY <1>3, <1>4

LEMMA ReturnTyping == ASSUME Sound, NEW t \in Task, Return(t) PROVE Sound'
<1>1. IsStore(bucket)'
  BY DEF Sound, TypeOK, IsStore, Return
<1> QED BY <1>1, IdleRequest, EmptyBytes DEF Return, tally, Sound, TypeOK, OnCourse

LEMMA InitTyping == Init => Sound
<1> SUFFICES ASSUME Init PROVE Sound
  OBVIOUS
<1>1. IsStore(bucket) /\ blind \subseteq PathSet /\ faults \in 0..MaxFaults
  BY SeedAssumption, MaxFaultsAssumption DEF Init
<1> QED BY <1>1, IdleRequest, EmptyBytes DEF Init, Sound, TypeOK, OnCourse

LEMMA StepTyping == Sound /\ [Next]_vars => Sound'
<1> SUFFICES ASSUME Sound, [Next]_vars PROVE Sound'
  OBVIOUS
<1>1. CASE UNCHANGED vars
  BY <1>1 DEF vars, locals, tally, Sound, TypeOK, OnCourse, IsStore
<1>2. CASE Next
  BY <1>2, StartTyping, OperateTyping, ReturnTyping DEF Next
<1> QED BY <1>1, <1>2

(* Whatever is asked of the backend, and however its operator calls        *)
(* interleave and fail, the bucket stays a map of keys to bytes, a call    *)
(* has a result exactly while it is finished, and no more failures are     *)
(* counted than the bound.                                                 *)
THEOREM Typing == Spec => []TypeOK
<1>1. Sound => TypeOK
  BY DEF Sound
<1> QED BY <1>1, InitTyping, StepTyping, PTL DEF Spec

-----------------------------------------------------------------------------
(* Callers that keep related paths apart. *)

Apartness ==
    /\ \A t, u \in Task : t # u /\ pc[t] # "idle" /\ pc[u] # "idle" =>
           \A p \in Paths(req[t]), q \in Paths(req[u]) : ~Related(p, q)
    /\ \A t \in Task : pc[t] # "idle" /\ req[t].op = "rename" => ~Related(req[t].path, req[t].to)

(* A step of a call leaves the other calls and its own request alone. *)
Alone(t) ==
    /\ pc'[t] \in Calls \cup {"done"} /\ req' = req
    /\ \A u \in Task \ {t} : /\ pc'[u] = pc[u] /\ reply'[u] = reply[u]
                             /\ buf'[u] = buf[u] /\ todo'[u] = todo[u]

LEMMA OneAnswers == ASSUME Sound, NEW t \in Task, NEW res, Answer(t, res) PROVE Alone(t)
BY DEF Answer, locals, Alone, Sound, TypeOK

LEMMA OneGoes ==
    ASSUME Sound, NEW t \in Task, NEW call \in Calls, Goto(t, call),
           \A u \in Task \ {t} : buf'[u] = buf[u] /\ todo'[u] = todo[u]
    PROVE  Alone(t)
BY DEF Goto, Alone, Sound, TypeOK

LEMMA OneStores == ASSUME Sound, NEW t \in Task, NEW b, Store(t, b) PROVE Alone(t)
<1>1. "put" \in Calls
  BY DEF Calls
<1>2. \A u \in Task \ {t} : buf'[u] = buf[u] /\ todo'[u] = todo[u]
  BY DEF Store, Sound, TypeOK
<1> QED BY <1>1, <1>2, OneGoes DEF Store

LEMMA OneWentAfterStat ==
    ASSUME Sound, NEW t \in Task, NEW res, AfterStat(t, res),
           req[t].op \in {"stat", "create", "write"}
    PROVE  Alone(t)
<1>1. \/ \E r : Answer(t, r)
      \/ \E b : Store(t, b)
  BY DEF AfterStat, Refuse
<1> QED BY <1>1, OneAnswers, OneStores

LEMMA OneFails ==
    ASSUME Sound, NEW t \in Task, NEW applied, Fails(t, applied)
    PROVE  Alone(t) /\ blind \subseteq blind'
<1>1. CASE SelfStat(t)
  BY <1>1, OneWentAfterStat DEF Fails, AfterFailure, SelfStat
<1>2. CASE ~SelfStat(t)
  BY <1>2, OneAnswers DEF Fails, AfterFailure, Refuse
<1> QED BY <1>1, <1>2 DEF Fails

LEMMA OneCallSteps ==
    ASSUME Sound, NEW t \in Task, Operate(t)
    PROVE  pc[t] \in Calls /\ Alone(t) /\ blind \subseteq blind'
<1>1. pc[t] \in Calls
  BY DEF Operate, StatHead, ReadHead, RemoveHead, RenameHead, ListCall, RangeCall, WriteGet, TruncateGet,
         ReadFails, PutCall, DeleteCall, WalkCall, CopyCall, FetchCall, PlaceCall, UnlinkCall, Repeat,
         Reads, Calls
<1>2. {"head", "list", "get", "range", "walk", "put", "delete", "copy", "place", "unlink"} \subseteq Calls
  BY DEF Calls
<1>3. (\E applied : Fails(t, applied)) => Alone(t) /\ blind \subseteq blind'
  BY OneFails
<1>4. UNCHANGED tally => blind \subseteq blind'
  BY DEF tally
<1>5. ASSUME NEW call \in Calls, Goto(t, call),
             \/ UNCHANGED locals
             \/ UNCHANGED <<buf, todo>>
             \/ UNCHANGED buf /\ \E ks : todo' = [todo EXCEPT ![t] = ks]
             \/ UNCHANGED todo /\ \E b : buf' = [buf EXCEPT ![t] = b]
      PROVE  Alone(t)
  <2>1. \A u \in Task \ {t} : buf'[u] = buf[u] /\ todo'[u] = todo[u]
    BY <1>5 DEF locals, Sound, TypeOK
  <2> QED BY <1>5, <2>1, OneGoes
<1>6. CASE StatHead(t)
  <2>1. \/ \E res : AfterStat(t, res)
        \/ Goto(t, "list") /\ UNCHANGED locals
    BY <1>6 DEF StatHead
  <2> QED BY <1>2, <1>4, <1>5, <1>6, <2>1, OneWentAfterStat DEF StatHead, Reads
<1>7. CASE ReadHead(t)
  BY <1>2, <1>4, <1>5, <1>7, OneAnswers DEF ReadHead, Reads, Refuse
<1>8. CASE RemoveHead(t)
  BY <1>2, <1>4, <1>5, <1>8, OneAnswers DEF RemoveHead, Reads, Refuse
<1>9. CASE RenameHead(t)
  BY <1>2, <1>4, <1>5, <1>9 DEF RenameHead, Reads
<1>10. CASE ListCall(t)
  <2>1. \/ \E res : Answer(t, res)
        \/ Goto(t, "delete") /\ UNCHANGED locals
        \/ req[t].op \in {"stat", "create", "write"} /\ \E res : AfterStat(t, res)
    BY <1>10 DEF ListCall, Reads, Sound, OnCourse
  <2> QED BY <1>2, <1>4, <1>5, <1>10, <2>1, OneAnswers, OneWentAfterStat DEF ListCall, Reads
<1>11. CASE RangeCall(t)
  BY <1>1, <1>4, <1>11, OneAnswers DEF RangeCall, Reads
<1>12. CASE WriteGet(t)
  BY <1>2, <1>4, <1>5, <1>12, OneStores DEF WriteGet, Reads
<1>13. CASE TruncateGet(t)
  BY <1>1, <1>4, <1>13, OneStores, OneAnswers DEF TruncateGet, Reads, Refuse
<1>14. CASE ReadFails(t)
  BY <1>1, <1>3, <1>14 DEF ReadFails
<1>15. CASE PutCall(t)
  BY <1>1, <1>3, <1>4, <1>15, OneAnswers DEF PutCall
<1>16. CASE DeleteCall(t)
  BY <1>1, <1>3, <1>4, <1>16, OneAnswers DEF DeleteCall
<1>17. CASE WalkCall(t)
  <2>1. \/ \E res : Answer(t, res)
        \/ Goto(t, "copy") /\ UNCHANGED buf /\ \E ks : todo' = [todo EXCEPT ![t] = ks]
    BY <1>17 DEF WalkCall, Refuse
  <2> QED BY <1>2, <1>4, <1>5, <1>17, <2>1, OneAnswers DEF WalkCall, Reads
<1>18. CASE CopyCall(t)
  <2>1. \/ (\E res : Answer(t, res)) /\ UNCHANGED tally
        \/ Goto(t, "unlink") /\ UNCHANGED locals /\ UNCHANGED tally
        \/ \E applied : Fails(t, applied)
    BY <1>18 DEF CopyCall, Refuse
  <2> QED BY <1>1, <1>2, <1>3, <1>4, <1>5, <2>1, OneAnswers
<1>19. CASE FetchCall(t)
  <2>1. \/ (\E res : Answer(t, res)) /\ UNCHANGED tally
        \/ Goto(t, "place") /\ UNCHANGED <<todo, tally>> /\ \E b : buf' = [buf EXCEPT ![t] = b]
        \/ \E applied : Fails(t, applied)
    BY <1>19 DEF FetchCall, Refuse
  <2> QED BY <1>1, <1>2, <1>3, <1>4, <1>5, <2>1, OneAnswers
<1>20. CASE PlaceCall(t)
  <2>1. \/ Goto(t, "unlink") /\ UNCHANGED locals /\ UNCHANGED tally
        \/ \E applied : Fails(t, applied)
    BY <1>20 DEF PlaceCall
  <2> QED BY <1>1, <1>2, <1>3, <1>4, <1>5, <2>1
<1>21. CASE UnlinkCall(t)
  <2>1. \/ (\E res : Answer(t, res)) /\ UNCHANGED tally
        \/ Goto(t, "copy") /\ UNCHANGED <<buf, tally>> /\ \E ks : todo' = [todo EXCEPT ![t] = ks]
        \/ \E applied : Fails(t, applied)
    BY <1>21 DEF UnlinkCall
  <2> QED BY <1>1, <1>2, <1>3, <1>4, <1>5, <2>1, OneAnswers
<1>22. CASE Repeat(t)
  BY <1>1, <1>22 DEF Repeat, locals, Alone
<1> QED BY <1>1, <1>6, <1>7, <1>8, <1>9, <1>10, <1>11, <1>12, <1>13, <1>14, <1>15, <1>16, <1>17,
           <1>18, <1>19, <1>20, <1>21, <1>22 DEF Operate

LEMMA RelatedSymmetric == \A p, q : Related(p, q) <=> Related(q, p)
BY DEF Related

LEMMA InitApart == Init => Apartness
BY DEF Init, Apartness

LEMMA StepApart == ASSUME Serial, Sound, Apartness, [Next]_vars PROVE Apartness'
<1>1. CASE UNCHANGED vars
  BY <1>1 DEF vars, Apartness, Paths
<1>2. ASSUME NEW t \in Task, Operate(t) PROVE Apartness'
  <2>1. req' = req /\ pc[t] # "idle" /\ \A u \in Task \ {t} : pc'[u] = pc[u]
    BY <1>2, OneCallSteps DEF Alone, Calls
  <2> QED BY <2>1 DEF Apartness, Paths
<1>3. ASSUME NEW t \in Task, Return(t) PROVE Apartness'
  <2>1. pc'[t] = "idle" /\ \A u \in Task \ {t} : pc'[u] = pc[u] /\ req'[u] = req[u]
    BY <1>3 DEF Return, Sound, TypeOK
  <2> QED BY <2>1 DEF Apartness, Paths
<1>4. ASSUME NEW t \in Task, NEW r \in Request, Start(t, r) PROVE Apartness'
  <2>1. req'[t] = r /\ \A u \in Task \ {t} : pc'[u] = pc[u] /\ req'[u] = req[u]
    BY <1>4 DEF Start, Sound, TypeOK
  <2>2. \A u \in Task \ {t} : pc[u] # "idle" =>
            \A p \in Paths(r), q \in Paths(req[u]) : ~Related(p, q) /\ ~Related(q, p)
    BY <1>4, RelatedSymmetric DEF Start, Apart
  <2>3. r.op = "rename" => ~Related(r.path, r.to)
    BY <1>4 DEF Start, Admissible
  <2> DEFINE ps(u) == Paths(req[u])
  <2>4. /\ ps(t)' = Paths(r)
        /\ \A u \in Task \ {t} : ps(u)' = ps(u)
    BY <2>1 DEF Paths
  <2>5. \A u, v \in Task : u # v /\ pc'[u] # "idle" /\ pc'[v] # "idle" =>
            \A p \in ps(u)', q \in ps(v)' : ~Related(p, q)
    <3> SUFFICES ASSUME NEW u \in Task, NEW v \in Task, u # v, pc'[u] # "idle", pc'[v] # "idle",
                        NEW p \in ps(u)', NEW q \in ps(v)'
                 PROVE  ~Related(p, q)
      OBVIOUS
    <3>1. CASE u = t
      BY <2>1, <2>2, <2>4, <3>1
    <3>2. CASE v = t
      BY <2>1, <2>2, <2>4, <3>2
    <3>3. CASE u # t /\ v # t
      BY <2>1, <2>4, <3>3 DEF Apartness
    <3> QED BY <3>1, <3>2, <3>3
  <2>6. \A u \in Task : pc'[u] # "idle" /\ req'[u].op = "rename" => ~Related(req'[u].path, req'[u].to)
    BY <2>1, <2>3 DEF Apartness
  <2> QED BY <2>5, <2>6 DEF Apartness
<1> QED BY <1>1, <1>2, <1>3, <1>4 DEF Next

(* Where callers keep apart, a step of one call changes no key at or below *)
(* a path of another.                                                      *)
Same(k) ==
    /\ k \in DOMAIN bucket' <=> k \in DOMAIN bucket
    /\ k \in DOMAIN bucket => bucket'[k] = bucket[k]

LEMMA Footprint ==
    ASSUME Sound, Apartness, NEW t \in Task, pc[t] # "idle", NEW u \in Task \ {t}, Operate(u),
           NEW k \in Key, Reaches(req[t], k)
    PROVE  Same(k)
<1>1. CASE bucket' = bucket
  BY <1>1 DEF Same
<1>2. ASSUME NEW kk \in Key, Reaches(req[u], kk), Puts(u, kk) \/ bucket' = Drop(bucket, kk)
      PROVE  Same(k)
  <2>1. PICK p \in Paths(req[t]) : Seqs!IsPrefix(p, k.path)
    BY DEF Reaches
  <2>2. PICK q \in Paths(req[u]) : Seqs!IsPrefix(q, kk.path)
    BY <1>2 DEF Reaches
  <2>3. p \in PathSet /\ q \in PathSet
    BY RequestFields DEF Paths, Sound, TypeOK
  <2>4. ~Related(p, q)
    BY OneCallSteps DEF Apartness, Calls
  <2>5. k # kk
    BY <2>1, <2>2, <2>3, <2>4, KeyFields, UnrelatedPathsPart
  <2>6. IsStore(bucket)
    BY DEF Sound, TypeOK
  <2>7. ASSUME NEW v \in Bytes, bucket' = Put(bucket, kk, v) PROVE Same(k)
    BY <2>5, <2>7 DEF Same, Put
  <2>8. ASSUME bucket' = Drop(bucket, kk) PROVE Same(k)
    BY <2>5, <2>8 DEF Same, Drop
  <2> QED BY <1>2, <2>7, <2>8 DEF Puts
<1> QED BY <1>1, <1>2, TouchedKey

-----------------------------------------------------------------------------
(* Create: from the answered stat on, nothing is at the path. *)

Created(t) ==
    /\ pc[t] = "list" /\ req[t].op = "create" => FileKey(req[t].path) \notin DOMAIN bucket
    /\ pc[t] = "put" /\ req[t].op = "create" =>
         /\ buf[t] = <<>>
         /\ \/ req[t].path \in blind
            \/ Target(req[t]) \in DOMAIN bucket => bucket[Target(req[t])] = <<>>

LEMMA CreateKeys ==
    ASSUME NEW r \in Request, r.op = "create"
    PROVE  /\ FileKey(r.path) \in Key /\ Reaches(r, FileKey(r.path))
           /\ Target(r) \in Key /\ Reaches(r, Target(r)) /\ Target(r) \in {FileKey(r.path), DirKey(r.path)}
<1>1. r.path \in PathSet \ {Root} /\ r.kind \in {"file", "dir"}
  BY RequestFields
<1>2. Target(r) \in {FileKey(r.path), DirKey(r.path)}
  BY <1>1 DEF Target, FileKey, DirKey
<1>3. \A k \in {FileKey(r.path), DirKey(r.path)} : k \in Key /\ Reaches(r, k)
  BY <1>1, KeysOfPath, PrefixReflexive, ReachedPaths
<1> QED BY <1>2, <1>3

LEMMA OthersKeepCreated ==
    ASSUME Sound, Apartness, NEW t \in Task, Created(t), NEW u \in Task \ {t}, Operate(u)
    PROVE  Created(t)'
<1>1. pc'[t] = pc[t] /\ buf'[t] = buf[t] /\ req' = req /\ blind \subseteq blind'
  BY OneCallSteps DEF Alone
<1>2. CASE pc[t] # "idle" /\ req[t].op = "create"
  <2>1. req[t] \in Request
    BY DEF Sound, TypeOK
  <2>2. Same(FileKey(req[t].path)) /\ Same(Target(req[t]))
    BY <1>2, <2>1, CreateKeys, Footprint
  <2> QED BY <1>1, <2>2 DEF Created, Same
<1>3. CASE ~(pc[t] # "idle" /\ req[t].op = "create")
  BY <1>1, <1>3 DEF Created
<1> QED BY <1>2, <1>3

LEMMA CreateGoesOn ==
    ASSUME Sound, NEW t \in Task, Created(t), Operate(t)
    PROVE  Created(t)'
<1> DEFINE r == req[t]
<1> SUFFICES ASSUME r.op = "create", pc'[t] \in {"list", "put"} PROVE Created(t)'
  <2>1. req' = req
    BY OneCallSteps DEF Alone
  <2> QED BY <2>1 DEF Created
<1>1. req' = req /\ r \in Request /\ pc \in [Task -> {"idle", "done"} \cup Calls]
      /\ buf \in [Task -> Bytes] /\ IsStore(bucket)
  BY OneCallSteps DEF Alone, Sound, TypeOK
<1>2. \A res : ~Answer(t, res)
  BY <1>1 DEF Answer
<1>3. ASSUME NEW applied, Fails(t, applied)
      PROVE  Store(t, <<>>) /\ r.path \in blind'
  <2>1. SelfStat(t)
    BY <1>2, <1>3 DEF Fails, AfterFailure, Refuse
  <2>2. ~IsOk(Err("Backend"))
    BY DEF IsOk, Err
  <2> QED BY <1>3, <2>1, <2>2 DEF Fails, AfterFailure, AfterStat
<1>4. ASSUME NEW applied, Fails(t, applied) PROVE Created(t)'
  <2>1. pc'[t] = "put" /\ buf'[t] = <<>>
    BY <1>1, <1>3, <1>4 DEF Store, Goto
  <2> QED BY <1>1, <1>3, <1>4, <2>1 DEF Created
<1>5. CASE StatHead(t)
  <2>1. IsOk(Found(Entry("file", Len(bucket[FileKey(r.path)]))))
    BY DEF IsOk, Found
  <2>2. FileKey(r.path) \notin DOMAIN bucket /\ Goto(t, "list") /\ bucket' = bucket
    BY <1>2, <1>5, <2>1 DEF StatHead, AfterStat, Refuse, Reads
  <2>3. pc'[t] = "list"
    BY <1>1, <2>2 DEF Goto
  <2> QED BY <1>1, <2>2, <2>3 DEF Created
<1>6. CASE ListCall(t)
  <2> DEFINE res == IF IsDir(bucket, r.path) THEN Listing(Children(bucket, r.path)) ELSE Err("NotFound")
  <2>1. AfterStat(t, IF IsOk(res) THEN Found(Entry("dir", 0)) ELSE res)
    BY <1>6 DEF ListCall
  <2>2. IsOk(Found(Entry("dir", 0))) /\ IsOk(Listing(Children(bucket, r.path)))
    BY DEF IsOk, Found, Listing
  <2>3. ~IsOk(res) /\ Store(t, <<>>)
    BY <1>2, <2>1, <2>2 DEF AfterStat, Refuse
  <2>4. ~IsDir(bucket, r.path)
    BY <2>2, <2>3
  <2>5. FileKey(r.path) \notin DOMAIN bucket /\ bucket' = bucket
    BY <1>6 DEF ListCall, Reads, Created
  <2>6. DirKey(r.path) \notin DOMAIN bucket
    <3>1. r.path \in PathSet
      BY <1>1, RequestFields
    <3>2. StartsWith(DirKey(r.path), r.path)
      BY <3>1, PrefixReflexive DEF StartsWith, DirKey
    <3> QED BY <2>4, <3>2 DEF IsDir, HasPrefix
  <2>7. pc'[t] = "put" /\ buf'[t] = <<>>
    BY <1>1, <2>3 DEF Store, Goto
  <2> QED BY <1>1, <2>5, <2>6, <2>7, CreateKeys DEF Created
<1>7. CASE Repeat(t)
  <2>1. pc[t] = "put" /\ UNCHANGED <<pc, buf, blind>>
    BY <1>7 DEF Repeat, locals
  <2>2. bucket' = Put(bucket, Target(r), buf[t])
    BY <1>7, <2>1 DEF Repeat, Applied
  <2>3. buf[t] = <<>> /\ Target(r) \in Key
    BY <1>1, <2>1, CreateKeys DEF Created
  <2>4. bucket'[Target(r)] = <<>>
    <3> DEFINE k == Target(r)
    <3>1. k \in Key /\ bucket' = Put(bucket, k, <<>>)
      BY <2>2, <2>3
    <3>2. Put(bucket, k, <<>>)[k] = <<>>
      BY PutIsRead
    <3> QED BY <3>1, <3>2
  <2> QED BY <1>1, <2>1, <2>3, <2>4 DEF Created
<1>8. CASE ReadFails(t)
  BY <1>4, <1>8 DEF ReadFails
<1>9. CASE PutCall(t)
  BY <1>2, <1>4, <1>9 DEF PutCall
<1>10. CASE DeleteCall(t)
  BY <1>2, <1>4, <1>10 DEF DeleteCall
<1>11. ~ReadHead(t) /\ ~RemoveHead(t) /\ ~RenameHead(t) /\ ~WriteGet(t) /\ ~TruncateGet(t)
  BY DEF ReadHead, RemoveHead, RenameHead, WriteGet, TruncateGet
<1>12. ~RangeCall(t) /\ ~WalkCall(t) /\ ~CopyCall(t) /\ ~FetchCall(t) /\ ~PlaceCall(t) /\ ~UnlinkCall(t)
  BY DEF RangeCall, WalkCall, CopyCall, FetchCall, PlaceCall, UnlinkCall, Reads, Sound, OnCourse
<1> QED BY <1>5, <1>6, <1>7, <1>8, <1>9, <1>10, <1>11, <1>12 DEF Operate

CreateInv == Sound /\ Apartness /\ \A t \in Task : Created(t)

LEMMA InitCreate == Init => CreateInv
BY InitTyping, InitApart DEF Init, CreateInv, Created

LEMMA StepCreate == ASSUME Serial PROVE CreateInv /\ [Next]_vars => CreateInv'
<1> SUFFICES ASSUME CreateInv, [Next]_vars PROVE CreateInv'
  OBVIOUS
<1>1. Sound' /\ Apartness'
  BY StepTyping, StepApart DEF CreateInv
<1>2. CASE UNCHANGED vars
  BY <1>1, <1>2 DEF vars, locals, tally, CreateInv, Created
<1>3. ASSUME NEW u \in Task, Operate(u), NEW t \in Task PROVE Created(t)'
  <2>1. CASE t = u
    BY <1>3, <2>1, CreateGoesOn DEF CreateInv
  <2>2. CASE t # u
    BY <1>3, <2>2, OthersKeepCreated DEF CreateInv
  <2> QED BY <2>1, <2>2
<1>4. ASSUME NEW u \in Task, NEW r \in Request, Start(u, r), NEW t \in Task PROVE Created(t)'
  <2>1. UNCHANGED <<bucket, buf, blind>> /\ \A v \in Task \ {u} : pc'[v] = pc[v] /\ req'[v] = req[v]
    BY <1>4 DEF Start, locals, tally, CreateInv, Sound, TypeOK
  <2>2. pc'[u] = "done" \/ (req'[u].op = "create" => pc'[u] = "head")
    BY <1>4 DEF Start, FirstCall, CreateInv, Sound, TypeOK
  <2>3. CASE t = u
    BY <2>2, <2>3 DEF Created
  <2>4. CASE t # u
    BY <2>1, <2>4 DEF CreateInv, Created
  <2> QED BY <2>3, <2>4
<1>5. ASSUME NEW u \in Task, Return(u), NEW t \in Task PROVE Created(t)'
  <2>1. UNCHANGED <<bucket, blind>> /\ pc'[u] = "idle"
        /\ \A v \in Task \ {u} : pc'[v] = pc[v] /\ req'[v] = req[v] /\ buf'[v] = buf[v]
    BY <1>5 DEF Return, tally, CreateInv, Sound, TypeOK
  <2>2. CASE t = u
    BY <2>1, <2>2 DEF Created
  <2>3. CASE t # u
    BY <2>1, <2>3 DEF CreateInv, Created
  <2> QED BY <2>2, <2>3
<1> QED BY <1>1, <1>2, <1>3, <1>4, <1>5 DEF Next, CreateInv

(* The put of a create, its own or one of another call's in between,       *)
(* changes no bytes that are there.                                        *)
LEMMA PutClobbersNothing ==
    ASSUME CreateInv, [Next]_vars, NEW t \in Task, pc[t] = "put", req[t].op = "create",
           Target(req[t]) \in DOMAIN bucket \cap DOMAIN bucket',
           bucket'[Target(req[t])] # bucket[Target(req[t])]
    PROVE  req[t].path \in blind
<1> DEFINE k == Target(req[t])
<1>1. Sound /\ Apartness /\ Created(t) /\ req[t] \in Request
  BY DEF CreateInv, Sound, TypeOK
<1>2. k \in Key /\ Reaches(req[t], k)
  BY <1>1, CreateKeys
<1>3. ~Same(k)
  BY DEF Same
<1>4. \E u \in Task : Operate(u)
  <2>1. bucket' # bucket
    OBVIOUS
  <2> QED BY <2>1 DEF Next, Start, Return, vars
<1>5. \A u \in Task \ {t} : ~Operate(u)
  BY <1>1, <1>2, <1>3, Footprint
<1>6. Operate(t)
  BY <1>4, <1>5
<1>7. bucket' = Put(bucket, k, buf[t])
  <2>1. bucket' = bucket \/ bucket' = Put(bucket, k, buf[t])
    <3>1. CASE PutCall(t)
      BY <3>1, FailureEffect DEF PutCall
    <3>2. CASE Repeat(t)
      BY <3>2 DEF Repeat, Applied
    <3>3. ~PutCall(t) /\ ~Repeat(t) => FALSE
      BY <1>6 DEF Operate, StatHead, ReadHead, RemoveHead, RenameHead, ListCall, RangeCall, WriteGet,
                  TruncateGet, ReadFails, DeleteCall, WalkCall, CopyCall, FetchCall, PlaceCall,
                  UnlinkCall, Reads
    <3> QED BY <3>1, <3>2, <3>3
  <2> QED BY <2>1
<1>8. bucket'[k] = <<>>
  <2>1. buf[t] = <<>> /\ IsStore(bucket) /\ bucket' = Put(bucket, k, <<>>)
    BY <1>1, <1>7 DEF Created, Sound, TypeOK
  <2>2. Put(bucket, k, <<>>)[k] = <<>>
    BY PutIsRead
  <2> QED BY <2>1, <2>2
<1> QED BY <1>1, <1>8 DEF Created

(* Where callers keep related paths apart, a create empties nothing, for   *)
(* any requests and buckets, however operator calls fail and are made      *)
(* again: only one whose own stat has failed can.  Creates that race on    *)
(* one path can clobber each other, so the assumption is needed.           *)
THEOREM CreatesDoNotClobber == ASSUME Serial PROVE Spec => OnlyBlindCreatesClobber
<1>1. CreateInv /\ [Next]_vars => OnlyBlindCreatesClobber!1
  BY PutClobbersNothing
<1>2. Init => CreateInv
  BY InitCreate
<1>3. CreateInv /\ [Next]_vars => CreateInv'
  BY StepCreate
<1> QED BY <1>1, <1>2, <1>3, PTL DEF Spec, OnlyBlindCreatesClobber

-----------------------------------------------------------------------------
(* Rename: what a step of its loop does. *)

(* The operator call the task was about to make has been made. *)
Made(t) ==
    \/ pc[t] = "copy" /\ bucket' = CopyOf(t) /\ (Source(t).dir \/ Source(t) \in DOMAIN bucket \/ bucket' = bucket)
    \/ pc[t] = "place" /\ bucket' = Copied(t, buf[t])
    \/ pc[t] = "unlink" /\ bucket' = Drop(bucket, Source(t))

Begins(t) ==
    LET k == FileKey(req[t].path) IN
    /\ pc[t] = "head" /\ bucket' = bucket
    /\ IF k \in DOMAIN bucket THEN pc'[t] = "copy" /\ todo'[t] = {k} ELSE pc'[t] = "walk"

Walks(t) ==
    /\ pc[t] = "walk" /\ bucket' = bucket
    /\ pc'[t] = "copy" /\ todo'[t] = {k \in DOMAIN bucket : Below(k, req[t].path)}

(* The next call for the same key, or the same call again. *)
Advances(t) ==
    /\ todo'[t] = todo[t]
    /\ \/ /\ pc[t] = "copy" /\ pc'[t] = "place" /\ bucket' = bucket
          /\ ~Source(t).dir /\ Source(t) \in DOMAIN bucket /\ buf'[t] = bucket[Source(t)]
       \/ /\ pc[t] = "copy" /\ pc'[t] = "unlink" /\ bucket' = CopyOf(t)
          /\ Source(t).dir \/ Source(t) \in DOMAIN bucket
       \/ pc[t] = "place" /\ pc'[t] = "unlink" /\ bucket' = Copied(t, buf[t])
       \/ pc'[t] = pc[t] /\ buf'[t] = buf[t] /\ Made(t)

Unlinks(t) ==
    /\ pc[t] = "unlink" /\ bucket' = Drop(bucket, Source(t))
    /\ \/ pc'[t] = "copy" /\ todo'[t] = todo[t] \ {Source(t)}
       \/ pc'[t] = "done" /\ todo[t] = {Source(t)}

GivesUp(t) == pc'[t] = "done" /\ reply'[t] # Done /\ (bucket' = bucket \/ Made(t))

LEMMA RenameSteps ==
    ASSUME Sound, NEW t \in Task, req[t].op = "rename", Operate(t)
    PROVE  Begins(t) \/ Walks(t) \/ Advances(t) \/ Unlinks(t) \/ GivesUp(t)
<1> DEFINE k == FileKey(req[t].path)
<1>1. /\ pc \in [Task -> {"idle", "done"} \cup Calls] /\ todo \in [Task -> SUBSET Key]
      /\ buf \in [Task -> Bytes] /\ reply \in [Task -> Results \cup {NoReply}]
  BY DEF Sound, TypeOK
<1>2. \A call : Goto(t, call) => pc'[t] = call
  BY <1>1 DEF Goto
<1>3. ASSUME NEW e \in {"NotFound", "Backend"}, Refuse(t, e) PROVE pc'[t] = "done" /\ reply'[t] # Done
  <2>1. Err(e) # Done
    BY ResultTypes DEF Errors
  <2> QED BY <1>1, <1>3, <2>1 DEF Refuse, Answer
<1>4. ASSUME NEW applied, Fails(t, applied) PROVE pc'[t] = "done" /\ reply'[t] # Done
  BY <1>3, <1>4 DEF Fails, AfterFailure, SelfStat
<1>5. CASE RenameHead(t)
  BY <1>1, <1>2, <1>5 DEF RenameHead, Reads, Begins
<1>6. CASE WalkCall(t)
  <2> DEFINE ks == {x \in DOMAIN bucket : Below(x, req[t].path)}
  <2>1. CASE Refuse(t, "NotFound")
    BY <1>3, <1>6, <2>1 DEF GivesUp, WalkCall, Reads
  <2>2. CASE todo' = [todo EXCEPT ![t] = ks] /\ Goto(t, "copy")
    <3>1. todo'[t] = ks
      BY <1>1, <2>2
    <3> QED BY <1>2, <1>6, <2>2, <3>1 DEF Walks, WalkCall, Reads
  <2> QED BY <1>6, <2>1, <2>2 DEF WalkCall
<1>7. CASE ReadFails(t)
  BY <1>4, <1>7 DEF ReadFails, GivesUp, Fails
<1>8. CASE CopyCall(t)
  <2>1. CASE Refuse(t, "NotFound") /\ UNCHANGED bucket
    BY <1>3, <2>1 DEF GivesUp
  <2>2. CASE bucket' = CopyOf(t) /\ Goto(t, "unlink") /\ UNCHANGED locals
             /\ ~(~Source(t).dir /\ Source(t) \notin DOMAIN bucket)
    BY <1>2, <1>8, <2>2 DEF CopyCall, Advances, locals
  <2>3. CASE Fails(t, CopyOf(t))
    <3>1. bucket' = bucket \/ Made(t)
      BY <1>8, <2>3, FailureEffect DEF CopyCall, Made, CopyOf
    <3> QED BY <1>4, <2>3, <3>1 DEF GivesUp
  <2> QED BY <1>8, <2>1, <2>2, <2>3 DEF CopyCall
<1>9. CASE FetchCall(t)
  <2>1. CASE Refuse(t, "NotFound") /\ UNCHANGED bucket
    BY <1>3, <2>1 DEF GivesUp
  <2>2. CASE Source(t) \in DOMAIN bucket /\ buf' = [buf EXCEPT ![t] = bucket[Source(t)]]
             /\ Goto(t, "place") /\ UNCHANGED <<bucket, todo>>
    <3>1. buf'[t] = bucket[Source(t)]
      BY <1>1, <2>2
    <3> QED BY <1>2, <1>9, <2>2, <3>1 DEF FetchCall, Advances
  <2>3. CASE Fails(t, bucket)
    BY <1>4, <2>3 DEF GivesUp, Fails
  <2> QED BY <1>9, <2>1, <2>2, <2>3 DEF FetchCall
<1>10. CASE PlaceCall(t)
  <2>1. CASE bucket' = Copied(t, buf[t]) /\ Goto(t, "unlink") /\ UNCHANGED locals
    BY <1>2, <1>10, <2>1 DEF PlaceCall, Advances, locals
  <2>2. CASE Fails(t, Copied(t, buf[t]))
    BY <1>4, <1>10, <2>2, FailureEffect DEF PlaceCall, GivesUp, Made
  <2> QED BY <1>10, <2>1, <2>2 DEF PlaceCall
<1>11. CASE UnlinkCall(t)
  <2> DEFINE rest == todo[t] \ {Source(t)}
  <2>1. CASE bucket' = Drop(bucket, Source(t)) /\ todo' = [todo EXCEPT ![t] = rest] /\ Goto(t, "copy")
    <3>1. todo'[t] = rest
      BY <1>1, <2>1
    <3> QED BY <1>2, <1>11, <2>1, <3>1 DEF UnlinkCall, Unlinks
  <2>2. CASE bucket' = Drop(bucket, Source(t)) /\ rest = {} /\ Answer(t, Done)
    <3>1. pc'[t] = "done" /\ pc[t] = "unlink"
      BY <1>1, <1>11, <2>2 DEF Answer, UnlinkCall
    <3>2. todo[t] = {Source(t)}
      BY <2>2, <3>1, MovedKeys DEF UnlinkCall
    <3> QED BY <2>2, <3>1, <3>2 DEF Unlinks
  <2>3. CASE Fails(t, Drop(bucket, Source(t)))
    BY <1>4, <1>11, <2>3, FailureEffect DEF UnlinkCall, GivesUp, Made
  <2> QED BY <1>11, <2>1, <2>2, <2>3 DEF UnlinkCall
<1>12. CASE Repeat(t)
  <2>1. pc[t] \in {"copy", "place", "unlink"} /\ bucket' = Applied(t) /\ UNCHANGED <<pc, buf, todo>>
    BY <1>12 DEF Repeat, locals, Sound, OnCourse
  <2>2. Made(t)
    BY <2>1 DEF Made, Applied, CopyOf
  <2> QED BY <2>1, <2>2 DEF Advances
<1>13. ~StatHead(t) /\ ~ReadHead(t) /\ ~RemoveHead(t) /\ ~WriteGet(t) /\ ~TruncateGet(t)
  BY DEF StatHead, ReadHead, RemoveHead, WriteGet, TruncateGet
<1>14. ~ListCall(t) /\ ~RangeCall(t) /\ ~PutCall(t) /\ ~DeleteCall(t)
  BY DEF ListCall, RangeCall, PutCall, DeleteCall, Reads, Sound, OnCourse
<1> QED BY <1>5, <1>6, <1>7, <1>8, <1>9, <1>10, <1>11, <1>12, <1>13, <1>14 DEF Operate

(* The key a rename is at and where it goes are never the same key. *)
LEMMA MovesElsewhere ==
    ASSUME Sound, Apartness, NEW t \in Task, pc[t] \in {"copy", "place", "unlink"}
    PROVE  ~Seqs!IsPrefix(req[t].path, Destination(t).path) /\ Destination(t) # Source(t)
<1>1. ~Related(req[t].to, req[t].path)
  BY MovedKeys, RelatedSymmetric DEF Apartness
<1> QED BY <1>1, MovedKeys, KeyFields, UnrelatedPathsPart

(* What is at the key a rename is at, once it is copied, is at its target. *)
Placed(t) ==
    /\ pc[t] = "place" /\ Source(t) \in DOMAIN bucket => bucket[Source(t)] = buf[t]
    /\ pc[t] = "unlink" /\ ~Source(t).dir /\ Source(t) \in DOMAIN bucket =>
         Destination(t) \in DOMAIN bucket /\ bucket[Destination(t)] = bucket[Source(t)]

LEMMA PutReads ==
    ASSUME NEW o, NEW k, NEW v
    PROVE  /\ \A x : x \in DOMAIN Put(o, k, v) <=> x \in DOMAIN o \/ x = k
           /\ \A x \in DOMAIN o : x # k => Put(o, k, v)[x] = o[x]
           /\ Put(o, k, v)[k] = v
BY DEF Put

LEMMA DropReads ==
    ASSUME NEW o, NEW k
    PROVE  /\ \A x : x \in DOMAIN Drop(o, k) <=> x \in DOMAIN o /\ x # k
           /\ \A x \in DOMAIN o : x # k => Drop(o, k)[x] = o[x]
BY DEF Drop

LEMMA OthersKeepPlaced ==
    ASSUME Sound, Apartness, NEW t \in Task, Placed(t), NEW u \in Task \ {t}, Operate(u)
    PROVE  Placed(t)'
<1>1. pc'[t] = pc[t] /\ buf'[t] = buf[t] /\ todo'[t] = todo[t] /\ req' = req
  BY OneCallSteps DEF Alone
<1>2. Source(t)' = Source(t) /\ Destination(t)' = Destination(t)
  BY <1>1 DEF Source, Destination
<1>3. ASSUME pc[t] \in {"copy", "place", "unlink"} PROVE Same(Source(t)) /\ Same(Destination(t))
  BY <1>3, CopyEffect, MovedKeys, Footprint
<1> QED BY <1>1, <1>2, <1>3 DEF Placed, Same

LEMMA RenameKeepsPlaced ==
    ASSUME Sound, Apartness, NEW t \in Task, Placed(t), Operate(t)
    PROVE  Placed(t)'
<1>1. req' = req /\ Sound'
  BY OneCallSteps, OperateTyping DEF Alone
<1> SUFFICES ASSUME pc'[t] \in {"place", "unlink"} PROVE Placed(t)'
  BY DEF Placed
<1>2. req[t].op = "rename"
  BY <1>1 DEF Sound, OnCourse
<1>3. Advances(t)
  BY <1>2, RenameSteps DEF Begins, Walks, Unlinks, GivesUp
<1>4. Source(t)' = Source(t) /\ Destination(t)' = Destination(t)
  BY <1>1, <1>3 DEF Advances, Source, Destination
<1>5. pc[t] \in {"copy", "place", "unlink"} => Destination(t) # Source(t)
  BY MovesElsewhere
<1> DEFINE s == Source(t)
           d == Destination(t)
<1>6. CASE pc[t] = "copy" /\ pc'[t] = "place"
  <2>1. bucket' = bucket /\ buf'[t] = bucket[s]
    BY <1>3, <1>6 DEF Advances
  <2> QED BY <1>4, <1>6, <2>1 DEF Placed
<1>7. CASE pc[t] = "copy" /\ pc'[t] = "unlink"
  <2>1. bucket' = CopyOf(t) /\ (s.dir \/ s \in DOMAIN bucket)
    BY <1>3, <1>7 DEF Advances, Made
  <2>2. CASE s.dir
    BY <1>4, <1>7, <2>2 DEF Placed
  <2>3. CASE ~s.dir
    <3>1. bucket' = Put(bucket, d, bucket[s]) /\ s \in DOMAIN bucket
      BY <2>1, <2>3 DEF CopyOf, Copied
    <3>2. d \in DOMAIN bucket' /\ bucket'[d] = bucket[s] /\ bucket'[s] = bucket[s]
      <4> HIDE DEF s, d
      <4>1. s # d
        BY <1>5, <1>7 DEF s, d
      <4> QED BY <3>1, <4>1, PutReads
    <3> QED BY <1>4, <1>7, <3>2 DEF Placed
  <2> QED BY <2>2, <2>3
<1>8. CASE pc[t] = "place" /\ pc'[t] \in {"place", "unlink"}
  <2>1. bucket' = Put(bucket, d, buf[t]) /\ (pc'[t] = "place" => buf'[t] = buf[t])
    BY <1>3, <1>8 DEF Advances, Made, Copied
  <2>2. s \in DOMAIN bucket => bucket[s] = buf[t]
    BY <1>8 DEF Placed
  <2>3. /\ d \in DOMAIN bucket' /\ bucket'[d] = buf[t]
        /\ s \in DOMAIN bucket' => bucket'[s] = buf[t]
    <3> HIDE DEF s, d
    <3>1. s # d
      BY <1>5, <1>8 DEF s, d
    <3> QED BY <2>1, <2>2, <3>1, PutReads
  <2> QED BY <1>4, <1>8, <2>1, <2>3 DEF Placed
<1>9. CASE pc[t] = "unlink" /\ pc'[t] = "unlink"
  <2>1. bucket' = Drop(bucket, s)
    BY <1>3, <1>9 DEF Advances, Made
  <2>2. s \notin DOMAIN bucket'
    BY <2>1, DropReads
  <2> QED BY <1>4, <1>9, <2>2 DEF Placed
<1> QED BY <1>3, <1>6, <1>7, <1>8, <1>9 DEF Advances, Made

RenameInv == Sound /\ Apartness /\ \A t \in Task : Placed(t)

LEMMA InitRename == Init => RenameInv
BY InitTyping, InitApart DEF Init, RenameInv, Placed

LEMMA StepRename == ASSUME Serial PROVE RenameInv /\ [Next]_vars => RenameInv'
<1> SUFFICES ASSUME RenameInv, [Next]_vars PROVE RenameInv'
  OBVIOUS
<1>1. Sound' /\ Apartness'
  BY StepTyping, StepApart DEF RenameInv
<1>2. CASE UNCHANGED vars
  BY <1>1, <1>2 DEF vars, locals, tally, RenameInv, Placed, Source, Destination
<1>3. ASSUME NEW u \in Task, Operate(u), NEW t \in Task PROVE Placed(t)'
  <2>1. CASE t = u
    BY <1>3, <2>1, RenameKeepsPlaced DEF RenameInv
  <2>2. CASE t # u
    BY <1>3, <2>2, OthersKeepPlaced DEF RenameInv
  <2> QED BY <2>1, <2>2
<1>4. ASSUME NEW u \in Task, (\E r \in Request : Start(u, r)) \/ Return(u), NEW t \in Task
      PROVE  Placed(t)'
  <2>1. /\ bucket' = bucket /\ pc'[u] \notin {"place", "unlink"}
        /\ \A v \in Task \ {u} : /\ pc'[v] = pc[v] /\ req'[v] = req[v]
                                 /\ buf'[v] = buf[v] /\ todo'[v] = todo[v]
    BY <1>4 DEF Start, Return, FirstCall, locals, tally, RenameInv, Sound, TypeOK
  <2>2. CASE t = u
    BY <2>1, <2>2 DEF Placed
  <2>3. CASE t # u
    BY <2>1, <2>3 DEF RenameInv, Placed, Source, Destination
  <2> QED BY <2>2, <2>3
<1> QED BY <1>1, <1>2, <1>3, <1>4 DEF Next, RenameInv

(* A key that a call of a rename takes away has its bytes at its target. *)
LEMMA RenameLosesNothing ==
    ASSUME RenameInv, [Next]_vars, NEW k \in DOMAIN bucket \ DOMAIN bucket', ~k.dir,
           NEW t \in Task, req[t].op = "rename", pc'[t] # pc[t]
    PROVE  LET k2 == Rekey(k, req[t].path, req[t].to)
           IN  k2 \in DOMAIN bucket' /\ bucket'[k2] = bucket[k]
<1>1. Sound /\ Apartness /\ Placed(t)
  BY DEF RenameInv
<1>2. Operate(t)
  <2>1. \E u \in Task : Operate(u)
    <3>1. bucket' # bucket
      OBVIOUS
    <3> QED BY <3>1 DEF Next, Start, Return, vars
  <2>2. \A u \in Task \ {t} : ~Operate(u)
    BY <1>1, OneCallSteps DEF Alone
  <2> QED BY <2>1, <2>2
<1>3. \A x, v : bucket' # Put(bucket, x, v)
  BY PutReads
<1>4. bucket' # CopyOf(t)
  BY <1>3 DEF CopyOf, Copied
<1>5. pc[t] = "unlink" /\ bucket' = Drop(bucket, Source(t))
  BY <1>1, <1>2, <1>3, <1>4, RenameSteps
     DEF Begins, Walks, Advances, Unlinks, GivesUp, Made, Copied
<1>6. k = Source(t)
  BY <1>5, DropReads
<1>7. /\ Destination(t) \in DOMAIN bucket /\ bucket[Destination(t)] = bucket[k]
      /\ Destination(t) # Source(t)
  BY <1>1, <1>5, <1>6, MovesElsewhere DEF Placed
<1>8. Destination(t) \in DOMAIN bucket' /\ bucket'[Destination(t)] = bucket[k]
  <2> DEFINE s == Source(t)
             d == Destination(t)
  <2>1. bucket' = Drop(bucket, s) /\ d \in DOMAIN bucket /\ d # s
    BY <1>5, <1>7
  <2> HIDE DEF s, d
  <2>2. d \in DOMAIN bucket' /\ bucket'[d] = bucket[d]
    BY <2>1, DropReads
  <2> QED BY <1>7, <2>2 DEF d
<1> QED BY <1>6, <1>8 DEF Destination

(* Where callers keep related paths apart, a rename never holds the only   *)
(* copy of a file's bytes in memory or in flight: whichever operator call  *)
(* fails, is lost or is repeated, a source is deleted only when its bytes  *)
(* are at the target.                                                      *)
THEOREM RenamesKeepBytes == ASSUME Serial PROVE Spec => RenameKeepsBytes
<1>1. RenameInv /\ [Next]_vars => RenameKeepsBytes!1
  BY RenameLosesNothing
<1>2. Init => RenameInv
  BY InitRename
<1>3. RenameInv /\ [Next]_vars => RenameInv'
  BY StepRename
<1> QED BY <1>1, <1>2, <1>3, PTL DEF Spec, RenameKeepsBytes

-----------------------------------------------------------------------------
(* What a rename that succeeds leaves behind. *)

(* No path is a file and a directory at once: NoShadow with no exception.  *)
PlainTree == \A k \in DOMAIN bucket : ~k.dir => ~HasPrefix(bucket, k.path)

LEMMA PlainWithoutBlindStores == NoShadow /\ blind = {} => PlainTree
BY DEF NoShadow, PlainTree

(* The files at the path of a rename and below it. *)
Files(t) == {k \in DOMAIN bucket : ~k.dir /\ Seqs!IsPrefix(req[t].path, k.path)}

Swept(t) ==
    /\ pc[t] = "walk" => FileKey(req[t].path) \notin DOMAIN bucket
    /\ pc[t] \in {"copy", "place", "unlink"} => Files(t) \subseteq todo[t]
    /\ pc[t] = "done" /\ req[t].op = "rename" /\ reply[t] = Done => Files(t) = {}

LEMMA OthersKeepSwept ==
    ASSUME Sound, Apartness, NEW t \in Task, Swept(t), NEW u \in Task \ {t}, Operate(u)
    PROVE  Swept(t)'
<1>1. pc'[t] = pc[t] /\ todo'[t] = todo[t] /\ reply'[t] = reply[t] /\ req' = req
  BY OneCallSteps DEF Alone
<1>2. CASE pc[t] # "idle" /\ req[t].op = "rename"
  <2>1. req[t] \in Request /\ req[t].path \in PathSet \ {Root}
    BY <1>2, RequestFields DEF Sound, TypeOK
  <2>2. \A k \in Key : Seqs!IsPrefix(req[t].path, k.path) => Same(k)
    BY <1>2, <2>1, ReachedPaths, Footprint
  <2>3. DOMAIN bucket \subseteq Key /\ DOMAIN bucket' \subseteq Key
    BY EffectStore DEF Sound, TypeOK, IsStore
  <2>4. Files(t)' = Files(t)
    BY <1>1, <2>2, <2>3 DEF Files, Same
  <2>5. FileKey(req[t].path) \in DOMAIN bucket' <=> FileKey(req[t].path) \in DOMAIN bucket
    BY <2>1, <2>2, KeysOfPath, PrefixReflexive DEF Same
  <2> QED BY <1>1, <2>4, <2>5 DEF Swept
<1>3. CASE ~(pc[t] # "idle" /\ req[t].op = "rename")
  BY <1>1, <1>3 DEF Swept, Sound, OnCourse
<1> QED BY <1>2, <1>3

LEMMA RenameKeepsSwept ==
    ASSUME Sound, Apartness, PlainTree, NEW t \in Task, Swept(t), Operate(t)
    PROVE  Swept(t)'
<1>1. req' = req /\ Sound' /\ IsStore(bucket)
  BY OneCallSteps, OperateTyping DEF Alone, Sound, TypeOK
<1> SUFFICES ASSUME req[t].op = "rename" PROVE Swept(t)'
  BY <1>1 DEF Swept, Sound, OnCourse
<1>2. req[t].path \in PathSet \ {Root} /\ \A k \in DOMAIN bucket : k \in Key
  BY <1>1, RequestFields, StoredBytes DEF Sound, TypeOK
<1> DEFINE p == req[t].path
           s == Source(t)
           d == Destination(t)
<1>3. ASSUME NEW k \in Files(t) PROVE k = FileKey(p) \/ Below(k, p)
  <2>1. k \in Key /\ ~k.dir /\ Seqs!IsPrefix(p, k.path)
    BY <1>2 DEF Files
  <2>2. k.path = p => k = FileKey(p)
    BY <1>2, <2>1, KeyFields, KeysOfPath
  <2>3. k # DirKey(p)
    BY <2>1 DEF DirKey
  <2> QED BY <2>1, <2>2, <2>3 DEF Below, StartsWith
<1>4. FileKey(p) \notin DOMAIN bucket => \A k \in Files(t) : Below(k, p)
  BY <1>3 DEF Files
<1>5. FileKey(p) \in DOMAIN bucket => Files(t) \subseteq {FileKey(p)}
  <2>1. FileKey(p) \in DOMAIN bucket => \A k \in DOMAIN bucket : ~StartsWith(k, p)
    BY <1>2, KeysOfPath DEF PlainTree, HasPrefix
  <2> QED BY <1>3, <2>1 DEF Files, Below
<1>6. bucket' = bucket => Files(t)' = Files(t)
  BY <1>1 DEF Files
<1>7. ASSUME pc[t] \in {"copy", "place"}, NEW v, bucket' = Put(bucket, d, v)
      PROVE  Files(t)' \subseteq Files(t)
  <2>1. ~Seqs!IsPrefix(p, d.path)
    BY <1>7, MovesElsewhere
  <2>2. \A x \in DOMAIN bucket' : x \in DOMAIN bucket \/ x = d
    <3> HIDE DEF d
    <3> QED BY <1>7, PutReads
  <2> QED BY <1>1, <2>1, <2>2 DEF Files
<1>8. ASSUME bucket' = Drop(bucket, s) PROVE Files(t)' \subseteq Files(t) \ {s}
  <2>1. \A x \in DOMAIN bucket' : x \in DOMAIN bucket /\ x # s
    <3> HIDE DEF s
    <3> QED BY <1>8, DropReads
  <2> QED BY <1>1, <2>1 DEF Files
<1>9. CASE Begins(t)
  BY <1>1, <1>5, <1>6, <1>9 DEF Begins, Swept, Sound, OnCourse
<1>10. CASE Walks(t)
  <2>1. Files(t)' \subseteq todo'[t] /\ pc'[t] = "copy"
    BY <1>4, <1>6, <1>10 DEF Walks, Swept, Files
  <2> QED BY <2>1 DEF Swept
<1>11. CASE Advances(t)
  <2>1. /\ pc[t] \in {"copy", "place", "unlink"} /\ pc'[t] \in {"copy", "place", "unlink"}
        /\ todo'[t] = todo[t]
        /\ \/ bucket' = bucket \/ bucket' = Drop(bucket, s)
           \/ pc[t] \in {"copy", "place"} /\ \E v : bucket' = Put(bucket, d, v)
    BY <1>11 DEF Advances, Made, CopyOf, Copied
  <2>2. Files(t)' \subseteq Files(t)
    BY <1>6, <1>7, <1>8, <2>1
  <2> QED BY <2>1, <2>2 DEF Swept
<1>12. CASE Unlinks(t)
  <2>1. Files(t)' \subseteq todo[t] \ {s}
    BY <1>8, <1>12 DEF Unlinks, Swept
  <2> QED BY <1>12, <2>1 DEF Unlinks, Swept
<1>13. CASE GivesUp(t)
  BY <1>13 DEF GivesUp, Swept
<1> QED BY <1>9, <1>10, <1>11, <1>12, <1>13, RenameSteps

SweepInv == Sound /\ Apartness /\ \A t \in Task : Swept(t)

LEMMA InitSweep == Init => SweepInv
BY InitTyping, InitApart DEF Init, SweepInv, Swept

LEMMA StepSweep == ASSUME Serial PROVE SweepInv /\ PlainTree /\ [Next]_vars => SweepInv'
<1> SUFFICES ASSUME SweepInv, PlainTree, [Next]_vars PROVE SweepInv'
  OBVIOUS
<1>1. Sound' /\ Apartness'
  BY StepTyping, StepApart DEF SweepInv
<1>2. CASE UNCHANGED vars
  BY <1>1, <1>2 DEF vars, locals, tally, SweepInv, Swept, Files
<1>3. ASSUME NEW u \in Task, Operate(u), NEW t \in Task PROVE Swept(t)'
  <2>1. CASE t = u
    BY <1>3, <2>1, RenameKeepsSwept DEF SweepInv
  <2>2. CASE t # u
    BY <1>3, <2>2, OthersKeepSwept DEF SweepInv
  <2> QED BY <2>1, <2>2
<1>4. ASSUME NEW u \in Task, (\E r \in Request : Start(u, r)) \/ Return(u), NEW t \in Task
      PROVE  Swept(t)'
  <2>1. /\ bucket' = bucket
        /\ \A v \in Task \ {u} : /\ pc'[v] = pc[v] /\ req'[v] = req[v]
                                 /\ todo'[v] = todo[v] /\ reply'[v] = reply[v]
    BY <1>4 DEF Start, Return, locals, tally, SweepInv, Sound, TypeOK
  <2>2. /\ pc'[u] \notin {"walk", "copy", "place", "unlink"}
        /\ pc'[u] = "done" => req'[u].op # "rename"
    BY <1>4 DEF Start, Return, FirstCall, Immediate, SweepInv, Sound, TypeOK
  <2>3. CASE t = u
    BY <2>2, <2>3 DEF Swept
  <2>4. CASE t # u
    BY <2>1, <2>4 DEF SweepInv, Swept, Files
  <2> QED BY <2>3, <2>4
<1> QED BY <1>1, <1>2, <1>3, <1>4 DEF Next, SweepInv

LEMMA SweptMovesAll == SweepInv => RenameOkMovesAll
<1> SUFFICES ASSUME SweepInv, NEW t \in Task, Finished(t, "rename"), reply[t] = Done,
                    NEW k \in DOMAIN bucket, k.path = req[t].path \/ Below(k, req[t].path), ~k.dir
             PROVE  FALSE
  <2>1. SweepInv => \A x \in DOMAIN bucket : x.dir \in BOOLEAN
    BY StoredBytes, KeyFields DEF SweepInv, Sound, TypeOK
  <2> QED BY <2>1 DEF RenameOkMovesAll
<1>1. Files(t) = {}
  BY DEF SweepInv, Swept, Finished
<1>2. req[t].path \in PathSet
  BY RequestFields DEF SweepInv, Sound, TypeOK
<1>3. Seqs!IsPrefix(req[t].path, k.path)
  BY <1>2, PrefixReflexive DEF Below, StartsWith
<1> QED BY <1>1, <1>3 DEF Files

(* Where callers keep related paths apart and no path has become a file    *)
(* and a directory at once, a rename that answers Ok leaves no file behind,*)
(* also when it takes up what failed attempts have left half moved.  With  *)
(* such a path the rename moves the file and leaves what is below it, so   *)
(* the assumption is needed.                                               *)
THEOREM RenamesMoveAll == ASSUME Serial PROVE Spec /\ []PlainTree => []RenameOkMovesAll
<1>1. Init => SweepInv
  BY InitSweep
<1>2. SweepInv /\ PlainTree /\ [Next]_vars => SweepInv'
  BY StepSweep
<1>3. SweepInv => RenameOkMovesAll
  BY SweptMovesAll
<1> QED BY <1>1, <1>2, <1>3, PTL DEF Spec

-----------------------------------------------------------------------------
(* No path becomes a file and a directory at once.                         *)

(* The keys of a file and of something at or below it, unless the file may *)
(* have been stored blindly.                                               *)
Shadows(a, b) == ~a.dir /\ StartsWith(b, a.path) /\ a.path \notin blind

(* What is at and below the path a rename moves to, once it has moved all  *)
(* that is at and below the path it moves.                                 *)
Merged(r) ==
    {Rekey(k, r.path, r.to) : k \in {k \in DOMAIN bucket : Seqs!IsPrefix(r.path, k.path)}}
        \cup {k \in DOMAIN bucket : Seqs!IsPrefix(r.to, k.path)}

Mergeable(r) == \A a, b \in Merged(r) : ~Shadows(a, b)

(* The renames asked for put no file where they put, or find, a directory, *)
(* nor the other way round.                                                *)
RenamesFit == \A t \in Task, r \in Request : Start(t, r) /\ r.op = "rename" => Mergeable(r)

SeedsFit == \A o \in Seed : \A k \in DOMAIN o : ~k.dir => ~HasPrefix(o, k.path)

(* Where a request stores. *)
Goal(r) == IF r.op = "rename" THEN r.to ELSE r.path

(* Nothing above the place a request stores at is a file, *)
ClearAbove(t) ==
    pc[t] \in Calls /\ req[t].op \in {"create", "write", "rename"} =>
        \A a \in DOMAIN bucket : ~a.dir /\ Seqs!IsPrefix(a.path, Goal(req[t]))
                                     => a.path = Goal(req[t]) \/ a.path \in blind

(* what is about to be put fits in, *)
PutFits(t) ==
    pc[t] = "put" => \A x \in DOMAIN bucket : ~Shadows(x, Target(req[t])) /\ ~Shadows(Target(req[t]), x)

(* the two trees of a rename under way fit into one, *)
MergeFits(t) == pc[t] \in Calls /\ req[t].op = "rename" => Mergeable(req[t])

(* and the keys it has yet to copy are there.  *)
SourcesThere(t) ==
    /\ pc[t] \in {"copy", "place"} => todo[t] \subseteq DOMAIN bucket
    /\ pc[t] = "unlink" => todo[t] \ {Source(t)} \subseteq DOMAIN bucket

LEMMA ShadowFree ==
    NoShadow <=> \A a, b \in DOMAIN bucket : ~Shadows(a, b)
BY DEF NoShadow, HasPrefix, Shadows

LEMMA ShadowsFade ==
    ASSUME blind \subseteq blind', NEW a, NEW b, Shadows(a, b)' PROVE Shadows(a, b)
BY DEF Shadows

LEMMA ShadowPrefix ==
    ASSUME NEW a \in Key, NEW b \in Key, Shadows(a, b)
    PROVE  a.path \in PathSet /\ b.path \in PathSet /\ Seqs!IsPrefix(a.path, b.path) /\ a.path \notin blind /\ ~a.dir
BY KeyFields DEF Shadows, StartsWith

LEMMA NoSelfShadow == \A a : ~Shadows(a, a)
BY DEF Shadows, StartsWith

(* The key a rename copies to fits in. *)
LEMMA CopyFits ==
    ASSUME Sound, NEW t \in Task, pc[t] \in {"copy", "place"},
           ClearAbove(t), MergeFits(t), SourcesThere(t), NEW x \in DOMAIN bucket
    PROVE  ~Shadows(x, Destination(t)) /\ ~Shadows(Destination(t), x)
<1> DEFINE r == req[t]
           d == Destination(t)
<1>1. /\ r.to \in PathSet /\ d \in Key /\ Seqs!IsPrefix(r.to, d.path) /\ x \in Key
      /\ d.path \in PathSet /\ x.path \in PathSet /\ r.op = "rename" /\ pc[t] \in Calls
  BY MovedKeys, KeyFields, StoredBytes DEF Sound, TypeOK, Calls
<1>2. d \in Merged(r)
  BY MovedKeys DEF SourcesThere, Merged, Destination
<1>3. CASE Seqs!IsPrefix(r.to, x.path)
  <2>1. x \in Merged(r)
    BY <1>3 DEF Merged
  <2> QED BY <1>1, <1>2, <2>1 DEF MergeFits, Mergeable
<1>4. CASE ~Seqs!IsPrefix(r.to, x.path)
  <2>1. ASSUME Shadows(d, x) PROVE FALSE
    BY <1>1, <1>4, <2>1, ShadowPrefix, PrefixTransitive
  <2>2. ASSUME Shadows(x, d) PROVE FALSE
    <3>1. Seqs!IsPrefix(x.path, d.path) /\ ~x.dir /\ x.path \notin blind
      BY <1>1, <2>2, ShadowPrefix
    <3>2. Related(x.path, r.to)
      BY <1>1, <3>1, UnrelatedPathsPart
    <3>3. Seqs!IsPrefix(x.path, r.to)
      BY <1>4, <3>2 DEF Related
    <3>4. x.path = r.to
      BY <1>1, <3>1, <3>3 DEF ClearAbove, Goal
    <3> QED BY <1>1, <1>4, <3>4, PrefixReflexive
  <2> QED BY <2>1, <2>2
<1> QED BY <1>3, <1>4

LEMMA OperateKeepsPlain ==
    ASSUME Sound, NoShadow, NEW t \in Task, Operate(t),
           ClearAbove(t), PutFits(t), MergeFits(t), SourcesThere(t)
    PROVE  NoShadow'
<1>1. blind \subseteq blind' /\ \A a, b \in DOMAIN bucket : ~Shadows(a, b)
  BY OneCallSteps, ShadowFree
<1>2. ASSUME NEW k, DOMAIN bucket' \subseteq DOMAIN bucket \cup {k},
             \A x \in DOMAIN bucket : ~Shadows(x, k) /\ ~Shadows(k, x)
      PROVE  NoShadow'
  <2>1. \A a, b \in DOMAIN bucket' : ~Shadows(a, b)
    BY <1>1, <1>2, NoSelfShadow
  <2>2. \A a, b \in DOMAIN bucket' : ~Shadows(a, b)'
    BY <1>1, <2>1, ShadowsFade
  <2> QED BY <2>2 DEF NoShadow, HasPrefix, Shadows
<1>3. CASE DOMAIN bucket' \subseteq DOMAIN bucket
  <2>1. \A a, b \in DOMAIN bucket' : ~Shadows(a, b)'
    BY <1>1, <1>3, ShadowsFade
  <2> QED BY <2>1 DEF NoShadow, HasPrefix, Shadows
<1>4. ASSUME NEW k, Puts(t, k) PROVE DOMAIN bucket' \subseteq DOMAIN bucket \cup {k}
  BY <1>4, PutReads DEF Puts
<1>5. ASSUME NEW k, bucket' = Drop(bucket, k) PROVE DOMAIN bucket' \subseteq DOMAIN bucket
  BY <1>5, DropReads
<1>6. CASE pc[t] = "put" /\ Puts(t, Target(req[t]))
  BY <1>2, <1>4, <1>6 DEF PutFits
<1>7. CASE pc[t] \in {"copy", "place"} /\ Puts(t, Destination(t))
  BY <1>2, <1>4, <1>7, CopyFits
<1> QED BY <1>3, <1>5, <1>6, <1>7, OperateEffect DEF Effect

Fitting(t) == ClearAbove(t) /\ PutFits(t) /\ MergeFits(t) /\ SourcesThere(t)

(* A step of another call keeps it so. *)
LEMMA OthersKeepFitting ==
    ASSUME Sound, Apartness, NEW t \in Task, Fitting(t), NEW u \in Task \ {t}, Operate(u)
    PROVE  Fitting(t)'
<1> DEFINE r == req[t]
<1>1. /\ pc'[t] = pc[t] /\ todo'[t] = todo[t] /\ req' = req /\ blind \subseteq blind' /\ r \in Request
      /\ pc[u] # "idle" /\ Sound'
  BY OneCallSteps, OperateTyping DEF Alone, Sound, TypeOK, Calls
<1> SUFFICES ASSUME pc[t] \in Calls PROVE Fitting(t)'
  BY <1>1 DEF Fitting, ClearAbove, PutFits, MergeFits, SourcesThere, Calls
<1>2. pc[t] # "idle"
  BY DEF Calls
<1>3. \A k \in Key : Reaches(r, k) => Same(k)
  BY <1>2, Footprint
<1>4. DOMAIN bucket \subseteq Key /\ DOMAIN bucket' \subseteq Key
  BY EffectStore DEF Sound, TypeOK, IsStore
<1>5. Paths(r) \subseteq PathSet /\ r.path \in Paths(r) /\ Goal(r) \in Paths(r)
  <2>1. r.path \in PathSet /\ (r.op = "rename" => r.to \in PathSet)
    BY <1>1, RequestFields
  <2> QED BY <2>1 DEF Paths, Goal
(* A new key is above or below no path of the request. *)
<1>6. ASSUME NEW k \in DOMAIN bucket' \ DOMAIN bucket, NEW p \in Paths(r)
      PROVE  ~Related(p, k.path)
  <2>1. k \in Key /\ Reaches(req[u], k)
    <3>1. PICK x \in Key : Reaches(req[u], x) /\ (Puts(u, x) \/ bucket' = Drop(bucket, x))
      BY <1>6, TouchedKey
    <3>2. k = x
      BY <1>6, <3>1, PutReads, DropReads DEF Puts
    <3> QED BY <1>4, <1>6, <3>1, <3>2
  <2>2. PICK q \in Paths(req[u]) : Seqs!IsPrefix(q, k.path)
    BY <2>1 DEF Reaches
  <2>3. p \in PathSet /\ q \in PathSet /\ k.path \in PathSet
    BY <1>5, <2>1, RequestFields, KeyFields DEF Paths, Sound, TypeOK
  <2>4. ~Related(p, q)
    BY <1>1, <1>2 DEF Apartness
  <2>5. ~Seqs!IsPrefix(p, k.path)
    BY <2>2, <2>3, <2>4, UnrelatedPathsPart
  <2>6. ~Seqs!IsPrefix(k.path, p)
    BY <2>2, <2>3, <2>4, PrefixTransitive DEF Related
  <2> QED BY <2>5, <2>6 DEF Related
<1>7. ClearAbove(t)'
  BY <1>1, <1>5, <1>6 DEF Fitting, ClearAbove, Related
<1>8. PutFits(t)'
  <2> SUFFICES ASSUME pc[t] = "put", NEW x \in DOMAIN bucket'
               PROVE  ~Shadows(x, Target(r))' /\ ~Shadows(Target(r), x)'
    BY <1>1 DEF PutFits
  <2>1. Target(r) \in Key /\ Target(r).path = r.path /\ x \in Key
    BY <1>4, TargetKey
  <2>2. ~Shadows(x, Target(r)) /\ ~Shadows(Target(r), x)
    <3>1. CASE x \in DOMAIN bucket
      BY <3>1 DEF Fitting, PutFits
    <3>2. CASE x \notin DOMAIN bucket
      BY <1>5, <1>6, <2>1, <3>2, ShadowPrefix DEF Related
    <3> QED BY <3>1, <3>2
  <2>3. Target(r)' = Target(r)
    BY <1>1
  <2> QED BY <1>1, <2>2, <2>3, ShadowsFade
<1>9. MergeFits(t)'
  <2> SUFFICES ASSUME r.op = "rename" PROVE Mergeable(r)'
    BY <1>1 DEF MergeFits
  <2>1. \A k \in Key : Seqs!IsPrefix(r.path, k.path) \/ Seqs!IsPrefix(r.to, k.path) => Same(k)
    BY <1>1, <1>3, ReachedPaths
  <2>2. \A p \in {r.path, r.to} : {k \in DOMAIN bucket' : Seqs!IsPrefix(p, k.path)}
                                    \subseteq {k \in DOMAIN bucket : Seqs!IsPrefix(p, k.path)}
    BY <1>4, <2>1 DEF Same
  <2>3. Merged(r)' \subseteq Merged(r)
    BY <1>1, <2>2 DEF Merged
  <2>4. Mergeable(r)
    BY DEF Fitting, MergeFits
  <2> QED BY <1>1, <2>3, <2>4, ShadowsFade DEF Mergeable
<1>10. SourcesThere(t)'
  <2>1. todo[t] \subseteq Key /\ \A k \in todo[t] : Reaches(r, k)
    BY <1>1, ReachedPaths DEF Sound, TypeOK, OnCourse
  <2>2. \A k \in todo[t] : k \in DOMAIN bucket => k \in DOMAIN bucket'
    BY <1>3, <2>1 DEF Same
  <2>3. Source(t)' = Source(t)
    BY <1>1 DEF Source
  <2> QED BY <1>1, <2>2, <2>3 DEF Fitting, SourcesThere
<1> QED BY <1>7, <1>8, <1>9, <1>10 DEF Fitting

(* How a call comes to its put, or makes it once more. *)
LEMMA ComesToPut ==
    ASSUME Sound, NEW t \in Task, Operate(t), pc'[t] = "put"
    PROVE  LET r == req[t]
               k == FileKey(r.path)
           IN  \/ bucket' = bucket /\ k \in DOMAIN bucket /\ Target(r) = k
               \/ /\ bucket' = bucket /\ r.op \in {"create", "write"} /\ pc[t] \in {"head", "list"}
                  /\ r.path \in blind' \/ (pc[t] = "list" /\ ~IsDir(bucket, r.path))
               \/ pc[t] = "put" /\ Puts(t, Target(r))
<1> DEFINE r == req[t]
           k == FileKey(r.path)
<1>1. /\ pc \in [Task -> {"idle", "done"} \cup Calls] /\ buf[t] \in Bytes
      /\ r.op \in {"create", "write", "truncate"}
  BY OneCallSteps, OperateTyping DEF Alone, Sound, TypeOK, OnCourse
<1>2. \A res : ~Answer(t, res)
  BY <1>1 DEF Answer
<1>3. \A call : Goto(t, call) => call = "put"
  BY <1>1 DEF Goto
<1>4. r.op # "create" => Target(r) = k
  BY <1>1 DEF Target, FileKey
<1>5. ASSUME NEW applied, Fails(t, applied)
      PROVE  SelfStat(t) /\ r.path \in blind'
  BY <1>2, <1>5 DEF Fails, AfterFailure, Refuse
<1>6. CASE StatHead(t)
  <2>1. IsOk(Found(Entry("file", Len(bucket[k]))))
    BY DEF IsOk, Found
  <2>2. k \in DOMAIN bucket /\ r.op = "write" /\ bucket' = bucket
    BY <1>1, <1>2, <1>3, <1>6, <2>1 DEF StatHead, AfterStat, Refuse, Reads
  <2> QED BY <1>4, <2>2
<1>7. CASE ListCall(t)
  <2> DEFINE res == IF IsDir(bucket, r.path) THEN Listing(Children(bucket, r.path)) ELSE Err("NotFound")
  <2>1. AfterStat(t, IF IsOk(res) THEN Found(Entry("dir", 0)) ELSE res)
    BY <1>1, <1>7 DEF ListCall
  <2>2. /\ IsOk(Found(Entry("dir", 0))) /\ IsOk(Listing(Children(bucket, r.path)))
        /\ Found(Entry("dir", 0)).entry.kind = "dir"
    BY DEF IsOk, Found, Listing, Entry
  <2>3. ~IsOk(res) /\ r.op \in {"create", "write"}
    <3>1. CASE r.op = "truncate"
      BY <1>7, <3>1 DEF ListCall, Reads, Sound, OnCourse
    <3>2. CASE r.op = "create"
      BY <1>2, <2>1, <2>2, <3>2 DEF AfterStat, Refuse
    <3>3. CASE r.op = "write"
      BY <1>2, <2>1, <2>2, <3>3 DEF AfterStat, Refuse
    <3> QED BY <1>1, <3>1, <3>2, <3>3
  <2>4. ~IsDir(bucket, r.path)
    BY <2>2, <2>3
  <2> QED BY <1>7, <2>3, <2>4 DEF ListCall, Reads
<1>8. CASE WriteGet(t)
  BY <1>3, <1>4, <1>8 DEF WriteGet, Reads
<1>9. CASE TruncateGet(t)
  BY <1>2, <1>4, <1>9 DEF TruncateGet, Reads, Refuse
<1>10. CASE ReadFails(t)
  BY <1>5, <1>10 DEF ReadFails, SelfStat, Fails
<1>11. CASE Repeat(t)
  BY <1>1, <1>11 DEF Repeat, Applied, Puts
<1>12. ~PutCall(t) /\ ~DeleteCall(t)
  BY <1>2, <1>5 DEF PutCall, DeleteCall, SelfStat
<1>13. ~ReadHead(t) /\ ~RemoveHead(t) /\ ~RenameHead(t)
  BY <1>1 DEF ReadHead, RemoveHead, RenameHead
<1>14. ~RangeCall(t) /\ ~WalkCall(t) /\ ~CopyCall(t) /\ ~FetchCall(t) /\ ~PlaceCall(t) /\ ~UnlinkCall(t)
  BY <1>1 DEF RangeCall, WalkCall, CopyCall, FetchCall, PlaceCall, UnlinkCall, Reads, Sound, OnCourse
<1> QED BY <1>6, <1>7, <1>8, <1>9, <1>10, <1>11, <1>12, <1>13, <1>14 DEF Operate

(* Its own step keeps it so. *)
LEMMA PutStaysFitting ==
    ASSUME Sound, NoShadow, NEW t \in Task, Created(t), Fitting(t), Operate(t)
    PROVE  PutFits(t)'
<1> DEFINE r == req[t]
           k == Target(r)
<1>1. req' = req /\ blind \subseteq blind' /\ pc[t] \in Calls /\ r \in Request /\ DOMAIN bucket \subseteq Key
      /\ Sound'
  BY OneCallSteps, OperateTyping DEF Alone, Sound, TypeOK, IsStore
<1> SUFFICES ASSUME pc'[t] = "put", NEW x \in DOMAIN bucket' PROVE ~Shadows(x, k)' /\ ~Shadows(k, x)'
  BY <1>1 DEF PutFits
<1>2. r.op \in {"create", "write", "truncate"} /\ r.path \in PathSet \ {Root}
  BY <1>1, RequestFields DEF Sound, OnCourse
<1>3. k \in Key /\ k.path = r.path /\ (k.dir => r.op = "create")
  BY <1>2 DEF Target, Key
<1>4. CASE bucket' = bucket /\ FileKey(r.path) \in DOMAIN bucket /\ k = FileKey(r.path)
  <2>1. ~Shadows(x, k) /\ ~Shadows(k, x)
    BY <1>4, ShadowFree
  <2> QED BY <1>1, <2>1, ShadowsFade
<1>5. CASE pc[t] = "put" /\ Puts(t, k)
  <2>1. x \in DOMAIN bucket \/ x = k
    BY <1>5, PutReads DEF Puts
  <2>2. ~Shadows(x, k) /\ ~Shadows(k, x)
    BY <1>5, <2>1, NoSelfShadow DEF Fitting, PutFits
  <2> QED BY <1>1, <2>2, ShadowsFade
<1>6. CASE /\ bucket' = bucket /\ r.op \in {"create", "write"} /\ pc[t] \in {"head", "list"}
           /\ r.path \in blind' \/ (pc[t] = "list" /\ ~IsDir(bucket, r.path))
  <2>1. x \in DOMAIN bucket /\ x \in Key
    BY <1>1, <1>6
  <2>2. ASSUME Shadows(x, k)' PROVE FALSE
    <3>1. Shadows(x, k) /\ x.path \notin blind'
      BY <1>1, <2>2, ShadowsFade DEF Shadows
    <3>2. Seqs!IsPrefix(x.path, r.path) /\ ~x.dir /\ x.path \notin blind
      BY <1>3, <2>1, <3>1, ShadowPrefix
    <3>3. x.path = r.path
      BY <1>1, <1>6, <2>1, <3>2 DEF Fitting, ClearAbove, Goal
    <3>4. x = FileKey(r.path) /\ k.dir
      BY <1>2, <1>3, <2>1, <3>1, <3>2, <3>3, KeyFields, KeysOfPath DEF Shadows, StartsWith
    <3> QED BY <1>3, <1>6, <2>1, <3>1, <3>3, <3>4 DEF Created
  <2>3. ASSUME Shadows(k, x)' PROVE FALSE
    <3>1. StartsWith(x, r.path) /\ r.path \notin blind'
      BY <1>1, <1>3, <2>3 DEF Shadows
    <3> QED BY <1>6, <2>1, <3>1 DEF IsDir, HasPrefix
  <2> QED BY <2>2, <2>3
<1> QED BY <1>4, <1>5, <1>6, ComesToPut

LEMMA PathStaysClear ==
    ASSUME Sound, NEW t \in Task, Fitting(t), Operate(t)
    PROVE  ClearAbove(t)'
<1> DEFINE r == req[t]
<1>1. req' = req /\ blind \subseteq blind' /\ pc[t] \in Calls /\ r \in Request /\ DOMAIN bucket \subseteq Key
  BY OneCallSteps DEF Alone, Sound, TypeOK, IsStore
<1> SUFFICES ASSUME r.op \in {"create", "write", "rename"},
                    NEW a \in DOMAIN bucket', ~a.dir, Seqs!IsPrefix(a.path, Goal(r))
             PROVE  a.path = Goal(r) \/ a.path \in blind'
  BY <1>1 DEF ClearAbove
<1>2. CASE a \in DOMAIN bucket
  BY <1>1, <1>2 DEF Fitting, ClearAbove
<1>3. CASE a \notin DOMAIN bucket
  <2>1. CASE pc[t] = "put" /\ Puts(t, Target(r))
    <3>1. a = Target(r) /\ r.op \in {"create", "write"}
      BY <1>3, <2>1, PutReads DEF Puts, Sound, OnCourse
    <3> QED BY <3>1, <2>1, TargetKey DEF Goal
  <2>2. CASE pc[t] \in {"copy", "place"} /\ Puts(t, Destination(t))
    <3>1. a = Destination(t) /\ r.op = "rename"
      BY <1>3, <2>2, PutReads, MovedKeys DEF Puts
    <3>2. Seqs!IsPrefix(r.to, a.path) /\ a.path \in PathSet /\ r.to \in PathSet /\ Goal(r) = r.to
      BY <2>2, <3>1, MovedKeys, KeyFields DEF Goal
    <3>3. Len(r.to) <= Len(a.path)
      BY <3>2, PrefixByName
    <3> QED BY <3>2, <3>3, PrefixAntisymmetric
  <2> QED BY <1>3, <2>1, <2>2, OperateEffect, DropReads DEF Effect
<1> QED BY <1>2, <1>3

LEMMA TreesStayMergeable ==
    ASSUME Sound, Apartness, NEW t \in Task, Fitting(t), Operate(t)
    PROVE  MergeFits(t)'
<1> DEFINE r == req[t]
<1>1. req' = req /\ blind \subseteq blind' /\ pc[t] \in Calls /\ r \in Request
  BY OneCallSteps DEF Alone, Sound, TypeOK
<1> SUFFICES ASSUME r.op = "rename" PROVE Mergeable(r)'
  BY <1>1 DEF MergeFits
<1>2. Mergeable(r)
  BY <1>1 DEF Fitting, MergeFits
<1>3. Merged(r)' \subseteq Merged(r)
  <2>1. CASE DOMAIN bucket' \subseteq DOMAIN bucket
    BY <1>1, <2>1 DEF Merged
  <2>2. CASE pc[t] \in {"copy", "place"} /\ Puts(t, Destination(t))
    <3> DEFINE d == Destination(t)
    <3>1. DOMAIN bucket' \subseteq DOMAIN bucket \cup {d}
      BY <2>2, PutReads DEF Puts
    <3>2. ~Seqs!IsPrefix(r.path, d.path)
      BY <2>2, MovesElsewhere
    <3>3. d \in Merged(r)
      BY <2>2, MovedKeys DEF Fitting, SourcesThere, Merged, Destination
    <3>4. {k \in DOMAIN bucket' : Seqs!IsPrefix(r.path, k.path)}
              \subseteq {k \in DOMAIN bucket : Seqs!IsPrefix(r.path, k.path)}
      BY <3>1, <3>2
    <3>5. {k \in DOMAIN bucket' : Seqs!IsPrefix(r.to, k.path)}
              \subseteq {k \in DOMAIN bucket : Seqs!IsPrefix(r.to, k.path)} \cup {d}
      BY <3>1
    <3> HIDE DEF d
    <3> QED BY <1>1, <3>3, <3>4, <3>5 DEF Merged
  <2>3. pc[t] # "put"
    BY DEF Sound, OnCourse
  <2> QED BY <2>1, <2>2, <2>3, OperateEffect, DropReads DEF Effect
<1> QED BY <1>1, <1>2, <1>3, ShadowsFade DEF Mergeable

LEMMA SourcesStayThere ==
    ASSUME Sound, Apartness, NEW t \in Task, Fitting(t), Operate(t)
    PROVE  SourcesThere(t)'
<1> DEFINE s == Source(t)
<1>1. req' = req /\ Sound'
  BY OneCallSteps, OperateTyping DEF Alone
<1> SUFFICES ASSUME pc'[t] \in {"copy", "place", "unlink"} PROVE SourcesThere(t)'
  BY DEF SourcesThere
<1>2. req[t].op = "rename"
  BY <1>1 DEF Sound, OnCourse
<1>3. \A k : (\E v : bucket' = Put(bucket, k, v)) => DOMAIN bucket \subseteq DOMAIN bucket'
  BY PutReads
<1>4. bucket' = CopyOf(t) => DOMAIN bucket \subseteq DOMAIN bucket'
  BY <1>3 DEF CopyOf, Copied
<1>5. bucket' = Drop(bucket, s) => DOMAIN bucket \ {s} \subseteq DOMAIN bucket'
  BY DropReads
<1>6. CASE Begins(t)
  BY <1>6 DEF Begins, SourcesThere
<1>7. CASE Walks(t)
  BY <1>7 DEF Walks, SourcesThere
<1>8. CASE Advances(t)
  <2>1. Source(t)' = s /\ todo'[t] = todo[t]
    BY <1>8 DEF Advances, Source
  <2>2. \/ pc[t] \in {"copy", "place"} /\ DOMAIN bucket \subseteq DOMAIN bucket'
        \/ pc[t] = "unlink" /\ pc'[t] = "unlink" /\ bucket' = Drop(bucket, s)
    BY <1>3, <1>4, <1>8 DEF Advances, Made, Copied
  <2> QED BY <1>5, <2>1, <2>2 DEF Fitting, SourcesThere
<1>9. CASE Unlinks(t)
  BY <1>5, <1>9 DEF Unlinks, Fitting, SourcesThere
<1>10. ~GivesUp(t)
  BY DEF GivesUp
<1> QED BY <1>2, <1>6, <1>7, <1>8, <1>9, <1>10, RenameSteps

(* A call starts with nothing above it a file. *)
LEMMA StartsClear ==
    ASSUME Sound, NoShadow, NEW t \in Task, NEW r \in Request, Start(t, r),
           r.op \in {"create", "write", "rename"},
           NEW a \in DOMAIN bucket, ~a.dir, Seqs!IsPrefix(a.path, Goal(r))
    PROVE  a.path = Goal(r) \/ a.path \in blind
<1> DEFINE p == Goal(r)
<1>1. p \in PathSet \ {Root} /\ a \in Key /\ a.path \in PathSet /\ a.path # Root
  BY RequestFields, StoredBytes, KeyFields DEF Goal, Sound, TypeOK
<1> SUFFICES ASSUME a.path # p PROVE a.path \in blind
  OBVIOUS
<1>2. CASE r.op = "write"
  <2> DEFINE n == Len(a.path)
  <2>1. a.path = SubSeq(p, 1, n)
    BY <1>1, PrefixIsInitial
  <2>2. n \in Nat /\ n # 0 /\ Len(p) \in Nat /\ n <= Len(p)
    BY <1>1, PrefixByName DEF PathSet, Root
  <2>3. ~(Len(p) <= n)
    BY <1>1, PrefixAntisymmetric
  <2>4. n \in 1..(Len(p) - 1)
    BY <2>2, <2>3
  <2>5. ~HasFile(bucket, SubSeq(p, 1, n))
    BY <1>2, <2>4 DEF Start, Admissible, Goal
  <2>6. a = FileKey(a.path)
    BY <1>1, KeysOfPath, KeyFields
  <2> QED BY <2>1, <2>5, <2>6 DEF HasFile
<1>3. CASE r.op # "write"
  <2> DEFINE q == Parent(p)
  <2>1. q \in PathSet /\ Seqs!IsPrefix(a.path, q)
    BY <1>1, ParentPath
  <2>2. IsDir(bucket, q)
    BY <1>3 DEF Start, Admissible, Goal
  <2>3. q # Root
    <3>1. Len(a.path) <= Len(q) /\ Len(a.path) \in Nat /\ Len(a.path) # 0
      BY <1>1, <2>1, PrefixByName DEF PathSet, Root
    <3> HIDE DEF q
    <3> QED BY <3>1 DEF Root
  <2>4. PICK b \in DOMAIN bucket : StartsWith(b, q)
    BY <2>2, <2>3 DEF IsDir, HasPrefix
  <2>5. b \in Key /\ b.path \in PathSet /\ Seqs!IsPrefix(q, b.path)
    BY <2>4, StoredBytes, KeyFields DEF StartsWith, Sound, TypeOK
  <2>6. Seqs!IsPrefix(a.path, b.path)
    BY <1>1, <2>1, <2>5, PrefixTransitive
  <2>7. b.path = a.path => b.dir
    <3>1. b.path = a.path => q = b.path
      BY <2>1, <2>5, PrefixByName, PrefixAntisymmetric
    <3> QED BY <2>4, <3>1 DEF StartsWith
  <2>8. StartsWith(b, a.path)
    BY <2>6, <2>7 DEF StartsWith
  <2> QED BY <2>8, ShadowFree DEF Shadows
<1> QED BY <1>2, <1>3

(* It hangs on the call and on which objects there are. *)
LEMMA FittingStays ==
    ASSUME NEW t \in Task, Fitting(t), UNCHANGED <<bucket, blind>>,
           pc'[t] = pc[t], req'[t] = req[t], todo'[t] = todo[t]
    PROVE  Fitting(t)'
<1>1. \A a, b : Shadows(a, b)' = Shadows(a, b)
  BY DEF Shadows
<1>2. Merged(req[t])' = Merged(req[t])
  BY DEF Merged
<1>3. Mergeable(req[t])' = Mergeable(req[t])
  BY <1>1, <1>2 DEF Mergeable
<1>4. Source(t)' = Source(t)
  BY DEF Source
<1>5. ClearAbove(t)' /\ SourcesThere(t)'
  BY <1>4 DEF Fitting, ClearAbove, SourcesThere
<1>6. PutFits(t)'
  BY <1>1 DEF Fitting, PutFits
<1>7. MergeFits(t)'
  BY <1>3 DEF Fitting, MergeFits
<1> QED BY <1>5, <1>6, <1>7 DEF Fitting

ShadowInv == CreateInv /\ NoShadow /\ \A t \in Task : Fitting(t)

LEMMA InitShadow == SeedsFit /\ Init => ShadowInv
<1> SUFFICES ASSUME SeedsFit, Init PROVE ShadowInv
  OBVIOUS
<1>1. NoShadow
  BY DEF SeedsFit, Init, NoShadow
<1>2. \A t \in Task : pc[t] = "idle"
  BY DEF Init
<1>3. \A t \in Task : Fitting(t)
  BY <1>2 DEF Fitting, ClearAbove, PutFits, MergeFits, SourcesThere, Calls
<1> QED BY <1>1, <1>3, InitCreate DEF ShadowInv

(* A call starts fitting in. *)
LEMMA StartFits ==
    ASSUME Sound, NoShadow, RenamesFit, NEW t \in Task, NEW r \in Request, Start(t, r)
    PROVE  Fitting(t)'
<1>1. /\ UNCHANGED <<bucket, blind>> /\ req'[t] = r
      /\ pc'[t] \in {"done", "list", "get", "head"}
  BY DEF Start, FirstCall, tally, Sound, TypeOK
<1>2. ClearAbove(t)'
  <2> SUFFICES ASSUME r.op \in {"create", "write", "rename"},
                      NEW a \in DOMAIN bucket, ~a.dir, Seqs!IsPrefix(a.path, Goal(r))
               PROVE  a.path = Goal(r) \/ a.path \in blind
    BY <1>1 DEF ClearAbove
  <2> QED BY StartsClear
<1>3. PutFits(t)' /\ SourcesThere(t)'
  BY <1>1 DEF PutFits, SourcesThere
<1>4. MergeFits(t)'
  <2> SUFFICES ASSUME r.op = "rename" PROVE Mergeable(r)'
    BY <1>1 DEF MergeFits
  <2>1. Mergeable(r)
    BY DEF RenamesFit
  <2>2. Merged(r)' = Merged(r) /\ \A a, b : Shadows(a, b)' = Shadows(a, b)
    BY <1>1 DEF Merged, Shadows
  <2> QED BY <2>1, <2>2 DEF Mergeable
<1> QED BY <1>2, <1>3, <1>4 DEF Fitting

LEMMA StepShadow ==
    ASSUME Serial PROVE ShadowInv /\ [RenamesFit]_vars /\ [Next]_vars => ShadowInv'
<1> SUFFICES ASSUME ShadowInv, [RenamesFit]_vars, [Next]_vars PROVE ShadowInv'
  OBVIOUS
<1>1. CreateInv'
  BY StepCreate DEF ShadowInv
<1>2. Sound /\ Apartness /\ NoShadow /\ \A t \in Task : Created(t) /\ Fitting(t)
  BY DEF ShadowInv, CreateInv
<1>3. bucket' = bucket /\ blind' = blind => NoShadow'
  BY <1>2 DEF NoShadow, HasPrefix
<1>4. CASE UNCHANGED vars
  <2>1. \A t \in Task : Fitting(t)'
    BY <1>2, <1>4, FittingStays DEF vars, locals, tally
  <2> QED BY <1>1, <1>3, <1>4, <2>1 DEF vars, tally, ShadowInv
<1>5. ASSUME NEW u \in Task, Operate(u) PROVE ShadowInv'
  <2>1. NoShadow'
    BY <1>2, <1>5, OperateKeepsPlain DEF Fitting
  <2>2. Fitting(u)'
    BY <1>2, <1>5, PutStaysFitting, PathStaysClear, TreesStayMergeable, SourcesStayThere DEF Fitting
  <2>3. \A t \in Task \ {u} : Fitting(t)'
    BY <1>2, <1>5, OthersKeepFitting
  <2> QED BY <1>1, <2>1, <2>2, <2>3 DEF ShadowInv
<1>6. ASSUME NEW u \in Task, NEW r \in Request, Start(u, r) PROVE ShadowInv'
  <2>1. /\ UNCHANGED <<bucket, blind, todo>> /\ pc[u] = "idle" /\ pc'[u] # "idle"
        /\ \A t \in Task \ {u} : pc'[t] = pc[t] /\ req'[t] = req[t]
    BY <1>2, <1>6 DEF Start, FirstCall, locals, tally, Sound, TypeOK
  <2>2. RenamesFit
    BY <2>1 DEF vars
  <2>3. Fitting(u)'
    BY <1>2, <1>6, <2>2, StartFits
  <2>4. \A t \in Task \ {u} : Fitting(t)'
    BY <1>2, <2>1, FittingStays
  <2> QED BY <1>1, <1>3, <2>1, <2>3, <2>4 DEF ShadowInv
<1>7. ASSUME NEW u \in Task, Return(u) PROVE ShadowInv'
  <2>1. /\ UNCHANGED <<bucket, blind>> /\ pc'[u] = "idle"
        /\ \A t \in Task \ {u} : pc'[t] = pc[t] /\ req'[t] = req[t] /\ todo'[t] = todo[t]
    BY <1>2, <1>7 DEF Return, tally, Sound, TypeOK
  <2>2. Fitting(u)'
    BY <2>1 DEF Fitting, ClearAbove, PutFits, MergeFits, SourcesThere, Calls
  <2>3. \A t \in Task \ {u} : Fitting(t)'
    BY <1>2, <2>1, FittingStays
  <2> QED BY <1>1, <1>3, <2>1, <2>2, <2>3 DEF ShadowInv
<1> QED BY <1>4, <1>5, <1>6, <1>7 DEF Next

(* No path becomes a file and a directory at once (but by a create or a    *)
(* write whose own stat has failed), for any requests, however operator    *)
(* calls fail and are made again, where callers keep related paths apart,  *)
(* the volume is mounted on a bucket that has no such path, and no rename  *)
(* is asked for that merges two trees which disagree on what is a file:    *)
(* rename looks at what is at its source, never at its target, and such a  *)
(* rename, like racing creates, makes such a path.                         *)
THEOREM PathsStayFileOrDirectory ==
    ASSUME Serial, SeedsFit PROVE Spec /\ [][RenamesFit]_vars => []NoShadow
<1>1. Init => ShadowInv
  BY InitShadow
<1>2. ShadowInv /\ [RenamesFit]_vars /\ [Next]_vars => ShadowInv'
  BY StepShadow
<1>3. ShadowInv => NoShadow
  BY DEF ShadowInv
<1> QED BY <1>1, <1>2, <1>3, PTL DEF Spec

(* So a rename that answers Ok leaves no file behind, as long as no stat of*)
(* a create or a write has failed for good.                                *)
COROLLARY RenamesOfAPlainTree ==
    ASSUME Serial, SeedsFit
    PROVE  Spec /\ [][RenamesFit]_vars /\ [](blind = {}) => []RenameOkMovesAll
<1>1. Spec /\ [][RenamesFit]_vars => []NoShadow
  BY PathsStayFileOrDirectory
<1>2. NoShadow /\ blind = {} => PlainTree
  BY PlainWithoutBlindStores
<1>3. Spec /\ []PlainTree => []RenameOkMovesAll
  BY RenamesMoveAll
<1> QED BY <1>1, <1>2, <1>3, PTL

-----------------------------------------------------------------------------
(* Overlapping renames: where the bytes b are while tasks move them on.    *)

(* Of the keys b can be at, those that are there hold it, and one is.      *)
Held(home, b) ==
    /\ \A k \in home \cap DOMAIN bucket : bucket[k] = b
    /\ home \cap DOMAIN bucket # {}

(* Some key further on than s is there. *)
FurtherOn(home, rank, s) == \E k \in home \cap DOMAIN bucket : rank[k] > rank[s]

(* A rename carries b between its read and its write, and has put it       *)
(* further on, or has seen another do so, when it deletes.                 *)
Carries(t, home, rank, b) ==
    /\ pc[t] = "place" /\ Source(t) \in home => buf[t] = b
    /\ pc[t] = "unlink" /\ Source(t) \in home => FurtherOn(home, rank, Source(t))

MovesOn(home, rank, b) ==
    Sound /\ Held(home, b) /\ \A t \in Task : Carries(t, home, rank, b)

LEMMA HomeFields ==
    ASSUME NEW home, NEW rank, NEW b, Onward(home, rank, b)
    PROVE  \A k \in home : k \in Key /\ ~k.dir /\ rank[k] \in Nat
BY DEF Onward

(* A rename takes a home to a home further on, and nothing else to one.    *)
LEMMA HomesMoveOn ==
    ASSUME NEW home, NEW rank, NEW b, Onward(home, rank, b), Sound,
           NEW t \in Task, pc[t] \in {"copy", "place", "unlink"}
    PROVE  /\ Source(t) \in home =>
                Destination(t) \in home /\ rank[Destination(t)] > rank[Source(t)]
           /\ Destination(t) \in home => Source(t) \in home
<1>1. PICK r \in Request : r = req[t]
  BY DEF Sound, TypeOK
<1>2. PICK s, l : s = Source(t) /\ l = Destination(t)
  OBVIOUS
<1>3. /\ r.op = "rename" /\ r.path \in PathSet \ {Root} /\ r.to \in PathSet \ {Root}
      /\ s \in Key /\ Seqs!IsPrefix(r.path, s.path) /\ Seqs!IsPrefix(r.to, l.path)
      /\ l = Rekey(s, r.path, r.to)
  BY <1>1, <1>2, MovedKeys DEF Destination
<1>4. ASSUME s \in home PROVE l \in home /\ rank[l] > rank[s]
  BY <1>3, <1>4 DEF Onward
<1>5. ASSUME l \in home PROVE s \in home
  <2>1. Rekey(l, r.to, r.path) \in home
    BY <1>3, <1>5 DEF Onward
  <2> QED BY <1>3, <2>1, RekeyInverse
<1> QED BY <1>2, <1>4, <1>5

(* What a step of a call does to the keys of the homes: nothing, or one    *)
(* call of a rename's loop with such a key.                                *)
Forwards(t, home) ==
    /\ Source(t) \in home
    /\ \/ /\ pc[t] = "copy" /\ Source(t) \in DOMAIN bucket
          /\ bucket' = Put(bucket, Destination(t), bucket[Source(t)])
       \/ pc[t] = "place" /\ bucket' = Put(bucket, Destination(t), buf[t])
       \/ pc[t] = "unlink" /\ bucket' = Drop(bucket, Source(t))

LEMMA OthersMutate ==
    ASSUME Sound, NEW t \in Task, req[t].op # "rename", Operate(t), bucket' # bucket
    PROVE  /\ req[t].op \in {"create", "write", "truncate", "remove"}
           /\ \/ \E v : bucket' = Put(bucket, Target(req[t]), v)
              \/ bucket' = Drop(bucket, Target(req[t]))
<1>1. pc[t] \notin {"copy", "place", "unlink"}
  BY DEF Sound, OnCourse
<1>2. CASE PutCall(t)
  BY <1>2, FailureEffect DEF PutCall, Sound, OnCourse
<1>3. CASE DeleteCall(t)
  BY <1>3, FailureEffect DEF DeleteCall, Sound, OnCourse
<1>4. CASE Repeat(t)
  BY <1>1, <1>4 DEF Repeat, Applied, Sound, OnCourse
<1>5. CASE ReadFails(t)
  BY <1>5, FailureEffect DEF ReadFails
<1> QED BY <1>1, <1>2, <1>3, <1>4, <1>5
     DEF Operate, StatHead, ReadHead, RemoveHead, RenameHead, ListCall, RangeCall, WriteGet,
         TruncateGet, WalkCall, Reads, CopyCall, FetchCall, PlaceCall, UnlinkCall

LEMMA HomeSteps ==
    ASSUME NEW home, NEW rank, NEW b, Onward(home, rank, b), Sound, NEW t \in Task, Operate(t)
    PROVE  (\A k \in home : Same(k)) \/ Forwards(t, home)
<1>1. CASE bucket' = bucket
  BY <1>1 DEF Same
<1>2. CASE req[t].op # "rename" /\ bucket' # bucket
  <2>1. PICK r \in Request : r = req[t]
    BY DEF Sound, TypeOK
  <2>2. \A k \in home : k # Target(r)
    BY <1>2, <2>1, OthersMutate DEF Onward
  <2>3. \/ \E v : bucket' = Put(bucket, Target(r), v)
        \/ bucket' = Drop(bucket, Target(r))
    BY <1>2, <2>1, OthersMutate
  <2> QED BY <2>2, <2>3, PutReads, DropReads DEF Same
<1>3. CASE req[t].op = "rename" /\ bucket' # bucket
  <2>1. Made(t)
    BY <1>3, RenameSteps DEF Begins, Walks, Advances, Unlinks, GivesUp, Made
  <2>2. PICK s, l : s = Source(t) /\ l = Destination(t)
    OBVIOUS
  <2>3. pc[t] \in {"copy", "place", "unlink"}
    BY <2>1 DEF Made
  <2>4. CASE s \in home
    <3>1. ~s.dir
      BY <2>4, HomeFields
    <3> QED BY <1>3, <2>1, <2>2, <2>4, <3>1 DEF Made, Forwards, CopyOf, Copied
  <2>5. CASE s \notin home
    <3>1. l \notin home
      BY <2>2, <2>3, <2>5, HomesMoveOn
    <3>2. (\E v : bucket' = Put(bucket, l, v)) \/ bucket' = Drop(bucket, s)
      BY <1>3, <2>1, <2>2 DEF Made, CopyOf, Copied
    <3> QED BY <2>5, <3>1, <3>2, PutReads, DropReads DEF Same
  <2> QED BY <2>4, <2>5
<1> QED BY <1>1, <1>2, <1>3

(* No step empties the homes or changes what they hold, and what is        *)
(* further on than a key stays so: a key is only dropped when a home       *)
(* further on than it is there.                                            *)
LEMMA HomesStayHeld ==
    ASSUME NEW home, NEW rank, NEW b, Onward(home, rank, b), MovesOn(home, rank, b),
           NEW t \in Task, Operate(t)
    PROVE  /\ Held(home, b)'
           /\ \A s \in home : FurtherOn(home, rank, s) => FurtherOn(home, rank, s)'
<1>1. Sound /\ Held(home, b) /\ Carries(t, home, rank, b)
  BY DEF MovesOn
<1>2. CASE \A k \in home : Same(k)
  BY <1>1, <1>2 DEF Same, Held, FurtherOn
<1>3. CASE Forwards(t, home)
  <2>1. PICK s, l : s = Source(t) /\ l = Destination(t)
    OBVIOUS
  <2>2. s \in home /\ l \in home /\ rank[s] \in Nat /\ rank[l] \in Nat /\ rank[l] > rank[s]
    BY <1>1, <1>3, <2>1, HomesMoveOn, HomeFields DEF Forwards
  <2>3. CASE bucket' = Put(bucket, l, b)
    BY <1>1, <2>2, <2>3, PutReads DEF Held, FurtherOn
  <2>4. CASE pc[t] = "unlink" /\ bucket' = Drop(bucket, s)
    <3>1. PICK w \in home \cap DOMAIN bucket : rank[w] > rank[s]
      BY <1>1, <2>1, <2>2, <2>4 DEF Carries, FurtherOn
    <3>2. w # s /\ w \in DOMAIN bucket' /\ bucket'[w] = bucket[w]
      BY <2>2, <2>4, <3>1, DropReads
    <3>3. Held(home, b)'
      BY <1>1, <2>4, <3>1, <3>2, DropReads DEF Held
    <3>4. ASSUME NEW x \in home, FurtherOn(home, rank, x) PROVE FurtherOn(home, rank, x)'
      <4>1. PICK y \in home \cap DOMAIN bucket : rank[y] > rank[x]
        BY <3>4 DEF FurtherOn
      <4>2. CASE y # s
        BY <2>4, <4>1, <4>2, DropReads DEF FurtherOn
      <4>3. CASE y = s
        <5>1. rank[w] > rank[x]
          BY <2>2, <3>1, <4>1, <4>3, HomeFields
        <5> QED BY <3>1, <3>2, <5>1 DEF FurtherOn
      <4> QED BY <4>2, <4>3
    <3> QED BY <3>3, <3>4
  <2>5. \/ bucket' = Put(bucket, l, b)
        \/ pc[t] = "unlink" /\ bucket' = Drop(bucket, s)
    BY <1>1, <1>3, <2>1, <2>2 DEF Forwards, Held, Carries
  <2> QED BY <2>3, <2>4, <2>5
<1> QED BY <1>1, <1>2, <1>3, HomeSteps

(* The rename that steps: what it read was b, and where it put it is       *)
(* further on.                                                             *)
LEMMA CarrierSteps ==
    ASSUME NEW home, NEW rank, NEW b, Onward(home, rank, b), MovesOn(home, rank, b),
           NEW t \in Task, Operate(t)
    PROVE  Carries(t, home, rank, b)'
<1>1. Sound /\ Held(home, b) /\ Carries(t, home, rank, b)
  BY DEF MovesOn
<1>2. req' = req /\ Sound'
  BY <1>1, OneCallSteps, OperateTyping DEF Alone
<1> SUFFICES ASSUME pc'[t] \in {"place", "unlink"}, Source(t)' \in home
             PROVE  Carries(t, home, rank, b)'
  BY DEF Carries
<1>3. Advances(t)
  BY <1>1, <1>2, RenameSteps DEF Begins, Walks, Unlinks, GivesUp, Sound, OnCourse
<1>4. PICK s, l : s = Source(t) /\ l = Destination(t)
  OBVIOUS
<1>5. Source(t)' = s /\ s \in home /\ ~s.dir
  BY <1>3, <1>4, HomeFields DEF Advances, Source
<1>6. pc[t] \in {"copy", "place", "unlink"}
  BY <1>3 DEF Advances, Made
<1>7. l \in home /\ rank[l] > rank[s]
  BY <1>1, <1>4, <1>5, <1>6, HomesMoveOn
<1>8. CASE pc'[t] = "place"
  <2>1. buf'[t] = b
    BY <1>1, <1>3, <1>4, <1>5, <1>8 DEF Advances, Made, Held, Carries
  <2> QED BY <1>8, <2>1 DEF Carries
<1>9. CASE pc'[t] = "unlink"
  <2>1. ASSUME pc[t] = "unlink" PROVE FurtherOn(home, rank, s)'
    <3>1. FurtherOn(home, rank, s)
      BY <1>1, <1>4, <1>5, <2>1 DEF Carries
    <3> QED BY <1>5, <3>1, HomesStayHeld
  <2>2. ASSUME pc[t] # "unlink" PROVE FurtherOn(home, rank, s)'
    <3>1. \E v : bucket' = Put(bucket, l, v)
      BY <1>3, <1>4, <1>5, <1>9, <2>2 DEF Advances, Made, CopyOf, Copied
    <3>2. l \in DOMAIN bucket'
      BY <3>1, PutReads
    <3> QED BY <1>7, <3>2 DEF FurtherOn
  <2>3. FurtherOn(home, rank, s)'
    BY <2>1, <2>2
  <2> QED BY <1>5, <1>9, <2>3 DEF Carries, FurtherOn
<1> QED BY <1>6, <1>8, <1>9

LEMMA InitMovesOn ==
    ASSUME NEW home, NEW rank, NEW b, Onward(home, rank, b), Init
    PROVE  MovesOn(home, rank, b)
BY InitTyping DEF MovesOn, Onward, Init, Held, Carries

LEMMA StepMovesOn ==
    ASSUME NEW home, NEW rank, NEW b, Onward(home, rank, b), MovesOn(home, rank, b), [Next]_vars
    PROVE  MovesOn(home, rank, b)'
<1>1. Sound /\ Sound'
  BY StepTyping DEF MovesOn
<1>2. CASE UNCHANGED vars
  BY <1>1, <1>2 DEF vars, locals, tally, MovesOn, Held, Carries, FurtherOn, Source
<1>3. ASSUME NEW u \in Task, Operate(u) PROVE MovesOn(home, rank, b)'
  <2>1. Held(home, b)' /\ Carries(u, home, rank, b)'
    BY <1>3, HomesStayHeld, CarrierSteps
  <2>2. ASSUME NEW t \in Task \ {u} PROVE Carries(t, home, rank, b)'
    <3>1. pc'[t] = pc[t] /\ buf'[t] = buf[t] /\ todo'[t] = todo[t] /\ Source(t)' = Source(t)
      BY <1>1, <1>3, OneCallSteps DEF Alone, Source
    <3>2. Carries(t, home, rank, b)
      BY DEF MovesOn
    <3>3. ASSUME pc[t] = "unlink", Source(t) \in home PROVE FurtherOn(home, rank, Source(t))'
      <4>1. PICK s \in home : s = Source(t)
        BY <3>3
      <4>2. FurtherOn(home, rank, s)'
        BY <1>3, <3>2, <3>3, <4>1, HomesStayHeld DEF Carries
      <4> QED BY <3>1, <4>1, <4>2 DEF FurtherOn
    <3> QED BY <3>1, <3>2, <3>3 DEF Carries
  <2> QED BY <1>1, <2>1, <2>2 DEF MovesOn
<1>4. ASSUME NEW u \in Task, (\E r \in Request : Start(u, r)) \/ Return(u)
      PROVE  MovesOn(home, rank, b)'
  <2>1. /\ bucket' = bucket /\ pc'[u] \notin {"place", "unlink"}
        /\ \A v \in Task \ {u} : pc'[v] = pc[v] /\ buf'[v] = buf[v] /\ todo'[v] = todo[v]
    BY <1>1, <1>4 DEF Start, Return, FirstCall, locals, tally, Sound, TypeOK
  <2>2. ASSUME NEW t \in Task PROVE Carries(t, home, rank, b)'
    <3>1. CASE t = u
      BY <2>1, <3>1 DEF Carries
    <3>2. CASE t # u
      BY <2>1, <3>2 DEF MovesOn, Carries, FurtherOn, Source
    <3> QED BY <3>1, <3>2
  <2>3. Held(home, b)'
    BY <2>1 DEF MovesOn, Held
  <2> QED BY <1>1, <2>2, <2>3 DEF MovesOn
<1> QED BY <1>2, <1>3, <1>4 DEF Next

(* Bytes that only move on are never lost: however renames of overlapping  *)
(* trees race, by memory or by the service, and whichever calls fail, are  *)
(* applied with their answer lost or are made twice, a key holds them.     *)
THEOREM BytesThatMoveOnSurvive ==
    ASSUME NEW home, NEW rank, NEW b, Onward(home, rank, b)
    PROVE  Spec => [](\E k \in DOMAIN bucket : bucket[k] = b)
<1>1. MovesOn(home, rank, b) => \E k \in DOMAIN bucket : bucket[k] = b
  BY DEF MovesOn, Held
<1>2. Init => MovesOn(home, rank, b)
  BY InitMovesOn
<1>3. MovesOn(home, rank, b) /\ [Next]_vars => MovesOn(home, rank, b)'
  BY StepMovesOn
<1> QED BY <1>1, <1>2, <1>3, PTL DEF Spec

(* So every seeded file survives where its bytes only move on.             *)
THEOREM RacingRenamesKeepBytes ==
    ASSUME NEW home1, NEW rank1, Onward(home1, rank1, << 1 >>),
           NEW home2, NEW rank2, Onward(home2, rank2, << 2 >>)
    PROVE  Spec => []SeededBytesSurvive
<1> DEFINE Inv == MovesOn(home1, rank1, << 1 >>) /\ MovesOn(home2, rank2, << 2 >>)
<1>1. Inv => SeededBytesSurvive
  BY DEF MovesOn, Held, SeededBytesSurvive
<1>2. Init => Inv
  BY InitMovesOn
<1>3. Inv /\ [Next]_vars => Inv'
  BY StepMovesOn
<1> QED BY <1>1, <1>2, <1>3, PTL DEF Spec

-----------------------------------------------------------------------------
(* Termination: every step of a call brings it closer to its answer.       *)

LEMMA Stages ==
    /\ Stage("get") = 0 /\ Stage("head") = 1 /\ Stage("list") = 2 /\ Stage("walk") = 2
    /\ Stage("range") = 3 /\ Stage("put") = 3 /\ Stage("delete") = 3 /\ Stage("copy") = 3
    /\ Stage("place") = 4 /\ Stage("unlink") = 5
BY DEF Stage

LEMMA AnswersGetOn == ASSUME Sound, NEW t \in Task, NEW res, Answer(t, res) PROVE GetsOn(t)
BY DEF Answer, GetsOn, Sound, TypeOK

LEMMA GoesGetOn ==
    ASSUME Sound, NEW t \in Task, NEW call \in Calls, Goto(t, call), Stage(pc[t]) < Stage(call),
           pc[t] \in {"copy", "place"} => todo'[t] = todo[t]
    PROVE  GetsOn(t)
BY DEF Goto, GetsOn, Sound, TypeOK

LEMMA AfterStatGetsOn ==
    ASSUME Sound, NEW t \in Task, NEW res, AfterStat(t, res), pc[t] \in {"head", "list"},
           req[t].op \in {"stat", "create", "write"}
    PROVE  GetsOn(t)
<1>1. (\E r : Answer(t, r)) \/ (\E b : Store(t, b))
  BY DEF AfterStat, Refuse
<1>2. "put" \in Calls /\ Stage(pc[t]) < Stage("put")
  BY Stages DEF Calls
<1> QED BY <1>1, <1>2, AnswersGetOn, GoesGetOn DEF Store

LEMMA FailuresGetOn ==
    ASSUME Sound, NEW t \in Task, NEW applied, Fails(t, applied)
    PROVE  GetsOn(t)
<1>1. CASE SelfStat(t)
  BY <1>1, AfterStatGetsOn DEF Fails, AfterFailure, SelfStat
<1>2. CASE ~SelfStat(t)
  BY <1>2, AnswersGetOn DEF Fails, AfterFailure, Refuse
<1> QED BY <1>1, <1>2

LEMMA StepsGetOn ==
    ASSUME Sound, NEW t \in Task, Operate(t)
    PROVE  GetsOn(t) \/ Repeat(t)
<1>1. Calls = {"head", "list", "get", "range", "walk", "put", "delete", "copy", "place", "unlink"}
  BY DEF Calls
<1>2. ASSUME NEW call \in Calls, Goto(t, call), Stage(pc[t]) < Stage(call),
             pc[t] \notin {"copy", "place"} \/ UNCHANGED todo
      PROVE  GetsOn(t)
  BY <1>2, GoesGetOn
<1>3. (\E res : Answer(t, res)) \/ (\E applied : Fails(t, applied)) => GetsOn(t)
  BY AnswersGetOn, FailuresGetOn
<1>4. CASE StatHead(t)
  <2>1. pc[t] = "head" /\ ((\E res : AfterStat(t, res)) \/ Goto(t, "list"))
    BY <1>4 DEF StatHead, Reads
  <2> QED BY <1>1, <1>2, <1>4, <2>1, Stages, AfterStatGetsOn DEF StatHead
<1>5. CASE ReadHead(t)
  BY <1>1, <1>2, <1>3, <1>5, Stages DEF ReadHead, Reads, Refuse
<1>6. CASE RemoveHead(t)
  BY <1>1, <1>2, <1>3, <1>6, Stages DEF RemoveHead, Reads, Refuse
<1>7. CASE RenameHead(t)
  BY <1>1, <1>2, <1>7, Stages DEF RenameHead, Reads
<1>8. CASE ListCall(t)
  <2>1. /\ pc[t] = "list"
        /\ \/ \E res : Answer(t, res)
           \/ Goto(t, "delete")
           \/ req[t].op \in {"stat", "create", "write"} /\ \E res : AfterStat(t, res)
    BY <1>8 DEF ListCall, Reads, Sound, OnCourse
  <2> QED BY <1>1, <1>2, <1>3, <2>1, Stages, AfterStatGetsOn
<1>9. CASE RangeCall(t)
  BY <1>3, <1>9 DEF RangeCall
<1>10. CASE WriteGet(t)
  BY <1>1, <1>2, <1>10, Stages DEF WriteGet, Reads, Store
<1>11. CASE TruncateGet(t)
  BY <1>1, <1>2, <1>3, <1>11, Stages DEF TruncateGet, Reads, Store, Refuse
<1>12. CASE ReadFails(t)
  BY <1>3, <1>12 DEF ReadFails
<1>13. CASE PutCall(t) \/ DeleteCall(t)
  BY <1>3, <1>13 DEF PutCall, DeleteCall
<1>14. CASE WalkCall(t)
  BY <1>1, <1>2, <1>3, <1>14, Stages DEF WalkCall, Reads, Refuse
<1>15. CASE CopyCall(t)
  BY <1>1, <1>2, <1>3, <1>15, Stages DEF CopyCall, Refuse, locals
<1>16. CASE FetchCall(t)
  BY <1>1, <1>2, <1>3, <1>16, Stages DEF FetchCall, Refuse
<1>17. CASE PlaceCall(t)
  BY <1>1, <1>2, <1>3, <1>17, Stages DEF PlaceCall, locals
<1>18. CASE UnlinkCall(t)
  <2>1. CASE todo' = [todo EXCEPT ![t] = todo[t] \ {Source(t)}] /\ Goto(t, "copy")
    <3>1. pc[t] = "unlink" /\ pc'[t] = "copy" /\ todo'[t] = todo[t] \ {Source(t)}
      BY <1>18, <2>1 DEF UnlinkCall, Goto, Sound, TypeOK
    <3>2. Source(t) \in todo[t]
      BY <3>1, MovedKeys
    <3> QED BY <3>1, <3>2 DEF GetsOn
  <2> QED BY <1>3, <1>18, <2>1 DEF UnlinkCall
<1> QED BY <1>4, <1>5, <1>6, <1>7, <1>8, <1>9, <1>10, <1>11, <1>12, <1>13, <1>14, <1>15, <1>16,
           <1>17, <1>18 DEF Operate

LEMMA NextGetsOn ==
    ASSUME Sound, Next
    PROVE  /\ \A t \in Task : pc[t] \in Calls => GetsOn(t) \/ UNCHANGED <<pc[t], todo[t]>>
           /\ pc' = pc => faults' = faults + 1
<1>1. ASSUME NEW u \in Task, Operate(u)
      PROVE  /\ \A t \in Task : pc[t] \in Calls => GetsOn(t) \/ UNCHANGED <<pc[t], todo[t]>>
             /\ pc' = pc => faults' = faults + 1
  <2>1. pc[u] \in Calls /\ \A t \in Task \ {u} : pc'[t] = pc[t] /\ todo'[t] = todo[t]
    BY <1>1, OneCallSteps DEF Alone
  <2>2. CASE Repeat(u)
    <3>1. faults' = faults + 1 /\ pc'[u] = pc[u] /\ todo'[u] = todo[u]
      BY <2>2 DEF Repeat, Fault, locals
    <3> QED BY <2>1, <3>1
  <2>3. CASE GetsOn(u)
    <3>1. pc'[u] # pc[u]
      <4>1. Stage(pc[u]) < Stage(pc'[u]) => pc'[u] # pc[u]
        <5>1. Stage(pc[u]) \in Nat
          BY <2>1, Stages DEF Calls
        <5> QED BY <5>1
      <4> QED BY <2>1, <2>3, <4>1 DEF GetsOn, Calls
    <3> QED BY <2>1, <2>3, <3>1
  <2> QED BY <1>1, <2>2, <2>3, StepsGetOn
<1>2. ASSUME NEW u \in Task, (\E r \in Request : Start(u, r)) \/ Return(u)
      PROVE  /\ \A t \in Task : pc[t] \in Calls => GetsOn(t) \/ UNCHANGED <<pc[t], todo[t]>>
             /\ pc' = pc => faults' = faults + 1
  <2>1. /\ pc[u] \in {"idle", "done"} /\ pc'[u] # pc[u]
        /\ \A t \in Task \ {u} : pc'[t] = pc[t] /\ todo'[t] = todo[t]
    BY <1>2 DEF Start, Return, FirstCall, locals, Sound, TypeOK
  <2> QED BY <2>1 DEF Calls
<1> QED BY <1>1, <1>2 DEF Next

(* No caller, bucket or failure keeps a call from getting on: its operator *)
(* calls come in a fixed order, the loop of a rename takes a key off its   *)
(* list each time, and a call made again uses up one of the failures.      *)
THEOREM EveryCallGetsOn == Spec => CallsGetOn
<1>1. Sound /\ [Next]_vars => [CallsGetOn!1]_vars
  BY NextGetsOn
<1> QED BY <1>1, InitTyping, StepTyping, PTL DEF Spec, CallsGetOn

(* The listing a rename has read is finite, where the bucket was: with the *)
(* theorem above, each call makes finitely many operator calls.            *)
FiniteLists == IsFiniteSet(DOMAIN bucket) /\ \A t \in Task : IsFiniteSet(todo[t])

LEMMA NewLists ==
    ASSUME Sound, NEW t \in Task, Operate(t)
    PROVE  todo'[t] \subseteq DOMAIN bucket \/ todo'[t] \subseteq todo[t]
<1>1. todo \in [Task -> SUBSET Key]
  BY DEF Sound, TypeOK
<1>2. ASSUME NEW res, Answer(t, res) PROVE todo'[t] = todo[t]
  BY <1>2 DEF Answer, locals
<1>3. ASSUME NEW res, AfterStat(t, res), req[t].op \in {"stat", "create", "write"} PROVE todo'[t] = todo[t]
  BY <1>2, <1>3 DEF AfterStat, Refuse, Store
<1>4. ASSUME NEW applied, Fails(t, applied) PROVE todo'[t] = todo[t]
  BY <1>2, <1>3, <1>4 DEF Fails, AfterFailure, SelfStat, Refuse
<1>5. CASE StatHead(t)
  BY <1>3, <1>5 DEF StatHead, locals
<1>6. CASE ReadHead(t) \/ RemoveHead(t)
  BY <1>2, <1>6 DEF ReadHead, RemoveHead, Refuse, locals
<1>7. CASE RenameHead(t)
  <2>1. CASE UNCHANGED locals
    BY <2>1 DEF locals
  <2>2. ASSUME NEW k \in DOMAIN bucket, todo' = [todo EXCEPT ![t] = {k}] PROVE todo'[t] \subseteq DOMAIN bucket
    BY <1>1, <2>2
  <2> QED BY <1>7, <2>1, <2>2 DEF RenameHead
<1>8. CASE ListCall(t)
  <2>1. \/ \E res : Answer(t, res)
        \/ UNCHANGED locals
        \/ req[t].op \in {"stat", "create", "write"} /\ \E res : AfterStat(t, res)
    BY <1>8 DEF ListCall, Reads, Sound, OnCourse
  <2> QED BY <1>2, <1>3, <2>1 DEF locals
<1>9. CASE RangeCall(t) \/ WriteGet(t) \/ TruncateGet(t)
  BY <1>2, <1>9 DEF RangeCall, WriteGet, TruncateGet, Store, Refuse, locals
<1>10. CASE ReadFails(t) \/ PutCall(t) \/ DeleteCall(t)
  BY <1>2, <1>4, <1>10 DEF ReadFails, PutCall, DeleteCall
<1>11. CASE WalkCall(t)
  <2> DEFINE ks == {k \in DOMAIN bucket : Below(k, req[t].path)}
  <2>1. CASE todo' = [todo EXCEPT ![t] = ks]
    BY <1>1, <2>1
  <2> QED BY <1>2, <1>11, <2>1 DEF WalkCall, Refuse
<1>12. CASE CopyCall(t) \/ FetchCall(t) \/ PlaceCall(t)
  BY <1>2, <1>4, <1>12 DEF CopyCall, FetchCall, PlaceCall, Refuse, locals
<1>13. CASE UnlinkCall(t)
  <2>1. CASE todo' = [todo EXCEPT ![t] = todo[t] \ {Source(t)}]
    BY <1>1, <2>1
  <2> QED BY <1>2, <1>4, <1>13, <2>1 DEF UnlinkCall
<1>14. CASE Repeat(t)
  BY <1>14 DEF Repeat, locals
<1> QED BY <1>5, <1>6, <1>7, <1>8, <1>9, <1>10, <1>11, <1>12, <1>13, <1>14 DEF Operate

LEMMA InitFinite == (\A o \in Seed : IsFiniteSet(DOMAIN o)) /\ Init => FiniteLists
BY FS_EmptySet DEF Init, FiniteLists

LEMMA StepFinite == Sound /\ FiniteLists /\ [Next]_vars => FiniteLists'
<1> SUFFICES ASSUME Sound, FiniteLists, [Next]_vars PROVE FiniteLists'
  OBVIOUS
<1>1. CASE UNCHANGED vars
  BY <1>1 DEF vars, locals, FiniteLists
<1>2. ASSUME NEW u \in Task, Operate(u) PROVE FiniteLists'
  <2>1. IsFiniteSet(DOMAIN bucket')
    <3>1. \/ bucket' = bucket
          \/ \E k, v : bucket' = Put(bucket, k, v)
          \/ \E k : bucket' = Drop(bucket, k)
      BY <1>2, OperateEffect DEF Effect, Puts
    <3>2. ASSUME NEW k, NEW v PROVE IsFiniteSet(DOMAIN Put(bucket, k, v))
      BY FS_AddElement DEF FiniteLists, Put
    <3>3. ASSUME NEW k PROVE IsFiniteSet(DOMAIN Drop(bucket, k))
      BY FS_RemoveElement DEF FiniteLists, Drop
    <3> QED BY <3>1, <3>2, <3>3 DEF FiniteLists
  <2>2. ASSUME NEW t \in Task \ {u} PROVE IsFiniteSet(todo'[t])
    BY <1>2, OneCallSteps DEF Alone, FiniteLists
  <2>3. IsFiniteSet(todo'[u])
    <3>1. todo'[u] \subseteq DOMAIN bucket \/ todo'[u] \subseteq todo[u]
      BY <1>2, NewLists
    <3> QED BY <3>1, FS_Subset DEF FiniteLists
  <2> QED BY <2>1, <2>2, <2>3 DEF FiniteLists
<1>3. ASSUME NEW u \in Task, (\E r \in Request : Start(u, r)) \/ Return(u) PROVE FiniteLists'
  <2>1. bucket' = bucket /\ \A t \in Task : todo'[t] \in {{}, todo[t]}
    BY <1>3 DEF Start, Return, locals, Sound, TypeOK
  <2> QED BY <2>1, FS_EmptySet DEF FiniteLists
<1> QED BY <1>1, <1>2, <1>3 DEF Next

THEOREM ListsAreFinite ==
    ASSUME \A o \in Seed : IsFiniteSet(DOMAIN o)
    PROVE  Spec => []FiniteLists
<1>1. Init => Sound /\ FiniteLists
  BY InitTyping, InitFinite
<1>2. Sound /\ FiniteLists /\ [Next]_vars => (Sound /\ FiniteLists)'
  BY StepTyping, StepFinite
<1> QED BY <1>1, <1>2, PTL DEF Spec

-----------------------------------------------------------------------------
(* The S3 backend implements the in-memory one, step by step.              *)
(*                                                                         *)
(* What an operation has found out it relies on some calls later; ReadyInv *)
(* says that it still is so.  AbsView says where the abstract store keeps  *)
(* each key: one under way is at its target, the others are where they     *)
(* are in the bucket.  An operator call is then the step of MemStore that  *)
(* gives its answer, or one that changes nothing there.                    *)

(* The requests on which the two backends agree: a listing is not asked of *)
(* a file, nor bytes of a directory, whose errors differ in kind; no tree  *)
(* is renamed that has a marker object of its own, which the S3 backend    *)
(* leaves behind; and the service is asked at all.                         *)
Agrees(r) ==
    /\ ~Immediate(r)
    /\ r.op = "list" => IsDir(bucket, r.path) \/ ~HasFile(bucket, r.path)
    /\ r.op = "read" => HasFile(bucket, r.path) \/ ~HasPrefix(bucket, r.path)
    /\ r.op = "rename" => HasFile(bucket, r.path) \/ DirKey(r.path) \notin DOMAIN bucket

KindsAgree == \A t \in Task, r \in Request : Start(t, r) => Agrees(r)

SeedMarkersEmpty == \A o \in Seed : \A k \in DOMAIN o : k.dir => o[k] = <<>>

MarkersEmpty == \A k \in DOMAIN bucket : k.dir => bucket[k] = <<>>

Loop == {"copy", "place", "unlink"}

(* What a call has found out is still so when it acts on it. *)
Ready(t) ==
    LET r == req[t]
        k == FileKey(r.path)
        file == HasFile(bucket, r.path)
        dir == HasPrefix(bucket, r.path)
    IN
    /\ pc[t] \in Calls \ Loop => Agrees(r) /\ todo[t] = {}
    /\ pc[t] \in {"list", "walk"} /\ r.op \in {"stat", "create", "write", "rename"} => ~file
    /\ pc[t] = "head" /\ r.op = "write" => ~file
    /\ pc[t] \in {"head", "list"} /\ r.op = "remove" => (r.kind = "dir" <=> pc[t] = "list")
    /\ pc[t] = "range" => file /\ size[t] = Len(bucket[k]) /\ r.offset < size[t]
    /\ pc[t] = "put" /\ r.op = "create" => ~file /\ ~dir /\ buf[t] = <<>>
    /\ pc[t] = "put" /\ r.op = "write" /\ file => buf[t] = Splice(bucket[k], r.offset, r.data)
    /\ pc[t] = "put" /\ r.op = "write" /\ ~file => ~dir /\ buf[t] = Splice(<<>>, r.offset, r.data)
    /\ pc[t] = "put" /\ r.op = "truncate" => file /\ buf[t] = Resize(bucket[k], r.len)
    /\ pc[t] = "delete" => Target(r) \in DOMAIN bucket
    /\ pc[t] = "delete" /\ r.kind = "dir" => \A x \in DOMAIN bucket : ~Below(x, r.path)
    /\ pc[t] \in Loop => todo[t] \subseteq DOMAIN bucket
    /\ pc[t] = "place" => ~Source(t).dir /\ buf[t] = bucket[Source(t)]
    /\ pc[t] = "unlink" => Destination(t) \in DOMAIN bucket /\ bucket[Destination(t)] = bucket[Source(t)]

ReadyInv == Sound /\ Apartness /\ MarkersEmpty /\ \A t \in Task : Ready(t)

-----------------------------------------------------------------------------
LEMMA NothingFails ==
    ASSUME MaxFaults = 0, Sound
    PROVE  ~Fault /\ \A t \in Task : ~Repeat(t) /\ ~ReadFails(t) /\ \A applied : ~Fails(t, applied)
<1>1. ~Fault
  BY DEF Fault, Sound, TypeOK
<1> QED BY <1>1 DEF Repeat, ReadFails, Fails

LEMMA SizeKept ==
    ASSUME MaxFaults = 0, Sound, NEW t \in Task, Operate(t)
    PROVE  \A u \in Task \ {t} : size'[u] = size[u]
<1>1. size' = size \/ \E n : size' = [size EXCEPT ![t] = n]
  <2>1. ~Repeat(t) /\ ~ReadFails(t) /\ \A applied : ~Fails(t, applied)
    BY NothingFails
  <2>2. \A res : Answer(t, res) => size' = size
    BY DEF Answer, locals
  <2>3. \A b : Store(t, b) => size' = size
    BY DEF Store
  <2>4. \A res : AfterStat(t, res) /\ req[t].op \in {"stat", "create", "write"} => size' = size
    BY <2>2, <2>3 DEF AfterStat, Refuse
  <2>5. UNCHANGED locals => size' = size
    BY DEF locals
  <2>6. CASE StatHead(t) \/ ReadHead(t) \/ RemoveHead(t) \/ RenameHead(t)
    BY <2>2, <2>3, <2>4, <2>5, <2>6 DEF StatHead, ReadHead, RemoveHead, RenameHead, Refuse
  <2>7. CASE ListCall(t)
    <3>1. req[t].op \in {"list", "stat", "create", "write", "remove"}
      BY <2>7 DEF ListCall, Reads, Sound, OnCourse
    <3> QED BY <2>2, <2>4, <2>5, <2>7, <3>1 DEF ListCall
  <2>8. CASE RangeCall(t) \/ WriteGet(t) \/ TruncateGet(t) \/ PutCall(t) \/ DeleteCall(t)
    BY <2>1, <2>2, <2>3, <2>5, <2>8 DEF RangeCall, WriteGet, TruncateGet, PutCall, DeleteCall, Refuse
  <2>9. CASE WalkCall(t) \/ CopyCall(t) \/ FetchCall(t) \/ PlaceCall(t) \/ UnlinkCall(t)
    BY <2>1, <2>2, <2>5, <2>9 DEF WalkCall, CopyCall, FetchCall, PlaceCall, UnlinkCall, Refuse
  <2> QED BY <2>1, <2>6, <2>7, <2>8, <2>9 DEF Operate
<1> QED BY <1>1 DEF Sound, TypeOK

-----------------------------------------------------------------------------
(* What a call has found out stays so. *)

LEMMA OthersKeepReady ==
    ASSUME MaxFaults = 0, Sound, Apartness, NEW t \in Task, Ready(t), NEW u \in Task \ {t}, Operate(u)
    PROVE  Ready(t)'
<1>1. /\ pc'[t] = pc[t] /\ buf'[t] = buf[t] /\ todo'[t] = todo[t] /\ req' = req /\ size'[t] = size[t]
  BY OneCallSteps, SizeKept DEF Alone
<1>2. CASE pc[t] \notin Calls
  BY <1>1, <1>2 DEF Ready, Calls, Loop
<1>3. CASE pc[t] \in Calls
  <2> DEFINE r == req[t]
             k == FileKey(r.path)
  <2>1. pc[t] # "idle" /\ r \in Request /\ IsStore(bucket) /\ IsStore(bucket')
    BY <1>3, EffectStore DEF Calls, Sound, TypeOK
  <2>2. r.path \in PathSet /\ (r.op \notin {"list", "stat"} => r.path # Root)
    BY <2>1, RequestFields
  <2>3. ASSUME NEW x \in Key, Seqs!IsPrefix(r.path, x.path) PROVE Same(x)
    BY <2>1, <2>3, ReachedPaths, Footprint
  <2>4. \A x \in DOMAIN bucket \cup DOMAIN bucket' : x \in Key
    BY <2>1 DEF IsStore
  <2>5. HasPrefix(bucket, r.path)' <=> HasPrefix(bucket, r.path)
    BY <1>1, <2>3, <2>4, StartsWithPrefix DEF HasPrefix, Same
  <2>6. \A x \in Key : Below(x, r.path) => Same(x)
    BY <2>3 DEF Below, StartsWith
  <2>7. ASSUME r.path # Root PROVE Same(k) /\ Same(DirKey(r.path))
    BY <2>2, <2>3, <2>7, KeysOfPath, PrefixReflexive
  <2>8. HasFile(bucket, r.path)' <=> HasFile(bucket, r.path)
    <3>1. CASE r.path = Root
      <4>1. k \notin Key
        BY <3>1 DEF FileKey, Key
      <4> QED BY <1>1, <2>4, <4>1 DEF HasFile
    <3> QED BY <1>1, <2>7, <3>1 DEF HasFile, Same
  <2>9. Agrees(r) => Agrees(r)'
    BY <1>1, <2>2, <2>5, <2>7, <2>8 DEF Agrees, IsDir, Same, HasFile, HasPrefix
  <2>10. CASE pc[t] \in Calls \ Loop
    <3>1. /\ r.op \notin {"list", "stat"} /\ HasFile(bucket, r.path) => bucket'[k] = bucket[k]
          /\ pc[t] \in {"range", "put", "delete"} => r.op \notin {"list", "stat"}
      BY <2>2, <2>7 DEF HasFile, Same, Sound, OnCourse
    <3>2. pc[t] = "delete" /\ Target(r) \in DOMAIN bucket => Target(r) \in DOMAIN bucket'
      BY <2>3, TargetKey DEF Same
    <3>3. (\A x \in DOMAIN bucket : ~Below(x, r.path)) => \A x \in DOMAIN bucket' : ~Below(x, r.path)
      BY <2>4, <2>6 DEF Same
    <3> HIDE DEF r, k
    <3> QED BY <1>1, <2>5, <2>8, <2>9, <2>10, <3>1, <3>2, <3>3 DEF Ready, Loop, r, k
  <2>11. CASE pc[t] \in Loop
    <3>1. /\ todo[t] \subseteq Key /\ \A x \in todo[t] : Seqs!IsPrefix(r.path, x.path)
          /\ Source(t) \in todo[t] /\ Same(Destination(t))
      BY <2>1, <2>11, MovedKeys, ReachedPaths, Footprint DEF Sound, TypeOK, OnCourse, Loop
    <3>2. todo[t] \subseteq DOMAIN bucket /\ \A x \in todo[t] : Same(x)
      BY <2>3, <2>11, <3>1 DEF Ready
    <3>3. Source(t)' = Source(t) /\ Destination(t)' = Destination(t)
      BY <1>1 DEF Source, Destination
    <3> QED BY <1>1, <2>11, <3>1, <3>2, <3>3 DEF Ready, Loop, Same
  <2> QED BY <1>3, <2>10, <2>11
<1> QED BY <1>2, <1>3

LEMMA AnsweredReady ==
    ASSUME Sound, NEW t \in Task, NEW res, Answer(t, res)
    PROVE  Ready(t)'
BY DEF Answer, Ready, Calls, Loop, Sound, TypeOK

LEMMA NoneBelow == ASSUME NEW o, NEW p, Children(o, p) = {} PROVE \A k \in DOMAIN o : ~Below(k, p)
BY DEF Children

LEMMA FoundIsOk ==
    /\ \A entry : IsOk(Found(entry)) /\ Found(entry).entry = entry
    /\ \A entries : IsOk(Listing(entries)) /\ Listing(entries).entries = entries
    /\ \A e : ~IsOk(Err(e))
BY DEF IsOk, Found, Listing, Err

LEMMA WentTo ==
    ASSUME Sound, NEW t \in Task, NEW call, Goto(t, call)
    PROVE  pc'[t] = call /\ req' = req
BY DEF Goto, Sound, TypeOK

LEMMA HeadReady ==
    ASSUME Sound, NEW t \in Task, Ready(t), StatHead(t) \/ ReadHead(t) \/ RemoveHead(t) \/ RenameHead(t)
    PROVE  Ready(t)'
<1> DEFINE r == req[t]
           k == FileKey(r.path)
<1>1. /\ pc[t] = "head" /\ bucket' = bucket /\ Agrees(r) /\ todo[t] = {} /\ buf \in [Task -> Bytes]
      /\ size \in [Task -> Nat] /\ todo \in [Task -> SUBSET Key]
  BY DEF StatHead, ReadHead, RemoveHead, RenameHead, Reads, Ready, Calls, Loop, Sound, TypeOK
<1>2. CASE \E res : Answer(t, res)
  BY <1>2, AnsweredReady
<1>3. req' = req => Agrees(r)'
  BY <1>1 DEF Agrees, IsDir, HasPrefix, HasFile, Immediate
<1>4. CASE StatHead(t) /\ ~\E res : Answer(t, res)
  <2>1. r.op \in {"stat", "create", "write"} /\ ~(r.op = "write" /\ k \in DOMAIN bucket)
    BY <1>1, <1>4 DEF StatHead, Ready, HasFile
  <2>2. k \notin DOMAIN bucket
    BY <1>4, <2>1, FoundIsOk DEF StatHead, AfterStat, Refuse
  <2>3. Goto(t, "list") /\ UNCHANGED locals
    BY <1>4, <2>2 DEF StatHead
  <2> QED BY <1>1, <1>3, <2>1, <2>2, <2>3, WentTo DEF Ready, locals, HasFile, Calls, Loop
<1>5. CASE ReadHead(t) /\ ~\E res : Answer(t, res)
  <2>1. /\ k \in DOMAIN bucket /\ r.offset < Len(bucket[k]) /\ Goto(t, "range") /\ todo' = todo
        /\ size'[t] = Len(bucket[k]) /\ r.op = "read"
    BY <1>1, <1>5 DEF ReadHead, Refuse
  <2> QED BY <1>1, <1>3, <2>1, WentTo DEF Ready, HasFile, Calls, Loop
<1>6. CASE RemoveHead(t) /\ ~\E res : Answer(t, res)
  <2>1. Goto(t, "delete") /\ UNCHANGED locals /\ HasFile(bucket, r.path) /\ r.op = "remove"
    BY <1>6 DEF RemoveHead, Refuse
  <2>2. r.kind # "dir" /\ Target(r) = k
    BY <1>1, <2>1 DEF Ready, Target, FileKey
  <2>3. k \in DOMAIN bucket
    BY <2>1 DEF HasFile
  <2> QED BY <1>1, <1>3, <2>1, <2>2, <2>3, WentTo DEF Ready, locals, Calls, Loop
<1>7. CASE RenameHead(t) /\ k \in DOMAIN bucket
  <2>1. Goto(t, "copy") /\ todo'[t] = {k}
    BY <1>1, <1>7 DEF RenameHead
  <2> QED BY <1>1, <1>7, <2>1, WentTo DEF Ready, Calls, Loop
<1>8. CASE RenameHead(t) /\ k \notin DOMAIN bucket
  <2>1. Goto(t, "walk") /\ UNCHANGED locals /\ r.op = "rename"
    BY <1>8 DEF RenameHead
  <2> QED BY <1>1, <1>3, <1>8, <2>1, WentTo DEF Ready, locals, HasFile, Calls, Loop
<1> QED BY <1>2, <1>4, <1>5, <1>6, <1>7, <1>8

LEMMA StoredReady ==
    ASSUME Sound, NEW t \in Task, Ready(t), pc[t] \in Calls \ Loop, bucket' = bucket, NEW b, Store(t, b),
           LET r == req[t]
               file == HasFile(bucket, r.path)
           IN  \/ r.op = "create" /\ ~file /\ ~HasPrefix(bucket, r.path) /\ b = <<>>
               \/ r.op = "write" /\ file /\ b = Splice(bucket[FileKey(r.path)], r.offset, r.data)
               \/ r.op = "write" /\ ~file /\ ~HasPrefix(bucket, r.path) /\ b = Splice(<<>>, r.offset, r.data)
               \/ r.op = "truncate" /\ file /\ b = Resize(bucket[FileKey(r.path)], r.len)
    PROVE  Ready(t)'
<1> DEFINE r == req[t]
<1>1. pc'[t] = "put" /\ req' = req /\ buf'[t] = b /\ todo' = todo
  BY WentTo DEF Store, Sound, TypeOK
<1>2. Agrees(r)' /\ todo[t] = {}
  BY <1>1 DEF Ready, Agrees, IsDir, HasPrefix, HasFile, Immediate
<1>3. (HasFile(bucket, r.path) <=> HasFile(bucket, r.path)') /\ (HasPrefix(bucket, r.path) <=> HasPrefix(bucket, r.path)')
  BY <1>1 DEF HasFile, HasPrefix
<1> QED BY <1>1, <1>2, <1>3 DEF Ready, Calls, Loop

LEMMA ReadReady ==
    ASSUME Sound, NEW t \in Task, Ready(t), ListCall(t) \/ RangeCall(t) \/ WriteGet(t) \/ TruncateGet(t)
    PROVE  Ready(t)'
<1> DEFINE r == req[t]
           k == FileKey(r.path)
<1>1. /\ pc[t] \in Calls \ Loop /\ bucket' = bucket /\ Agrees(r) /\ todo[t] = {}
  BY DEF ListCall, RangeCall, WriteGet, TruncateGet, Reads, Ready, Calls, Loop
<1>2. CASE \E res : Answer(t, res)
  BY <1>2, AnsweredReady
<1>3. req' = req => Agrees(r)'
  BY <1>1 DEF Agrees, IsDir, HasPrefix, HasFile, Immediate
<1>4. CASE RangeCall(t)
  BY <1>2, <1>4 DEF RangeCall
<1>5. CASE WriteGet(t) /\ k \in DOMAIN bucket
  BY <1>1, <1>5, StoredReady DEF WriteGet, HasFile
<1>6. CASE WriteGet(t) /\ k \notin DOMAIN bucket
  <2>1. Goto(t, "head") /\ UNCHANGED locals /\ r.op = "write"
    BY <1>6 DEF WriteGet
  <2> QED BY <1>1, <1>3, <1>6, <2>1, WentTo DEF Ready, locals, HasFile, Calls, Loop
<1>7. CASE TruncateGet(t) /\ ~\E res : Answer(t, res)
  BY <1>1, <1>7, StoredReady DEF TruncateGet, HasFile, Refuse
<1>8. CASE ListCall(t) /\ ~\E res : Answer(t, res)
  <2>1. pc[t] = "list" /\ r.op \in {"list", "stat", "create", "write", "remove"}
    BY <1>8 DEF ListCall, Reads, Sound, OnCourse
  <2>2. CASE r.op = "list"
    BY <1>8, <2>2 DEF ListCall
  <2>3. CASE r.op = "remove"
    <3>1. IsDir(bucket, r.path) /\ Children(bucket, r.path) = {} /\ Goto(t, "delete") /\ UNCHANGED locals
      BY <1>8, <2>3, FoundIsOk DEF ListCall
    <3>2. \A x \in DOMAIN bucket : ~Below(x, r.path)
      BY <3>1, NoneBelow
    <3>3. r.path # Root
      BY <2>3, RequestFields DEF Sound, TypeOK
    <3>4. PICK x \in DOMAIN bucket : StartsWith(x, r.path)
      BY <3>1, <3>3 DEF IsDir, HasPrefix
    <3>5. x = DirKey(r.path)
      BY <3>2, <3>4 DEF Below
    <3>6. r.kind = "dir" /\ Target(r) = DirKey(r.path)
      BY <2>1, <2>3 DEF Ready, Target, DirKey
    <3> QED BY <1>1, <1>3, <2>3, <3>1, <3>2, <3>5, <3>6, WentTo DEF Ready, locals, Calls, Loop
  <2>4. CASE r.op \in {"stat", "create", "write"}
    <3>1. ~HasFile(bucket, r.path)
      BY <2>1, <2>4 DEF Ready
    <3>2. r.op # "stat"
      BY <1>8, <2>4 DEF ListCall, AfterStat
    <3>3. PICK res : /\ AfterStat(t, res)
                     /\ res = IF IsDir(bucket, r.path) THEN Found(Entry("dir", 0)) ELSE Err("NotFound")
      <4>1. IsOk(IF IsDir(bucket, r.path) THEN Listing(Children(bucket, r.path)) ELSE Err("NotFound"))
                <=> IsDir(bucket, r.path)
        BY FoundIsOk
      <4> QED BY <1>8, <2>4, <4>1 DEF ListCall
    <3>4. ~IsDir(bucket, r.path)
      <4>1. Entry("dir", 0).kind = "dir"
        BY DEF Entry
      <4> QED BY <1>8, <2>4, <3>2, <3>3, <4>1, FoundIsOk DEF AfterStat, Refuse
    <3>5. ~HasPrefix(bucket, r.path)
      BY <3>4 DEF IsDir
    <3>6. Store(t, IF r.op = "create" THEN <<>> ELSE Splice(<<>>, r.offset, r.data))
      BY <2>4, <3>2, <3>3, <3>4, FoundIsOk DEF AfterStat
    <3> QED BY <1>1, <2>4, <3>1, <3>2, <3>5, <3>6, StoredReady
  <2> QED BY <2>1, <2>2, <2>3, <2>4
<1> QED BY <1>2, <1>4, <1>5, <1>6, <1>7, <1>8

(* The loop of a rename. *)
LEMMA WalkReady ==
    ASSUME Sound, NEW t \in Task, Ready(t), WalkCall(t)
    PROVE  Ready(t)'
<1> DEFINE ks == {k \in DOMAIN bucket : Below(k, req[t].path)}
<1>1. CASE ks = {}
  BY <1>1, AnsweredReady DEF WalkCall, Refuse
<1>2. CASE ks # {}
  <2>1. Goto(t, "copy") /\ todo'[t] = ks /\ bucket' = bucket
    BY <1>2 DEF WalkCall, Reads, Sound, TypeOK
  <2> QED BY <2>1, WentTo DEF Ready, Calls, Loop
<1> QED BY <1>1, <1>2

LEMMA CopyReady ==
    ASSUME MaxFaults = 0, ReadyInv, NEW t \in Task, CopyCall(t) \/ FetchCall(t) \/ PlaceCall(t)
    PROVE  Ready(t)'
<1> DEFINE s == Source(t)
           d == Destination(t)
<1>1. /\ Sound /\ Apartness /\ Ready(t) /\ pc[t] \in Loop /\ ~\E applied : Fails(t, applied)
      /\ buf \in [Task -> Bytes] /\ todo \in [Task -> SUBSET Key]
  BY NothingFails DEF ReadyInv, CopyCall, FetchCall, PlaceCall, Loop, Sound, TypeOK
<1>2. s \in todo[t] /\ todo[t] \subseteq DOMAIN bucket /\ s \in DOMAIN bucket /\ d # s
  BY <1>1, MovedKeys, MovesElsewhere DEF Ready, Loop
<1>3. s.dir => bucket[s] = <<>>
  BY <1>2 DEF ReadyInv, MarkersEmpty
<1>4. CASE FetchCall(t)
  <2>1. Goto(t, "place") /\ buf'[t] = bucket[s] /\ UNCHANGED <<bucket, todo>> /\ ~s.dir
    BY <1>1, <1>2, <1>4 DEF FetchCall
  <2>2. Source(t)' = s
    BY <2>1 DEF Source
  <2> QED BY <1>1, <1>2, <2>1, <2>2, WentTo DEF Ready, Calls, Loop
<1>5. ASSUME bucket' = Put(bucket, d, bucket[s]), Goto(t, "unlink"), UNCHANGED locals
      PROVE  Ready(t)'
  <2>1. pc'[t] = "unlink" /\ req' = req /\ todo' = todo
    BY <1>1, <1>5, WentTo DEF locals
  <2>2. Source(t)' = s /\ Destination(t)' = d
    BY <2>1 DEF Source, Destination
  <2>3. /\ todo[t] \subseteq DOMAIN bucket' /\ d \in DOMAIN bucket' /\ bucket'[d] = bucket[s] /\ bucket'[s] = bucket[s]
    <3> HIDE DEF s, d
    <3> QED BY <1>2, <1>5, PutReads
  <2> QED BY <2>1, <2>2, <2>3 DEF Ready, Calls, Loop
<1>6. CASE CopyCall(t)
  <2>1. bucket' = CopyOf(t) /\ Goto(t, "unlink") /\ UNCHANGED locals
    BY <1>1, <1>2, <1>6 DEF CopyCall
  <2>2. CopyOf(t) = Put(bucket, d, bucket[s])
    BY <1>2, <1>3 DEF CopyOf, Copied
  <2> QED BY <1>5, <2>1, <2>2
<1>7. CASE PlaceCall(t)
  <2>1. bucket' = Put(bucket, d, buf[t]) /\ Goto(t, "unlink") /\ UNCHANGED locals /\ pc[t] = "place"
    BY <1>1, <1>7 DEF PlaceCall, Copied
  <2>2. buf[t] = bucket[s]
    BY <1>1, <2>1 DEF Ready
  <2> QED BY <1>5, <2>1, <2>2
<1> QED BY <1>4, <1>6, <1>7

LEMMA UnlinkReady ==
    ASSUME MaxFaults = 0, Sound, NEW t \in Task, Ready(t), UnlinkCall(t)
    PROVE  Ready(t)'
<1> DEFINE s == Source(t)
           rest == todo[t] \ {s}
<1>1. pc[t] = "unlink" /\ ~Fails(t, Drop(bucket, s)) /\ todo \in [Task -> SUBSET Key]
  BY NothingFails DEF UnlinkCall, Sound, TypeOK
<1>2. CASE rest = {}
  BY <1>1, <1>2, AnsweredReady DEF UnlinkCall
<1>3. CASE rest # {}
  <2>1. Goto(t, "copy") /\ todo'[t] = rest /\ bucket' = Drop(bucket, s)
    BY <1>1, <1>3 DEF UnlinkCall
  <2>2. rest \subseteq DOMAIN bucket'
    BY <1>1, <2>1, DropReads DEF Ready, Loop
  <2> QED BY <2>1, <2>2, WentTo DEF Ready, Calls, Loop
<1> QED BY <1>2, <1>3

LEMMA OwnReady == ASSUME MaxFaults = 0, ReadyInv, NEW t \in Task, Operate(t) PROVE Ready(t)'
<1>1. Sound /\ Ready(t) /\ ~Repeat(t) /\ ~ReadFails(t) /\ \A applied : ~Fails(t, applied)
  BY NothingFails DEF ReadyInv
<1>2. CASE PutCall(t) \/ DeleteCall(t)
  BY <1>1, <1>2, AnsweredReady DEF PutCall, DeleteCall
<1> QED BY <1>1, <1>2, HeadReady, ReadReady, WalkReady, CopyReady, UnlinkReady DEF Operate

LEMMA MarkersStayEmpty == ASSUME MaxFaults = 0, ReadyInv, NEW t \in Task, Operate(t) PROVE MarkersEmpty'
<1>1. Sound /\ Ready(t) /\ MarkersEmpty /\ ~Repeat(t) /\ ~ReadFails(t) /\ \A applied : ~Fails(t, applied)
  BY NothingFails DEF ReadyInv
<1>2. CASE bucket' = bucket
  BY <1>1, <1>2 DEF MarkersEmpty
<1>3. ASSUME NEW k, NEW v, bucket' = Put(bucket, k, v), k.dir => v = <<>> PROVE MarkersEmpty'
  BY <1>1, <1>3, PutReads, PutIsRead DEF MarkersEmpty
<1>4. ASSUME NEW k, bucket' = Drop(bucket, k) PROVE MarkersEmpty'
  BY <1>1, <1>4, DropReads DEF MarkersEmpty
<1>5. CASE PutCall(t)
  <2>1. bucket' = Put(bucket, Target(req[t]), buf[t]) /\ pc[t] = "put"
    BY <1>1, <1>5 DEF PutCall
  <2>2. Target(req[t]).dir => req[t].op = "create"
    <3>1. req[t].op # "remove"
      BY <1>1, <2>1 DEF Sound, OnCourse
    <3>2. ~(req[t].op \in {"create", "remove"}) => ~Target(req[t]).dir
      BY DEF Target
    <3> QED BY <3>1, <3>2
  <2> QED BY <1>1, <1>3, <2>1, <2>2 DEF Ready
<1>6. CASE CopyCall(t) \/ PlaceCall(t)
  <2>1. pc[t] \in Loop /\ Destination(t).dir = Source(t).dir
    BY <1>1, <1>6, MovedKeys DEF CopyCall, PlaceCall, Loop
  <2>2. CASE CopyCall(t)
    BY <1>1, <1>2, <1>3, <2>1, <2>2 DEF CopyCall, CopyOf, Copied
  <2>3. CASE PlaceCall(t)
    BY <1>1, <1>3, <2>1, <2>3 DEF PlaceCall, Copied, Ready
  <2> QED BY <1>6, <2>2, <2>3
<1>7. CASE UnlinkCall(t) \/ DeleteCall(t)
  BY <1>1, <1>4, <1>7 DEF UnlinkCall, DeleteCall
<1>8. bucket' = bucket \/ PutCall(t) \/ CopyCall(t) \/ PlaceCall(t) \/ UnlinkCall(t) \/ DeleteCall(t)
  BY <1>1 DEF Operate, StatHead, ReadHead, RemoveHead, RenameHead, ListCall, RangeCall, WriteGet, TruncateGet,
              WalkCall, FetchCall, Reads
<1> QED BY <1>2, <1>5, <1>6, <1>7, <1>8

LEMMA InitReady == SeedMarkersEmpty /\ Init => ReadyInv
<1> SUFFICES ASSUME SeedMarkersEmpty, Init PROVE ReadyInv
  OBVIOUS
<1>1. Sound /\ Apartness
  BY InitTyping, InitApart
<1> QED BY <1>1 DEF SeedMarkersEmpty, Init, ReadyInv, MarkersEmpty, Ready, Calls, Loop

LEMMA StartReady ==
    ASSUME ReadyInv, KindsAgree, NEW t \in Task, NEW r \in Request, Start(t, r)
    PROVE  Ready(t)'
<1>1. /\ pc[t] = "idle" /\ todo[t] = {} /\ req'[t] = r /\ bucket' = bucket /\ todo' = todo /\ Agrees(r)
      /\ ~Immediate(r) /\ pc'[t] = FirstCall(r)
  BY DEF Start, KindsAgree, Agrees, ReadyInv, Sound, TypeOK, OnCourse, locals
<1>2. Agrees(req[t])' /\ r \in Requests
  BY <1>1, RequestAssumption DEF Agrees, IsDir, HasPrefix, HasFile, Immediate
<1>3. r.op = "remove" => r.kind \in {"file", "dir"}
  BY RequestFields
<1>4. FirstCall(r) \in {"list", "get", "head"} /\ (FirstCall(r) = "list" <=> r.op = "list" \/ (r.op = "remove" /\ r.kind = "dir"))
      /\ (FirstCall(r) = "get" <=> r.op \in {"write", "truncate"})
  BY DEF FirstCall
<1> QED BY <1>1, <1>2, <1>3, <1>4 DEF Ready, Calls, Loop

LEMMA UnchangedReady == ASSUME ReadyInv, UNCHANGED vars PROVE ReadyInv'
<1>1. Sound' /\ Apartness'
  BY DEF vars, locals, tally, ReadyInv, Sound, TypeOK, OnCourse, Apartness
<1> QED BY <1>1 DEF vars, locals, tally, ReadyInv, MarkersEmpty, Ready, Agrees, IsDir, HasPrefix, HasFile, Immediate,
                    Source, Destination

LEMMA StepReady ==
    ASSUME Serial, MaxFaults = 0 PROVE ReadyInv /\ KindsAgree /\ [Next]_vars => ReadyInv'
<1> SUFFICES ASSUME ReadyInv, KindsAgree, [Next]_vars PROVE ReadyInv'
  OBVIOUS
<1>1. Sound' /\ Apartness'
  BY StepTyping, StepApart DEF ReadyInv
<1>2. CASE UNCHANGED vars
  BY <1>2, UnchangedReady
<1>3. ASSUME NEW u \in Task, Operate(u) PROVE ReadyInv'
  <2>1. ASSUME NEW t \in Task PROVE Ready(t)'
    BY <1>3, OwnReady, OthersKeepReady DEF ReadyInv
  <2> QED BY <1>1, <1>3, <2>1, MarkersStayEmpty DEF ReadyInv
<1>4. ASSUME NEW u \in Task, (\E r \in Request : Start(u, r)) \/ Return(u) PROVE ReadyInv'
  <2>1. /\ bucket' = bucket
        /\ \A t \in Task \ {u} : /\ pc'[t] = pc[t] /\ req'[t] = req[t] /\ buf'[t] = buf[t] /\ todo'[t] = todo[t]
                                 /\ size'[t] = size[t]
    BY <1>4 DEF Start, Return, locals, tally, ReadyInv, Sound, TypeOK
  <2>2. ASSUME NEW t \in Task \ {u} PROVE Ready(t)'
    <3>1. /\ pc'[t] = pc[t] /\ req'[t] = req[t] /\ buf'[t] = buf[t] /\ todo'[t] = todo[t] /\ size'[t] = size[t]
          /\ bucket' = bucket /\ Ready(t)
      BY <2>1, <2>2 DEF ReadyInv
    <3>2. Source(t)' = Source(t) /\ Destination(t)' = Destination(t)
      BY <3>1 DEF Source, Destination
    <3>3. Agrees(req[t]) => Agrees(req[t])'
      BY <3>1 DEF Agrees, IsDir, HasPrefix, HasFile, Immediate
    <3> QED BY <3>1, <3>2, <3>3 DEF Ready, HasFile, HasPrefix
  <2>3. Ready(u)'
    <3>1. CASE Return(u)
      <4>1. pc'[u] = "idle"
        BY <3>1 DEF Return, ReadyInv, Sound, TypeOK
      <4> QED BY <4>1 DEF Ready, Calls, Loop
    <3> QED BY <1>4, <3>1, StartReady
  <2>4. MarkersEmpty'
    BY <2>1 DEF ReadyInv, MarkersEmpty
  <2> QED BY <1>1, <2>2, <2>3, <2>4 DEF ReadyInv
<1> QED BY <1>2, <1>3, <1>4 DEF Next

-----------------------------------------------------------------------------
(* The abstract store: where a key under way is, and that the rest is as   *)
(* it is in the bucket.                                                    *)

Arrives(t, k, x) == Moving(t) /\ k \in todo[t] /\ x = Rekey(k, req[t].path, req[t].to)

Vacant(x) == \A t \in Task : \A k : ~Arrives(t, k, x)

Departs(x) == \E t \in Task : Moving(t) /\ x \in todo[t]

LEMMA MovingLoop == ASSUME ReadyInv, NEW t \in Task PROVE Moving(t) <=> pc[t] \in Loop
BY DEF ReadyInv, Ready, Moving, Loop, Calls, Sound, TypeOK, OnCourse

LEMMA Travellers ==
    ASSUME ReadyInv, NEW t \in Task, Moving(t)
    PROVE  /\ req[t] \in Request /\ req[t].op = "rename" /\ pc[t] # "idle"
           /\ req[t].path \in PathSet \ {Root} /\ req[t].to \in PathSet \ {Root}
           /\ ~Related(req[t].path, req[t].to)
           /\ \A k \in todo[t] : /\ k \in Key /\ k \in DOMAIN bucket /\ Seqs!IsPrefix(req[t].path, k.path)
                                 /\ Rekey(k, req[t].path, req[t].to) \in Key
                                 /\ Seqs!IsPrefix(req[t].to, Rekey(k, req[t].path, req[t].to).path)
<1>1. pc[t] \in Loop /\ Sound /\ Ready(t) /\ pc[t] # "idle"
  BY MovingLoop DEF ReadyInv, Loop
<1>2. /\ req[t] \in Request /\ req[t].op = "rename"
      /\ req[t].path \in PathSet \ {Root} /\ req[t].to \in PathSet \ {Root}
  BY <1>1, MovedKeys DEF Loop
<1>3. todo[t] \subseteq Key /\ todo[t] \subseteq DOMAIN bucket /\ \A k \in todo[t] : Seqs!IsPrefix(req[t].path, k.path)
  BY <1>1 DEF Sound, TypeOK, OnCourse, Ready
<1>4. ~Related(req[t].path, req[t].to)
  BY <1>1, <1>2 DEF ReadyInv, Apartness
<1> QED BY <1>1, <1>2, <1>3, <1>4, RekeyedPath, RekeyedUnder

(* What another call reaches is not under way. *)
LEMMA OthersStay ==
    ASSUME ReadyInv, NEW t \in Task, Moving(t), NEW u \in Task, u # t, pc[u] # "idle",
           NEW x \in Key, Reaches(req[u], x)
    PROVE  /\ x \notin todo[t]
           /\ \A k : ~Arrives(t, k, x)
<1>1. PICK p \in Paths(req[u]) : Seqs!IsPrefix(p, x.path)
  BY DEF Reaches
<1>2. p \in PathSet
  BY RequestFields DEF Paths, ReadyInv, Sound, TypeOK
<1>3. ~Related(p, req[t].path) /\ ~Related(p, req[t].to)
  BY Travellers DEF ReadyInv, Apartness, Paths
<1>4. ~Seqs!IsPrefix(req[t].path, x.path) /\ ~Seqs!IsPrefix(req[t].to, x.path)
  BY <1>1, <1>2, <1>3, KeyFields, Travellers, UnrelatedPathsPart
<1> QED BY <1>4, Travellers DEF Arrives

LEMMA OneArrival ==
    ASSUME ReadyInv, NEW t \in Task, NEW u \in Task, NEW k, NEW l, NEW x, Arrives(t, k, x), Arrives(u, l, x)
    PROVE  t = u /\ k = l
<1>1. /\ x \in Key /\ Moving(t) /\ Moving(u) /\ pc[u] # "idle" /\ k \in todo[t] /\ l \in todo[u]
      /\ x = Rekey(k, req[t].path, req[t].to) /\ x = Rekey(l, req[u].path, req[u].to)
  BY Travellers DEF Arrives
<1>2. t = u
  <2> SUFFICES ASSUME t # u PROVE FALSE
    OBVIOUS
  <2>1. Reaches(req[u], x)
    BY <1>1, Travellers, ReachedPaths
  <2> QED BY <1>1, <2>1, OthersStay
<1>3. k = l
  <2>1. /\ k \in Key /\ l \in Key /\ Seqs!IsPrefix(req[t].path, k.path) /\ Seqs!IsPrefix(req[t].path, l.path)
        /\ req[t].path \in PathSet /\ req[t].to \in PathSet \ {Root}
    BY <1>1, <1>2, Travellers
  <2>2. Rekey(k, req[t].path, req[t].to) = Rekey(l, req[t].path, req[t].to)
    BY <1>1, <1>2
  <2> QED BY <2>1, <2>2, RekeyInjective
<1> QED BY <1>2, <1>3

(* A key does not arrive where another departs. *)
LEMMA DepartedIsVacant ==
    ASSUME ReadyInv, NEW t \in Task, Moving(t), NEW x \in todo[t]
    PROVE  Vacant(x)
<1> SUFFICES ASSUME NEW u \in Task, NEW k, Arrives(u, k, x) PROVE FALSE
  BY DEF Vacant
<1>1. x \in Key /\ pc[t] # "idle" /\ Moving(u) /\ Reaches(req[t], x)
  BY Travellers, ReachedPaths DEF Arrives
<1>2. u = t
  BY <1>1, OthersStay
<1>3. Seqs!IsPrefix(req[t].to, x.path) /\ Seqs!IsPrefix(req[t].path, x.path)
  BY <1>2, Travellers DEF Arrives
<1> QED BY <1>1, <1>3, KeyFields, Travellers, UnrelatedPathsPart

LEMMA Pendings ==
    /\ \A x : (\E m \in Pending : m.to = x) <=> ~Vacant(x)
    /\ \A x : (\E m \in Pending : m.from = x) <=> Departs(x)
    /\ \A m \in Pending : \E t \in Task : Arrives(t, m.from, m.to)
<1>1. \A m : m \in Pending <=> \E t \in Task : Moving(t) /\ \E k \in todo[t] :
                                   m = [from |-> k, to |-> Rekey(k, req[t].path, req[t].to)]
  BY DEF Pending
<1>2. ASSUME NEW m \in Pending PROVE \E t \in Task : Arrives(t, m.from, m.to)
  BY <1>1, <1>2 DEF Arrives
<1>3. ASSUME NEW t \in Task, NEW k, NEW x, Arrives(t, k, x) PROVE \E m \in Pending : m.from = k /\ m.to = x
  <2>1. PICK m : m = [from |-> k, to |-> x]
    OBVIOUS
  <2>2. m \in Pending
    BY <1>1, <1>3, <2>1 DEF Arrives
  <2> QED BY <2>1, <2>2
<1>4. ASSUME NEW x PROVE (\E m \in Pending : m.to = x) <=> ~Vacant(x)
  BY <1>2, <1>3 DEF Vacant
<1>5. ASSUME NEW x PROVE (\E m \in Pending : m.from = x) <=> Departs(x)
  BY <1>2, <1>3 DEF Departs, Arrives
<1> QED BY <1>2, <1>4, <1>5

AbsView ==
    /\ \A t \in Task : \A k, x : Arrives(t, k, x) => x \in DOMAIN AbsObjects /\ AbsObjects[x] = bucket[k]
    /\ \A x : Vacant(x) => /\ x \in DOMAIN AbsObjects <=> x \in DOMAIN bucket /\ ~Departs(x)
                           /\ x \in DOMAIN AbsObjects => AbsObjects[x] = bucket[x]
    /\ AbsObjects = [x \in DOMAIN AbsObjects |-> AbsObjects[x]]

LEMMA AbsReads == ReadyInv => AbsView
<1> SUFFICES ASSUME ReadyInv PROVE AbsView
  OBVIOUS
<1>1. /\ DOMAIN AbsObjects = (DOMAIN bucket \ {m.from : m \in Pending}) \cup {m.to : m \in Pending}
      /\ AbsObjects = [x \in DOMAIN AbsObjects |-> AbsObjects[x]]
      /\ \A x \in DOMAIN AbsObjects :
            AbsObjects[x] = IF \E m \in Pending : m.to = x
                            THEN bucket[(CHOOSE m \in Pending : m.to = x).from] ELSE bucket[x]
  BY DEF AbsObjects
<1>2. ASSUME NEW t \in Task, NEW k, NEW x, Arrives(t, k, x)
      PROVE  x \in DOMAIN AbsObjects /\ AbsObjects[x] = bucket[k]
  <2>1. \E m \in Pending : m.to = x
    BY <1>2, Pendings DEF Vacant
  <2>2. x \in DOMAIN AbsObjects
    BY <1>1, <2>1
  <2>3. PICK m \in Pending : m.to = x /\ m = CHOOSE n \in Pending : n.to = x
    BY <2>1
  <2>4. m.from = k
    BY <1>2, <2>3, Pendings, OneArrival
  <2> QED BY <1>1, <2>1, <2>2, <2>3, <2>4
<1>3. ASSUME NEW x, Vacant(x)
      PROVE  /\ x \in DOMAIN AbsObjects <=> x \in DOMAIN bucket /\ ~Departs(x)
             /\ x \in DOMAIN AbsObjects => AbsObjects[x] = bucket[x]
  BY <1>1, <1>3, Pendings
<1> QED BY <1>1, <1>2, <1>3 DEF AbsView

LEMMA SameStore ==
    ASSUME NEW f, NEW g, f = [x \in DOMAIN f |-> f[x]], g = [x \in DOMAIN g |-> g[x]],
           \A x : x \in DOMAIN f <=> x \in DOMAIN g, \A x \in DOMAIN f : f[x] = g[x]
    PROVE  f = g
<1>1. DOMAIN f = DOMAIN g
  OBVIOUS
<1>2. [x \in DOMAIN f |-> f[x]] = [x \in DOMAIN g |-> g[x]]
  BY <1>1
<1> QED BY <1>2

(* The instance's reading of a map is the module's own. *)
LEMMA SamePaths ==
    /\ \A p : Mem!FileKey(p) = FileKey(p) /\ Mem!DirKey(p) = DirKey(p)
    /\ \A k, p : Mem!StartsWith(k, p) <=> StartsWith(k, p)
    /\ \A k, p : Mem!Below(k, p) <=> Below(k, p)
    /\ \A k, p, q : Mem!Rekey(k, p, q) = Rekey(k, p, q)
    /\ Mem!Root = Root
<1>1. \A k, p : Mem!StartsWith(k, p) <=> StartsWith(k, p)
  BY DEF Mem!StartsWith, StartsWith, Mem!Seqs!IsPrefix, Seqs!IsPrefix
<1> QED BY <1>1 DEF Mem!FileKey, FileKey, Mem!DirKey, DirKey, Mem!Below, Below, Mem!Rekey, Rekey, Mem!Root, Root

LEMMA SameMaps ==
    /\ \A o, p : Mem!HasFile(o, p) <=> HasFile(o, p)
    /\ \A o, p : Mem!HasPrefix(o, p) <=> HasPrefix(o, p)
    /\ \A o, p : Mem!IsDir(o, p) <=> IsDir(o, p)
    /\ \A o, p : Mem!Children(o, p) = Children(o, p)
    /\ \A o, k, v : Mem!Put(o, k, v) = Put(o, k, v)
    /\ \A o, k : Mem!Drop(o, k) = Drop(o, k)
<1>1. /\ \A o, p : Mem!HasFile(o, p) <=> HasFile(o, p)
      /\ \A o, p : Mem!HasPrefix(o, p) <=> HasPrefix(o, p)
  BY SamePaths DEF Mem!HasFile, HasFile, Mem!HasPrefix, HasPrefix
<1>2. \A o, p : Mem!Children(o, p) = Children(o, p)
  <2>1. \A p, n : Mem!Join(p, n) = Join(p, n)
    BY DEF Mem!Join, Join
  <2>2. \A kind, n : Mem!Entry(kind, n) = Entry(kind, n)
    BY DEF Mem!Entry, Entry
  <2> QED BY SamePaths, <2>1, <2>2 DEF Mem!Children, Children
<1> QED BY <1>1, <1>2, SamePaths DEF Mem!IsDir, IsDir, Mem!Put, Put, Mem!Drop, Drop

LEMMA SameResults ==
    /\ \A b, offset, data : Mem!Splice(b, offset, data) = Splice(b, offset, data)
    /\ \A b, len : Mem!Resize(b, len) = Resize(b, len)
    /\ \A b, offset, len : Mem!Slice(b, offset, len) = Slice(b, offset, len)
    /\ \A e : Mem!Err(e) = Err(e) /\ Mem!Listing(e) = Listing(e) /\ Mem!Found(e) = Found(e) /\ Mem!Contents(e) = Contents(e)
    /\ \A kind, n : Mem!Entry(kind, n) = Entry(kind, n)
    /\ Mem!Done = Done /\ Mem!NoReply = NoReply /\ Mem!NoRequest = NoRequest
BY DEF Mem!Splice, Splice, Mem!Resize, Resize, Mem!Slice, Slice, Mem!Err, Err, Mem!Listing, Listing, Mem!Found, Found,
       Mem!Contents, Contents, Mem!Entry, Entry, Mem!Done, Done, Mem!NoReply, NoReply, Mem!NoRequest, NoRequest

LEMMA NextAbsReads == ReadyInv' => AbsView'
BY AbsReads, PTL

(* Nothing is begun, moved or finished. *)
MovesStay == \A u \in Task : /\ Moving(u)' <=> Moving(u)
                             /\ Moving(u) => todo'[u] = todo[u] /\ req'[u] = req[u]

LEMMA SameMoves ==
    ASSUME MovesStay
    PROVE  /\ \A u \in Task : \A k, x : Arrives(u, k, x)' <=> Arrives(u, k, x)
           /\ \A x : Vacant(x)' <=> Vacant(x)
           /\ \A x : Departs(x)' <=> Departs(x)
<1>1. \A u \in Task : \A k, x : Arrives(u, k, x)' <=> Arrives(u, k, x)
  BY DEF Arrives, MovesStay
<1> QED BY <1>1 DEF Vacant, Departs, MovesStay

LEMMA StaysAsItWas ==
    ASSUME MovesStay, bucket' = bucket, ReadyInv, ReadyInv' PROVE AbsObjects' = AbsObjects
<1>1. AbsView /\ AbsView'
  BY AbsReads, NextAbsReads
<1>2. ASSUME NEW x
      PROVE  /\ x \in DOMAIN AbsObjects' <=> x \in DOMAIN AbsObjects
             /\ x \in DOMAIN AbsObjects => AbsObjects'[x] = AbsObjects[x]
  <2>1. CASE Vacant(x)
    <3>1. Vacant(x)' /\ (Departs(x)' <=> Departs(x))
      BY <2>1, SameMoves
    <3> QED BY <1>1, <2>1, <3>1 DEF AbsView
  <2>2. CASE ~Vacant(x)
    <3>1. PICK u \in Task : \E k : Arrives(u, k, x)
      BY <2>2 DEF Vacant
    <3>2. PICK k : Arrives(u, k, x)
      BY <3>1
    <3>3. Arrives(u, k, x)'
      BY <3>2, SameMoves
    <3> QED BY <1>1, <3>2, <3>3 DEF AbsView
  <2> QED BY <2>1, <2>2
<1>3. AbsObjects = [x \in DOMAIN AbsObjects |-> AbsObjects[x]] /\ AbsObjects' = [x \in DOMAIN AbsObjects' |-> AbsObjects'[x]]
  BY <1>1 DEF AbsView
<1> QED BY <1>2, <1>3, SameStore

(* A call that is not moving keys reads the abstract store in the bucket. *)
LEMMA AbstractKeys ==
    ASSUME ReadyInv, NEW x \in DOMAIN AbsObjects PROVE x \in Key
<1>1. CASE Vacant(x)
  BY <1>1, AbsReads DEF AbsView, ReadyInv, Sound, TypeOK, IsStore
<1>2. CASE ~Vacant(x)
  BY <1>2, Travellers DEF Vacant, Arrives
<1> QED BY <1>1, <1>2

LEMMA Reached ==
    ASSUME ReadyInv, NEW t \in Task, ~Moving(t), pc[t] # "idle", NEW x \in Key, Reaches(req[t], x)
    PROVE  /\ Vacant(x) /\ ~Departs(x)
           /\ x \in DOMAIN AbsObjects <=> x \in DOMAIN bucket
           /\ x \in DOMAIN bucket => AbsObjects[x] = bucket[x]
<1>1. Vacant(x)
  BY OthersStay DEF Vacant, Arrives
<1>2. ~Departs(x)
  BY OthersStay DEF Departs
<1> QED BY <1>1, <1>2, AbsReads DEF AbsView

LEMMA ReadInTheBucket ==
    ASSUME ReadyInv, NEW t \in Task, ~Moving(t), pc[t] # "idle"
    PROVE  LET p == req[t].path
               k == FileKey(p)
           IN  /\ HasFile(AbsObjects, p) <=> HasFile(bucket, p)
               /\ HasFile(bucket, p) => AbsObjects[k] = bucket[k]
               /\ HasPrefix(AbsObjects, p) <=> HasPrefix(bucket, p)
               /\ IsDir(AbsObjects, p) <=> IsDir(bucket, p)
               /\ \A x : /\ x \in DOMAIN AbsObjects /\ StartsWith(x, p) <=> x \in DOMAIN bucket /\ StartsWith(x, p)
                         /\ x \in DOMAIN AbsObjects /\ Below(x, p) <=> x \in DOMAIN bucket /\ Below(x, p)
                         /\ x \in DOMAIN bucket /\ StartsWith(x, p) => AbsObjects[x] = bucket[x]
               /\ Children(AbsObjects, p) = Children(bucket, p)
<1> DEFINE p == req[t].path
           k == FileKey(p)
<1>1. p \in PathSet /\ req[t] \in Request
  BY RequestFields DEF ReadyInv, Sound, TypeOK
<1>2. \A x : x \in DOMAIN AbsObjects \/ x \in DOMAIN bucket => x \in Key
  BY AbstractKeys DEF ReadyInv, Sound, TypeOK, IsStore
<1>3. \A x \in Key : StartsWith(x, p) => Reaches(req[t], x)
  BY <1>1, StartsWithPrefix, ReachedPaths
<1>4. \A x \in Key : Reaches(req[t], x) => /\ x \in DOMAIN AbsObjects <=> x \in DOMAIN bucket
                                           /\ x \in DOMAIN bucket => AbsObjects[x] = bucket[x]
  BY Reached
<1>5. \A x : /\ x \in DOMAIN AbsObjects /\ StartsWith(x, p) <=> x \in DOMAIN bucket /\ StartsWith(x, p)
             /\ x \in DOMAIN bucket /\ StartsWith(x, p) => AbsObjects[x] = bucket[x]
  BY <1>2, <1>3, <1>4
<1>6. \A x : x \in DOMAIN AbsObjects /\ Below(x, p) <=> x \in DOMAIN bucket /\ Below(x, p)
  BY <1>5 DEF Below
<1>7. (HasFile(AbsObjects, p) <=> HasFile(bucket, p)) /\ (HasFile(bucket, p) => AbsObjects[k] = bucket[k])
  <2>1. CASE p = Root
    <3>1. k \notin Key
      BY <2>1 DEF FileKey, Key
    <3> QED BY <1>2, <3>1 DEF HasFile
  <2>2. CASE p # Root
    <3>1. k \in Key /\ Reaches(req[t], k)
      BY <1>1, <2>2, KeysOfPath, PrefixReflexive, ReachedPaths
    <3> QED BY <1>4, <3>1 DEF HasFile
  <2> QED BY <2>1, <2>2
<1>8. HasPrefix(AbsObjects, p) <=> HasPrefix(bucket, p)
  BY <1>5 DEF HasPrefix
<1>9. Children(AbsObjects, p) = Children(bucket, p)
  <2>1. \A x : x \in DOMAIN bucket /\ Below(x, p) => AbsObjects[x] = bucket[x]
    BY <1>5 DEF Below
  <2>2. {x \in DOMAIN AbsObjects : Below(x, p)} = {x \in DOMAIN bucket : Below(x, p)}
    BY <1>6
  <2> QED BY <2>1, <2>2 DEF Children
<1> QED BY <1>5, <1>6, <1>7, <1>8, <1>9 DEF IsDir

(* What such a call stores or deletes is stored or deleted there. *)
LEMMA StoresThere ==
    ASSUME MovesStay, ReadyInv, ReadyInv', NEW t \in Task, ~Moving(t), pc[t] # "idle",
           NEW k \in Key, Reaches(req[t], k), NEW v, bucket' = Put(bucket, k, v)
    PROVE  AbsObjects' = Put(AbsObjects, k, v)
<1>1. AbsView /\ AbsView' /\ Vacant(k) /\ ~Departs(k)
  BY AbsReads, NextAbsReads, Reached
<1>2. ASSUME NEW x
      PROVE  /\ x \in DOMAIN AbsObjects' <=> x \in DOMAIN Put(AbsObjects, k, v)
             /\ x \in DOMAIN AbsObjects' => AbsObjects'[x] = Put(AbsObjects, k, v)[x]
  <2>1. CASE Vacant(x)
    <3>1. Vacant(x)' /\ (Departs(x)' <=> Departs(x))
      BY <2>1, SameMoves
    <3> QED BY <1>1, <2>1, <3>1, PutReads DEF AbsView
  <2>2. CASE ~Vacant(x)
    <3>1. PICK u \in Task : \E l : Arrives(u, l, x)
      BY <2>2 DEF Vacant
    <3>2. PICK l : Arrives(u, l, x)
      BY <3>1
    <3>3. Arrives(u, l, x)'
      BY <3>2, SameMoves
    <3>4. l # k /\ l \in DOMAIN bucket
      BY <1>1, <3>2, Travellers DEF Arrives, Departs
    <3>5. x # k
      BY <1>1, <2>2
    <3> QED BY <1>1, <3>2, <3>3, <3>4, <3>5, PutReads DEF AbsView
  <2> QED BY <2>1, <2>2
<1>3. /\ AbsObjects' = [x \in DOMAIN AbsObjects' |-> AbsObjects'[x]]
      /\ Put(AbsObjects, k, v) = [x \in DOMAIN Put(AbsObjects, k, v) |-> Put(AbsObjects, k, v)[x]]
  BY <1>1 DEF AbsView, Put
<1> QED BY <1>2, <1>3, SameStore

LEMMA DropsThere ==
    ASSUME MovesStay, ReadyInv, ReadyInv', NEW t \in Task, ~Moving(t), pc[t] # "idle",
           NEW k \in Key, Reaches(req[t], k), bucket' = Drop(bucket, k)
    PROVE  AbsObjects' = Drop(AbsObjects, k)
<1>1. AbsView /\ AbsView' /\ Vacant(k) /\ ~Departs(k)
  BY AbsReads, NextAbsReads, Reached
<1>2. ASSUME NEW x
      PROVE  /\ x \in DOMAIN AbsObjects' <=> x \in DOMAIN Drop(AbsObjects, k)
             /\ x \in DOMAIN AbsObjects' => AbsObjects'[x] = Drop(AbsObjects, k)[x]
  <2>1. CASE Vacant(x)
    <3>1. Vacant(x)' /\ (Departs(x)' <=> Departs(x))
      BY <2>1, SameMoves
    <3> QED BY <1>1, <2>1, <3>1, DropReads DEF AbsView
  <2>2. CASE ~Vacant(x)
    <3>1. PICK u \in Task : \E l : Arrives(u, l, x)
      BY <2>2 DEF Vacant
    <3>2. PICK l : Arrives(u, l, x)
      BY <3>1
    <3>3. Arrives(u, l, x)'
      BY <3>2, SameMoves
    <3>4. l # k /\ l \in DOMAIN bucket
      BY <1>1, <3>2, Travellers DEF Arrives, Departs
    <3>5. x # k
      BY <1>1, <2>2
    <3> QED BY <1>1, <3>2, <3>3, <3>4, <3>5, DropReads DEF AbsView
  <2> QED BY <2>1, <2>2
<1>3. /\ AbsObjects' = [x \in DOMAIN AbsObjects' |-> AbsObjects'[x]]
      /\ Drop(AbsObjects, k) = [x \in DOMAIN Drop(AbsObjects, k) |-> Drop(AbsObjects, k)[x]]
  BY <1>1 DEF AbsView, Drop
<1> QED BY <1>2, <1>3, SameStore

(* A copy is where the key already was; a deletion ends its move. *)
LEMMA CopyShowsNothing ==
    ASSUME MovesStay, ReadyInv, ReadyInv', NEW t \in Task, Moving(t), NEW v,
           bucket' = Put(bucket, Destination(t), v)
    PROVE  AbsObjects' = AbsObjects
<1> DEFINE d == Destination(t)
<1>1. AbsView /\ AbsView' /\ ~Vacant(d)
  <2>1. Arrives(t, Source(t), d)
    BY MovingLoop, MovedKeys DEF Loop, Arrives, ReadyInv, Destination
  <2> QED BY <2>1, AbsReads, NextAbsReads DEF Vacant
<1> HIDE DEF d
<1>2. ASSUME NEW x
      PROVE  /\ x \in DOMAIN AbsObjects' <=> x \in DOMAIN AbsObjects
             /\ x \in DOMAIN AbsObjects => AbsObjects'[x] = AbsObjects[x]
  <2>1. CASE Vacant(x)
    <3>1. Vacant(x)' /\ (Departs(x)' <=> Departs(x)) /\ x # d
      BY <1>1, <2>1, SameMoves
    <3> QED BY <1>1, <2>1, <3>1, PutReads DEF AbsView, d
  <2>2. CASE ~Vacant(x)
    <3>1. PICK u \in Task : \E l : Arrives(u, l, x)
      BY <2>2 DEF Vacant
    <3>2. PICK l : Arrives(u, l, x)
      BY <3>1
    <3>3. Arrives(u, l, x)'
      BY <3>2, SameMoves
    <3>4. l # d /\ l \in DOMAIN bucket
      BY <1>1, <3>2, Travellers, DepartedIsVacant DEF Arrives
    <3> QED BY <1>1, <3>2, <3>3, <3>4, PutReads DEF AbsView, d
  <2> QED BY <2>1, <2>2
<1>3. AbsObjects = [x \in DOMAIN AbsObjects |-> AbsObjects[x]] /\ AbsObjects' = [x \in DOMAIN AbsObjects' |-> AbsObjects'[x]]
  BY <1>1 DEF AbsView
<1> QED BY <1>2, <1>3, SameStore

LEMMA UnlinkShowsNothing ==
    ASSUME ReadyInv, ReadyInv', NEW t \in Task, pc[t] = "unlink", bucket' = Drop(bucket, Source(t)),
           \A u \in Task \ {t} : (Moving(u)' <=> Moving(u)) /\ todo'[u] = todo[u], req' = req,
           \A k : Moving(t)' /\ k \in todo'[t] <=> k \in todo[t] /\ k # Source(t)
    PROVE  AbsObjects' = AbsObjects
<1>0. PICK s, d : s = Source(t) /\ d = Destination(t)
  OBVIOUS
<1>1. /\ AbsView /\ AbsView' /\ Arrives(t, s, d) /\ Vacant(s) /\ Moving(t) /\ d # s
      /\ d \in DOMAIN bucket /\ bucket[d] = bucket[s]
  <2>1. Moving(t) /\ s \in todo[t] /\ d # s
    BY <1>0, MovingLoop, MovedKeys, MovesElsewhere DEF Loop, ReadyInv
  <2>2. d \in DOMAIN bucket /\ bucket[d] = bucket[s]
    BY <1>0 DEF ReadyInv, Ready
  <2> QED BY <1>0, <2>1, <2>2, AbsReads, NextAbsReads, DepartedIsVacant DEF Arrives, Destination
<1>2. \A u \in Task : \A k, x : Arrives(u, k, x)' <=> Arrives(u, k, x) /\ ~(u = t /\ k = s)
  BY <1>1, <1>0 DEF Arrives
<1>3. \A x : Departs(x) <=> Departs(x)' \/ x = s
  BY <1>1, <1>0 DEF Departs, Arrives
<1>4. ~Departs(d)' /\ ~Departs(s)'
  <2>1. ~Departs(d)
    BY <1>1, DepartedIsVacant DEF Departs, Vacant
  <2>2. ~Departs(s)'
    <3> SUFFICES ASSUME NEW u \in Task \ {t}, Moving(u), s \in todo[u] PROVE FALSE
      BY <1>1, <1>0 DEF Departs, Arrives
    <3>1. Reaches(req[t], s) /\ pc[t] # "idle" /\ s \in Key
      BY <1>1, Travellers, ReachedPaths DEF Arrives
    <3> QED BY <3>1, OthersStay
  <2> QED BY <1>3, <2>1, <2>2
<1>5. ASSUME NEW x
      PROVE  /\ x \in DOMAIN AbsObjects' <=> x \in DOMAIN AbsObjects
             /\ x \in DOMAIN AbsObjects => AbsObjects'[x] = AbsObjects[x]
  <2>1. CASE Vacant(x)
    <3>1. Vacant(x)'
      BY <1>2, <2>1 DEF Vacant
    <3>2. x \in DOMAIN bucket' <=> x \in DOMAIN bucket /\ x # s
      BY <1>0, DropReads
    <3>3. x \in DOMAIN bucket' => bucket'[x] = bucket[x]
      BY <1>0, <3>2, DropReads
    <3> QED BY <1>1, <1>3, <1>4, <2>1, <3>1, <3>2, <3>3 DEF AbsView
  <2>2. CASE x = d
    <3>1. Vacant(x)'
      <4> SUFFICES ASSUME NEW u \in Task, NEW l, Arrives(u, l, x)' PROVE FALSE
        BY DEF Vacant
      <4>1. Arrives(u, l, x) /\ ~(u = t /\ l = s)
        BY <1>2
      <4> QED BY <1>1, <2>2, <4>1, OneArrival
    <3>2. x \in DOMAIN bucket' /\ bucket'[x] = bucket[s]
      BY <1>1, <1>0, <2>2, DropReads
    <3>3. x \in DOMAIN AbsObjects /\ AbsObjects[x] = bucket[s]
      BY <1>1, <2>2 DEF AbsView
    <3> QED BY <1>1, <1>4, <2>2, <3>1, <3>2, <3>3 DEF AbsView
  <2>3. CASE ~Vacant(x) /\ x # d
    <3>1. PICK u \in Task : \E l : Arrives(u, l, x)
      BY <2>3 DEF Vacant
    <3>2. PICK l : Arrives(u, l, x)
      BY <3>1
    <3>3. ~(u = t /\ l = s)
      BY <1>1, <2>3, <3>2 DEF Arrives
    <3>4. Arrives(u, l, x)'
      BY <1>2, <3>2, <3>3
    <3>5. l # s /\ l \in DOMAIN bucket
      <4>1. l \in DOMAIN bucket /\ Departs(l)'
        BY <3>2, <3>4, Travellers DEF Arrives, Departs
      <4> QED BY <1>4, <4>1
    <3> QED BY <1>1, <3>2, <3>4, <3>5, <1>0, DropReads DEF AbsView
  <2> QED BY <2>1, <2>2, <2>3
<1>6. AbsObjects = [x \in DOMAIN AbsObjects |-> AbsObjects[x]] /\ AbsObjects' = [x \in DOMAIN AbsObjects' |-> AbsObjects'[x]]
  BY <1>1 DEF AbsView
<1> QED BY <1>5, <1>6, SameStore

UnderWay ==
    \A t \in Task : Moving(t) =>
        \A k \in todo[t] : k \in Key /\ k \in DOMAIN bucket /\ Seqs!IsPrefix(req[t].path, k.path)

LEMMA NextUnderWay == ReadyInv' => UnderWay'
<1>1. ReadyInv => UnderWay
  BY Travellers DEF UnderWay
<1> QED BY <1>1, PTL

(* A rename that knows its keys has moved them. *)
LEMMA MovesAtOnce ==
    ASSUME ReadyInv, ReadyInv', NEW t \in Task, ~Moving(t), pc[t] # "idle", req[t].op = "rename", bucket' = bucket,
           \A u \in Task \ {t} : (Moving(u)' <=> Moving(u)) /\ todo'[u] = todo[u], req' = req,
           NEW ks, Moving(t)', todo'[t] = ks
    PROVE  AbsObjects' = Mem!Moved(AbsObjects, ks, req[t].path, req[t].to)
<1>1. PICK p, q : p = req[t].path /\ q = req[t].to
  OBVIOUS
<1>2. AbsView /\ AbsView'
  BY AbsReads, NextAbsReads
<1>3. /\ p \in PathSet /\ q \in PathSet \ {Root}
      /\ \A k \in ks : k \in Key /\ k \in DOMAIN bucket /\ Seqs!IsPrefix(p, k.path)
  <2>1. \A k \in ks : /\ k \in Key /\ k \in DOMAIN bucket' /\ Seqs!IsPrefix(req'[t].path, k.path)
    BY NextUnderWay DEF UnderWay
  <2>2. req[t] \in Request
    BY DEF ReadyInv, Sound, TypeOK
  <2> QED BY <1>1, <2>1, <2>2, RequestFields
<1> DEFINE target(k) == Rekey(k, p, q)
<1>4. \A k, l \in ks : target(k) = target(l) => k = l
  BY <1>3, RekeyInjective
<1>5. \A k, x : Arrives(t, k, x)' <=> k \in ks /\ x = target(k)
  BY <1>1 DEF Arrives
<1>6. /\ \A u \in Task \ {t} : \A k, x : Arrives(u, k, x)' <=> Arrives(u, k, x)
      /\ \A k, x : ~Arrives(t, k, x)
  BY DEF Arrives
<1>7. \A x : Departs(x)' <=> Departs(x) \/ x \in ks
  BY DEF Departs
<1>8. \A k \in ks : k \in DOMAIN AbsObjects /\ AbsObjects[k] = bucket[k] /\ Vacant(k)
  <2>1. \A k \in ks : Reaches(req[t], k)
    BY <1>1, <1>3, ReachedPaths DEF ReadyInv, Sound, TypeOK
  <2> QED BY <1>3, <2>1, Reached
<1> DEFINE M == Mem!Moved(AbsObjects, ks, p, q)
<1>9. /\ \A x : x \in DOMAIN M <=> (x \in DOMAIN AbsObjects /\ x \notin ks) \/ \E k \in ks : target(k) = x
      /\ \A k \in ks : M[target(k)] = AbsObjects[k]
      /\ \A x \in DOMAIN M : (\A k \in ks : target(k) # x) => M[x] = AbsObjects[x]
      /\ M = [x \in DOMAIN M |-> M[x]]
  <2> DEFINE f == [k \in ks |-> Rekey(k, p, q)]
             D == (DOMAIN AbsObjects \ ks) \cup {f[k] : k \in ks}
  <2>1. \A k \in ks : f[k] = target(k)
    OBVIOUS
  <2>2. M = [x \in D |-> IF \E k \in ks : f[k] = x THEN AbsObjects[CHOOSE k \in ks : f[k] = x] ELSE AbsObjects[x]]
    BY SamePaths DEF Mem!Moved
  <2> HIDE DEF f, M, target
  <2>3. DOMAIN M = D
    BY <2>2
  <2>4. ASSUME NEW k \in ks PROVE M[target(k)] = AbsObjects[k]
    <3>1. (CHOOSE l \in ks : f[l] = target(k)) = k
      BY <1>4, <2>1
    <3>2. target(k) \in D
      BY <2>1
    <3> QED BY <2>1, <2>2, <3>1, <3>2
  <2>5. \A x \in D : (\A k \in ks : target(k) # x) => M[x] = AbsObjects[x]
    BY <2>1, <2>2
  <2>6. M = [x \in DOMAIN M |-> M[x]]
    BY <2>2, <2>3
  <2> QED BY <2>1, <2>3, <2>4, <2>5, <2>6
<1> HIDE DEF M, target
<1>10. ASSUME NEW x
       PROVE  (x \in DOMAIN AbsObjects' <=> x \in DOMAIN M) /\ (x \in DOMAIN AbsObjects' => AbsObjects'[x] = M[x])
  <2>1. CASE \E k \in ks : target(k) = x
    <3>1. PICK k \in ks : target(k) = x
      BY <2>1
    <3>2. x \in DOMAIN AbsObjects' /\ AbsObjects'[x] = bucket'[k]
      BY <1>2, <1>5, <3>1 DEF AbsView
    <3> QED BY <1>8, <1>9, <3>1, <3>2
  <2>2. CASE (\A k \in ks : target(k) # x) /\ Vacant(x)
    <3>1. Vacant(x)'
      BY <1>5, <1>6, <2>2 DEF Vacant
    <3>2. x \in DOMAIN AbsObjects' <=> x \in DOMAIN AbsObjects /\ x \notin ks
      BY <1>2, <1>7, <2>2, <3>1 DEF AbsView
    <3> QED BY <1>2, <1>9, <2>2, <3>1, <3>2 DEF AbsView
  <2>3. CASE (\A k \in ks : target(k) # x) /\ ~Vacant(x)
    <3>1. PICK u \in Task : \E l : Arrives(u, l, x)
      BY <2>3 DEF Vacant
    <3>2. PICK l : Arrives(u, l, x)
      BY <3>1
    <3>3. Arrives(u, l, x)' /\ x \notin ks
      BY <1>6, <1>8, <2>3, <3>2
    <3> QED BY <1>2, <1>9, <2>3, <3>2, <3>3 DEF AbsView
  <2> QED BY <2>1, <2>2, <2>3
<1>11. AbsObjects' = [x \in DOMAIN AbsObjects' |-> AbsObjects'[x]]
  BY <1>2 DEF AbsView
<1>12. AbsObjects' = M
  BY <1>9, <1>10, <1>11, SameStore
<1> QED BY <1>1, <1>12 DEF M

-----------------------------------------------------------------------------
(* What a step is to the in-memory backend. *)

LEMMA OthersMoveOn ==
    ASSUME ReadyInv, NEW t \in Task, Operate(t)
    PROVE  /\ \A u \in Task \ {t} : /\ pc'[u] = pc[u] /\ reply'[u] = reply[u]
                                    /\ (Moving(u)' <=> Moving(u)) /\ todo'[u] = todo[u]
           /\ req' = req /\ pc[t] \in Calls
           /\ (Moving(t)' <=> Moving(t)) /\ (Moving(t) => todo'[t] = todo[t]) => MovesStay
<1>1. pc[t] \in Calls /\ Alone(t)
  BY OneCallSteps DEF ReadyInv
<1> QED BY <1>1 DEF Alone, Moving, MovesStay

LEMMA NextMovingLoop == ReadyInv' => \A t \in Task : Moving(t)' <=> pc'[t] \in Loop
<1>1. ReadyInv => \A t \in Task : Moving(t) <=> pc[t] \in Loop
  BY MovingLoop
<1>2. (ReadyInv => \A t \in Task : Moving(t) <=> pc[t] \in Loop)'
  BY <1>1, PTL
<1> QED BY <1>2

(* The step at which a call takes effect. *)
LEMMA TakesEffect ==
    ASSUME ReadyInv, ReadyInv', NEW t \in Task, Operate(t), ~Moving(t), NEW res,
           \/ pc'[t] = "done" /\ reply'[t] = res
           \/ Moving(t)' /\ res = Done /\ reply' = reply
    PROVE  Mem!Calling(t, req[t].op) /\ Mem!Apply(t, AbsObjects', res)
<1>1. /\ \A u \in Task \ {t} : pc'[u] = pc[u] /\ reply'[u] = reply[u] /\ (Moving(u)' <=> Moving(u))
      /\ req' = req /\ pc[t] \in Calls
  BY OthersMoveOn
<1>2. AbsPhase[t] = "called"
  BY <1>1 DEF AbsPhase, Calls
<1>3. AbsPhase' = [AbsPhase EXCEPT ![t] = "applied"]
  <2>1. pc'[t] # "idle" /\ (pc'[t] = "done" \/ Moving(t)')
    BY MovingLoop, NextMovingLoop DEF Loop
  <2> QED BY <1>1, <2>1 DEF AbsPhase
<1>4. AbsReply' = [AbsReply EXCEPT ![t] = res]
  <2>1. pc'[t] = "done" => ~Moving(t)'
    BY DEF Moving
  <2> QED BY <1>1, <2>1 DEF AbsReply
<1> QED BY <1>1, <1>2, <1>3, <1>4 DEF Mem!Calling, Mem!Apply

(* The steps that are none. *)
LEMMA IsHidden ==
    ASSUME ReadyInv, ReadyInv', NEW t \in Task, Operate(t), AbsObjects' = AbsObjects,
           \/ (Moving(t)' <=> Moving(t)) /\ pc'[t] # "done" /\ reply' = reply
           \/ Moving(t) /\ pc'[t] = "done" /\ reply'[t] = Done
    PROVE  UNCHANGED Mem!vars
<1>1. /\ \A u \in Task \ {t} : pc'[u] = pc[u] /\ reply'[u] = reply[u] /\ (Moving(u)' <=> Moving(u))
      /\ req' = req /\ pc[t] \in Calls
  BY OthersMoveOn
<1>2. pc[t] # "idle" /\ pc'[t] # "idle" /\ pc[t] # "done" /\ (pc'[t] = "done" => ~Moving(t)')
  <2>1. Alone(t)
    BY OneCallSteps DEF ReadyInv
  <2> QED BY <1>1, <2>1 DEF Calls, Alone, Moving
<1>3. AbsPhase' = AbsPhase
  BY <1>1, <1>2 DEF AbsPhase
<1>4. AbsReply' = AbsReply
  BY <1>1, <1>2 DEF AbsReply
<1> QED BY <1>1, <1>3, <1>4 DEF Mem!vars

LEMMA Answers ==
    ASSUME ReadyInv, ReadyInv', NEW t \in Task, Operate(t), ~Moving(t), NEW res, Answer(t, res)
    PROVE  /\ Mem!Calling(t, req[t].op) /\ Mem!Apply(t, AbsObjects', res)
           /\ MovesStay
           /\ bucket' = bucket => AbsObjects' = AbsObjects
<1>1. pc'[t] = "done" /\ reply'[t] = res
  BY DEF Answer, ReadyInv, Sound, TypeOK
<1>2. MovesStay
  BY <1>1, OthersMoveOn DEF Moving
<1> QED BY <1>1, <1>2, TakesEffect, StaysAsItWas

LEMMA GoesOn ==
    ASSUME ReadyInv, ReadyInv', NEW t \in Task, Operate(t), ~Moving(t), NEW call \in Calls \ Loop, Goto(t, call),
           bucket' = bucket
    PROVE  UNCHANGED Mem!vars
<1>1. pc'[t] = call /\ reply' = reply
  BY WentTo DEF Goto, ReadyInv
<1>2. ~Moving(t)' /\ pc'[t] # "done"
  BY <1>1, NextMovingLoop DEF Loop, Calls
<1>3. MovesStay
  BY <1>2, OthersMoveOn
<1> QED BY <1>1, <1>2, <1>3, StaysAsItWas, IsHidden

(* Past the end there is nothing to read. *)
LEMMA PastTheEnd ==
    ASSUME NEW b \in Bytes, NEW offset \in Nat, NEW len \in Nat, offset >= Len(b)
    PROVE  Slice(b, offset, len) = <<>>
<1>1. Len(b) \in Nat /\ b \in Seq(Byte)
  BY BytesIndexed DEF Bytes
<1>2. Slice(b, offset, len) = SubSeq(b, offset + 1, Len(b))
  BY <1>1 DEF Slice
<1> QED BY <1>1, <1>2

LEMMA CallsReady ==
    ASSUME MaxFaults = 0, ReadyInv, NEW t \in Task, pc[t] \in Calls \ Loop
    PROVE  /\ ~Moving(t) /\ Ready(t) /\ Agrees(req[t]) /\ req[t] \in Request
           /\ ~Repeat(t) /\ ~ReadFails(t) /\ \A applied : ~Fails(t, applied)
BY MovingLoop, NothingFails DEF ReadyInv, Ready, Sound, TypeOK

LEMMA StatImplements ==
    ASSUME MaxFaults = 0, ReadyInv, ReadyInv', NEW t \in Task, Operate(t), StatHead(t)
    PROVE  Mem!Operate(t) \/ UNCHANGED Mem!vars
<1> DEFINE r == req[t]
           k == FileKey(r.path)
<1>1. /\ pc[t] = "head" /\ bucket' = bucket /\ r.op \in {"stat", "create", "write"}
      /\ ~Moving(t) /\ Ready(t) /\ Agrees(r) /\ r \in Request /\ pc[t] # "idle"
  BY CallsReady DEF StatHead, Reads, Calls, Loop
<1>2. CASE k \notin DOMAIN bucket
  <2>1. Goto(t, "list")
    BY <1>2 DEF StatHead
  <2> QED BY <1>1, <2>1, GoesOn DEF Calls, Loop
<1>3. CASE k \in DOMAIN bucket
  <2>1. r.op # "write" /\ HasFile(bucket, r.path) /\ r.path # Root
    BY <1>1, <1>3, RequestFields DEF Ready, HasFile, Agrees, Immediate
  <2>2. HasFile(AbsObjects, r.path) /\ AbsObjects[k] = bucket[k]
    BY <1>1, <2>1, ReadInTheBucket
  <2>3. AfterStat(t, Found(Entry("file", Len(bucket[k]))))
    BY <1>3 DEF StatHead
  <2>4. CASE r.op = "stat"
    <3>1. Answer(t, Found(Entry("file", Len(AbsObjects[k]))))
      BY <2>2, <2>3, <2>4 DEF AfterStat
    <3>2. Mem!Calling(t, "stat") /\ Mem!Apply(t, AbsObjects, Found(Entry("file", Len(AbsObjects[k]))))
      BY <1>1, <2>4, <3>1, Answers
    <3> QED BY <2>1, <2>2, <3>2, SameMaps, SamePaths, SameResults
          DEF Mem!Stat, Mem!StatAnswer, Mem!Operate
  <2>5. CASE r.op = "create"
    <3>1. Answer(t, Err("AlreadyExists"))
      BY <2>3, <2>5, FoundIsOk DEF AfterStat, Refuse
    <3>2. Mem!Calling(t, "create") /\ Mem!Apply(t, AbsObjects, Err("AlreadyExists"))
      BY <1>1, <2>5, <3>1, Answers
    <3> QED BY <2>2, <3>2, SameMaps, SameResults DEF Mem!Create, Mem!Refuse, Mem!Operate
  <2> QED BY <1>1, <2>1, <2>4, <2>5
<1> QED BY <1>2, <1>3

LEMMA ReadHeadImplements ==
    ASSUME MaxFaults = 0, ReadyInv, ReadyInv', NEW t \in Task, Operate(t), ReadHead(t)
    PROVE  Mem!Operate(t) \/ UNCHANGED Mem!vars
<1> DEFINE r == req[t]
           k == FileKey(r.path)
<1>1. /\ pc[t] = "head" /\ bucket' = bucket /\ r.op = "read"
      /\ ~Moving(t) /\ Ready(t) /\ Agrees(r) /\ r \in Request /\ pc[t] # "idle"
  BY CallsReady DEF ReadHead, Reads, Calls, Loop
<1>2. /\ HasFile(AbsObjects, r.path) <=> HasFile(bucket, r.path)
      /\ HasPrefix(AbsObjects, r.path) <=> HasPrefix(bucket, r.path)
      /\ HasFile(bucket, r.path) => AbsObjects[k] = bucket[k]
  BY <1>1, ReadInTheBucket
<1>3. CASE ~HasFile(bucket, r.path)
  <2>1. Answer(t, Err("NotFound")) /\ ~HasPrefix(bucket, r.path)
    BY <1>1, <1>3 DEF ReadHead, Refuse, HasFile, Agrees
  <2>2. Mem!Calling(t, "read") /\ Mem!Apply(t, AbsObjects, Err("NotFound"))
    BY <1>1, <2>1, Answers
  <2> QED BY <1>2, <1>3, <2>1, <2>2, SameMaps, SameResults DEF Mem!Read, Mem!Refuse, Mem!Operate
<1>4. CASE HasFile(bucket, r.path) /\ r.offset >= Len(bucket[k])
  <2>1. bucket[k] \in Bytes /\ r.offset \in Nat /\ r.len \in Nat
    BY <1>1, <1>4, StoredBytes, RequestFields DEF HasFile, ReadyInv, Sound, TypeOK
  <2>2. Slice(bucket[k], r.offset, r.len) = <<>>
    BY <1>4, <2>1, PastTheEnd
  <2>3. Answer(t, Contents(<<>>))
    <3>1. ~(r.offset < Len(bucket[k]))
      BY <1>4, <2>1, BytesIndexed
    <3> QED BY <1>4, <3>1 DEF ReadHead, HasFile
  <2>4. Mem!Calling(t, "read") /\ Mem!Apply(t, AbsObjects, Contents(<<>>))
    BY <1>1, <2>3, Answers
  <2> QED BY <1>2, <1>4, <2>2, <2>4, SameMaps, SamePaths, SameResults DEF Mem!Read, Mem!Operate
<1>5. CASE HasFile(bucket, r.path) /\ ~(r.offset >= Len(bucket[k]))
  <2>1. Goto(t, "range")
    BY <1>5 DEF ReadHead, HasFile
  <2> QED BY <1>1, <2>1, GoesOn DEF Calls, Loop
<1> QED BY <1>3, <1>4, <1>5

LEMMA RangeImplements ==
    ASSUME MaxFaults = 0, ReadyInv, ReadyInv', NEW t \in Task, Operate(t), RangeCall(t)
    PROVE  Mem!Operate(t) \/ UNCHANGED Mem!vars
<1> DEFINE r == req[t]
           k == FileKey(r.path)
<1>1. /\ pc[t] = "range" /\ bucket' = bucket /\ r.op = "read"
      /\ ~Moving(t) /\ Ready(t) /\ r \in Request /\ pc[t] # "idle"
  BY CallsReady DEF RangeCall, Reads, Calls, Loop, ReadyInv, Sound, OnCourse
<1>2. HasFile(bucket, r.path) /\ size[t] = Len(bucket[k]) /\ r.offset < size[t]
  BY <1>1 DEF Ready
<1>3. HasFile(AbsObjects, r.path) /\ AbsObjects[k] = bucket[k]
  BY <1>1, <1>2, ReadInTheBucket
<1>4. bucket[k] \in Bytes /\ r.offset \in Nat /\ r.len \in Nat
  BY <1>1, <1>2, StoredBytes, RequestFields DEF HasFile, ReadyInv, Sound, TypeOK
<1>5. Answer(t, Contents(Slice(bucket[k], r.offset, r.len)))
  <2>1. Len(bucket[k]) \in Nat
    BY <1>4, BytesIndexed
  <2> QED BY <1>2, <1>4, <2>1 DEF RangeCall, Slice, HasFile
<1>6. Mem!Calling(t, "read") /\ Mem!Apply(t, AbsObjects, Contents(Slice(bucket[k], r.offset, r.len)))
  BY <1>1, <1>5, Answers
<1> QED BY <1>3, <1>6, SameMaps, SamePaths, SameResults DEF Mem!Read, Mem!Operate

LEMMA ListImplements ==
    ASSUME MaxFaults = 0, ReadyInv, ReadyInv', NEW t \in Task, Operate(t), ListCall(t)
    PROVE  Mem!Operate(t) \/ UNCHANGED Mem!vars
<1> DEFINE r == req[t]
           p == r.path
           cs == Children(bucket, p)
<1>1. /\ pc[t] = "list" /\ bucket' = bucket /\ r.op \in {"list", "stat", "create", "write", "remove"}
      /\ ~Moving(t) /\ Ready(t) /\ Agrees(r) /\ r \in Request /\ pc[t] # "idle"
  BY CallsReady DEF ListCall, Reads, Calls, Loop, ReadyInv, Sound, OnCourse
<1>2. /\ HasFile(AbsObjects, p) <=> HasFile(bucket, p)
      /\ IsDir(AbsObjects, p) <=> IsDir(bucket, p)
      /\ HasPrefix(AbsObjects, p) <=> HasPrefix(bucket, p)
      /\ Children(AbsObjects, p) = Children(bucket, p)
      /\ \A x : x \in DOMAIN AbsObjects /\ Below(x, p) <=> x \in DOMAIN bucket /\ Below(x, p)
      /\ \A x : x \in DOMAIN AbsObjects /\ StartsWith(x, p) <=> x \in DOMAIN bucket /\ StartsWith(x, p)
  BY <1>1, ReadInTheBucket
<1>3. /\ p \in PathSet /\ (r.op \in {"stat", "create", "write", "remove"} => p # Root)
      /\ r.op \in {"stat", "create", "write"} => ~HasFile(bucket, p)
      /\ r.op = "remove" => r.kind = "dir"
  BY <1>1, RequestFields DEF Agrees, Immediate, Ready
<1>4. p # Root => (IsDir(bucket, p) <=> HasPrefix(bucket, p))
  BY DEF IsDir
<1>5. ASSUME NEW res, Answer(t, res)
      PROVE  Mem!Calling(t, r.op) /\ Mem!Apply(t, AbsObjects, res)
  BY <1>1, <1>5, Answers
<1>6. CASE r.op = "list"
  <2>1. Answer(t, IF IsDir(bucket, p) THEN Listing(cs) ELSE Err("NotFound"))
    BY <1>6 DEF ListCall
  <2>2. IsDir(bucket, p) \/ ~HasFile(bucket, p)
    BY <1>1, <1>6 DEF Agrees
  <2>3. Mem!Calling(t, "list") /\ Mem!Apply(t, AbsObjects, IF IsDir(bucket, p) THEN Listing(cs) ELSE Err("NotFound"))
    BY <1>5, <1>6, <2>1
  <2> QED BY <1>2, <2>2, <2>3, SameMaps, SameResults DEF Mem!List, Mem!Refuse, Mem!Operate
<1>7. CASE r.op \in {"stat", "create", "write"} /\ IsDir(bucket, p)
  <2>1. AfterStat(t, Found(Entry("dir", 0)))
    BY <1>7, FoundIsOk DEF ListCall
  <2>2. Entry("dir", 0).kind = "dir"
    BY DEF Entry
  <2>3. Answer(t, IF r.op = "stat" THEN Found(Entry("dir", 0))
                  ELSE IF r.op = "create" THEN Err("AlreadyExists") ELSE Err("NotAFile"))
    BY <1>7, <2>1, <2>2, FoundIsOk DEF AfterStat, Refuse
  <2>4. CASE r.op = "stat"
    <3>1. Mem!Calling(t, "stat") /\ Mem!Apply(t, AbsObjects, Found(Entry("dir", 0)))
      BY <1>5, <2>3, <2>4
    <3> QED BY <1>2, <1>3, <1>7, <3>1, SameMaps, SamePaths, SameResults
          DEF Mem!Stat, Mem!StatAnswer, Mem!Operate
  <2>5. CASE r.op = "create"
    <3>1. Mem!Calling(t, "create") /\ Mem!Apply(t, AbsObjects, Err("AlreadyExists"))
      BY <1>5, <2>3, <2>5
    <3> QED BY <1>2, <1>3, <1>4, <1>7, <3>1, SameMaps, SameResults DEF Mem!Create, Mem!Refuse, Mem!Operate
  <2>6. CASE r.op = "write"
    <3>1. Mem!Calling(t, "write") /\ Mem!Apply(t, AbsObjects, Err("NotAFile"))
      BY <1>5, <2>3, <2>6
    <3> QED BY <1>2, <1>3, <1>4, <1>7, <3>1, SameMaps, SameResults DEF Mem!Write, Mem!Refuse, Mem!Operate
  <2> QED BY <1>7, <2>4, <2>5, <2>6
<1>8. CASE r.op \in {"stat", "create", "write"} /\ ~IsDir(bucket, p)
  <2>1. AfterStat(t, Err("NotFound"))
    BY <1>8, FoundIsOk DEF ListCall
  <2>2. CASE r.op = "stat"
    <3>1. Answer(t, Err("NotFound"))
      BY <2>1, <2>2 DEF AfterStat
    <3>2. Mem!Calling(t, "stat") /\ Mem!Apply(t, AbsObjects, Err("NotFound"))
      BY <1>5, <2>2, <3>1
    <3> QED BY <1>2, <1>3, <1>8, <3>2, SameMaps, SameResults
          DEF Mem!Stat, Mem!StatAnswer, Mem!Refuse, Mem!Operate
  <2>3. CASE r.op # "stat"
    <3>1. Goto(t, "put")
      BY <1>8, <2>1, <2>3, FoundIsOk DEF AfterStat, Store
    <3> QED BY <1>1, <3>1, GoesOn DEF Calls, Loop
  <2> QED BY <2>2, <2>3
<1>9. CASE r.op = "remove"
  <2>1. (\E x \in DOMAIN bucket : Below(x, p)) <=> cs # {}
    BY DEF Children
  <2>2. CASE IsDir(bucket, p) /\ cs = {}
    <3>1. Goto(t, "delete")
      BY <1>9, <2>2, FoundIsOk DEF ListCall
    <3> QED BY <1>1, <3>1, GoesOn DEF Calls, Loop
  <2>3. CASE IsDir(bucket, p) /\ cs # {}
    <3>1. Answer(t, Err("NotEmpty"))
      BY <1>9, <2>3, FoundIsOk DEF ListCall
    <3>2. Mem!Calling(t, "remove") /\ Mem!Apply(t, AbsObjects, Err("NotEmpty"))
      BY <1>5, <1>9, <3>1
    <3>3. \E x \in DOMAIN AbsObjects : Mem!Below(x, p)
      BY <1>2, <2>1, <2>3, SamePaths
    <3> QED BY <1>3, <1>9, <3>2, <3>3, SameResults DEF Mem!Remove, Mem!Refuse, Mem!Operate
  <2>4. CASE ~IsDir(bucket, p)
    <3>1. Answer(t, Err("NotFound"))
      BY <1>9, <2>4, FoundIsOk DEF ListCall
    <3>2. Mem!Calling(t, "remove") /\ Mem!Apply(t, AbsObjects, Err("NotFound"))
      BY <1>5, <1>9, <3>1
    <3>3. ~\E x \in DOMAIN AbsObjects : StartsWith(x, p)
      BY <1>2, <1>3, <1>4, <1>9, <2>4 DEF HasPrefix
    <3>4. StartsWith(DirKey(p), p)
      BY <1>3, <1>9, KeysOfPath, PrefixReflexive DEF StartsWith
    <3>5. (\A x \in DOMAIN AbsObjects : ~Mem!Below(x, p)) /\ DirKey(p) \notin DOMAIN AbsObjects
      BY <3>3, <3>4, SamePaths DEF Below
    <3>6. [path |-> p, dir |-> r.kind = "dir"] = DirKey(p)
      BY <1>3, <1>9 DEF DirKey
    <3> QED BY <1>3, <1>9, <3>2, <3>5, <3>6, SameResults DEF Mem!Remove, Mem!Refuse, Mem!Operate
  <2> QED BY <2>2, <2>3, <2>4
<1> QED BY <1>1, <1>6, <1>7, <1>8, <1>9

LEMMA GetImplements ==
    ASSUME MaxFaults = 0, ReadyInv, ReadyInv', NEW t \in Task, Operate(t), WriteGet(t) \/ TruncateGet(t)
    PROVE  Mem!Operate(t) \/ UNCHANGED Mem!vars
<1> DEFINE r == req[t]
           k == FileKey(r.path)
<1>1. pc[t] = "get" /\ bucket' = bucket /\ ~Moving(t) /\ pc[t] # "idle"
  BY CallsReady DEF WriteGet, TruncateGet, Reads, Calls, Loop
<1>2. CASE TruncateGet(t) /\ k \notin DOMAIN bucket
  <2>1. Answer(t, Err("NotFound")) /\ r.op = "truncate" /\ ~HasFile(bucket, r.path)
    BY <1>2 DEF TruncateGet, Refuse, HasFile
  <2>2. Mem!Calling(t, "truncate") /\ Mem!Apply(t, AbsObjects, Err("NotFound"))
    BY <1>1, <2>1, Answers
  <2>3. k \notin DOMAIN AbsObjects
    BY <1>1, <2>1, ReadInTheBucket DEF HasFile
  <2> QED BY <2>2, <2>3, SamePaths, SameResults DEF Mem!Truncate, Mem!Refuse, Mem!Operate
<1>3. CASE ~(TruncateGet(t) /\ k \notin DOMAIN bucket)
  <2>1. Goto(t, "put") \/ Goto(t, "head")
    BY <1>3 DEF WriteGet, TruncateGet, Store
  <2> QED BY <1>1, <2>1, GoesOn DEF Calls, Loop
<1> QED BY <1>2, <1>3

LEMMA RemoveHeadImplements ==
    ASSUME MaxFaults = 0, ReadyInv, ReadyInv', NEW t \in Task, Operate(t), RemoveHead(t)
    PROVE  Mem!Operate(t) \/ UNCHANGED Mem!vars
<1> DEFINE r == req[t]
           k == FileKey(r.path)
<1>1. /\ pc[t] = "head" /\ bucket' = bucket /\ ~Moving(t) /\ pc[t] # "idle" /\ r.op = "remove" /\ Ready(t)
  BY CallsReady DEF RemoveHead, Reads, Calls, Loop
<1>2. CASE HasFile(bucket, r.path)
  BY <1>1, <1>2, GoesOn DEF RemoveHead, Calls, Loop
<1>3. CASE ~HasFile(bucket, r.path)
  <2>1. Answer(t, Err("NotFound"))
    BY <1>3 DEF RemoveHead, Refuse
  <2>2. Mem!Calling(t, "remove") /\ Mem!Apply(t, AbsObjects, Err("NotFound"))
    BY <1>1, <2>1, Answers
  <2>3. k \notin DOMAIN AbsObjects
    BY <1>1, <1>3, ReadInTheBucket DEF HasFile
  <2>4. r.kind # "dir" /\ [path |-> r.path, dir |-> r.kind = "dir"] = k
    BY <1>1 DEF Ready, FileKey
  <2> QED BY <2>2, <2>3, <2>4, SameResults DEF Mem!Remove, Mem!Refuse, Mem!Operate
<1> QED BY <1>2, <1>3

LEMMA PutImplements ==
    ASSUME MaxFaults = 0, ReadyInv, ReadyInv', NEW t \in Task, Operate(t), PutCall(t)
    PROVE  Mem!Operate(t) \/ UNCHANGED Mem!vars
<1> DEFINE r == req[t]
           p == r.path
           k == FileKey(p)
<1>1. /\ pc[t] = "put" /\ ~Moving(t) /\ pc[t] # "idle" /\ Ready(t) /\ ~\E applied : Fails(t, applied)
      /\ r.op \in {"create", "write", "truncate"} /\ r \in Request
  BY CallsReady DEF PutCall, Calls, Loop, ReadyInv, Sound, OnCourse
<1>2. bucket' = Put(bucket, Target(r), buf[t]) /\ Answer(t, Done)
  BY <1>1 DEF PutCall
<1>3. Mem!Calling(t, r.op) /\ Mem!Apply(t, AbsObjects', Done) /\ MovesStay
  BY <1>1, <1>2, Answers
<1>4. AbsObjects' = Put(AbsObjects, Target(r), buf[t])
  <2>1. Target(r) \in Key /\ Reaches(r, Target(r))
    BY <1>1, TargetKey, ReachedPaths DEF ReadyInv
  <2> QED BY <1>1, <1>2, <1>3, <2>1, StoresThere
<1>5. /\ HasFile(AbsObjects, p) <=> HasFile(bucket, p)
      /\ HasPrefix(AbsObjects, p) <=> HasPrefix(bucket, p)
      /\ HasFile(bucket, p) => AbsObjects[k] = bucket[k]
  BY <1>1, ReadInTheBucket
<1>6. CASE r.op = "create"
  <2>1. ~HasFile(bucket, p) /\ ~HasPrefix(bucket, p) /\ buf[t] = <<>> /\ Target(r) = [path |-> p, dir |-> r.kind = "dir"]
    BY <1>1, <1>6 DEF Ready, Target
  <2> QED BY <1>3, <1>4, <1>5, <1>6, <2>1, SameMaps, SameResults DEF Mem!Create, Mem!Operate
<1>7. CASE r.op \in {"write", "truncate"}
  <2>1. Target(r) = k
    BY <1>7 DEF Target, FileKey
  <2>2. CASE r.op = "write" /\ HasFile(bucket, p)
    <3>1. buf[t] = Splice(AbsObjects[k], r.offset, r.data)
      BY <1>1, <1>5, <2>2 DEF Ready
    <3> QED BY <1>3, <1>4, <1>5, <2>1, <2>2, <3>1, SameMaps, SamePaths, SameResults DEF Mem!Write, Mem!Operate
  <2>3. CASE r.op = "write" /\ ~HasFile(bucket, p)
    <3>1. buf[t] = Splice(<<>>, r.offset, r.data) /\ ~HasPrefix(bucket, p)
      BY <1>1, <2>3 DEF Ready
    <3> QED BY <1>3, <1>4, <1>5, <2>1, <2>3, <3>1, SameMaps, SamePaths, SameResults DEF Mem!Write, Mem!Operate
  <2>4. CASE r.op = "truncate"
    <3>1. buf[t] = Resize(AbsObjects[k], r.len) /\ k \in DOMAIN AbsObjects
      BY <1>1, <1>5, <2>4 DEF Ready, HasFile
    <3> QED BY <1>3, <1>4, <2>1, <2>4, <3>1, SameMaps, SamePaths, SameResults DEF Mem!Truncate, Mem!Operate
  <2> QED BY <1>7, <2>2, <2>3, <2>4
<1> QED BY <1>1, <1>6, <1>7

LEMMA DeleteImplements ==
    ASSUME MaxFaults = 0, ReadyInv, ReadyInv', NEW t \in Task, Operate(t), DeleteCall(t)
    PROVE  Mem!Operate(t) \/ UNCHANGED Mem!vars
<1> DEFINE r == req[t]
<1>1. /\ pc[t] = "delete" /\ ~Moving(t) /\ pc[t] # "idle" /\ Ready(t) /\ ~\E applied : Fails(t, applied)
      /\ r.op = "remove" /\ r \in Request
  BY CallsReady DEF DeleteCall, Calls, Loop, ReadyInv, Sound, OnCourse
<1>2. bucket' = Drop(bucket, Target(r)) /\ Answer(t, Done)
  BY <1>1 DEF DeleteCall
<1>3. Mem!Calling(t, "remove") /\ Mem!Apply(t, AbsObjects', Done) /\ MovesStay
  BY <1>1, <1>2, Answers
<1>4. Target(r) \in Key /\ Reaches(r, Target(r)) /\ Target(r) = [path |-> r.path, dir |-> r.kind = "dir"]
  BY <1>1, TargetKey, ReachedPaths DEF ReadyInv, Target
<1>5. AbsObjects' = Drop(AbsObjects, Target(r)) /\ Target(r) \in DOMAIN AbsObjects
  BY <1>1, <1>2, <1>3, <1>4, DropsThere, Reached DEF Ready
<1>6. r.kind = "dir" => \A x \in DOMAIN AbsObjects : ~Mem!Below(x, r.path)
  BY <1>1, ReadInTheBucket, SamePaths DEF Ready
<1> QED BY <1>3, <1>4, <1>5, <1>6, SameMaps, SameResults DEF Mem!Remove, Mem!Operate

(* A rename. *)
LEMMA BeginsImplements ==
    ASSUME MaxFaults = 0, ReadyInv, ReadyInv', NEW t \in Task, Operate(t), RenameHead(t) \/ WalkCall(t)
    PROVE  Mem!Operate(t) \/ UNCHANGED Mem!vars
<1> DEFINE r == req[t]
           p == r.path
           k == FileKey(p)
           below == {x \in DOMAIN bucket : Below(x, p)}
<1>1. /\ pc[t] \in {"head", "walk"} /\ bucket' = bucket /\ ~Moving(t) /\ pc[t] # "idle" /\ Ready(t) /\ Agrees(r)
      /\ r.op = "rename" /\ r \in Request
  BY CallsReady DEF RenameHead, WalkCall, Reads, Calls, Loop, ReadyInv, Sound, OnCourse
<1>2. /\ HasFile(AbsObjects, p) <=> HasFile(bucket, p)
      /\ \A x : x \in DOMAIN AbsObjects /\ StartsWith(x, p) <=> x \in DOMAIN bucket /\ StartsWith(x, p)
  BY <1>1, ReadInTheBucket
<1>3. CASE RenameHead(t) /\ k \notin DOMAIN bucket
  <2>1. Goto(t, "walk")
    BY <1>3 DEF RenameHead
  <2> QED BY <1>1, <2>1, GoesOn DEF Calls, Loop
<1>4. WalkCall(t) => {x \in DOMAIN AbsObjects : Mem!StartsWith(x, p)} = below /\ ~Mem!HasFile(AbsObjects, p)
  <2> SUFFICES ASSUME WalkCall(t) PROVE {x \in DOMAIN AbsObjects : Mem!StartsWith(x, p)} = below /\ ~Mem!HasFile(AbsObjects, p)
    OBVIOUS
  <2>1. pc[t] = "walk"
    BY DEF WalkCall, Reads
  <2>2. ~HasFile(bucket, p) /\ DirKey(p) \notin DOMAIN bucket
    BY <1>1, <2>1 DEF Ready, Agrees
  <2> QED BY <1>2, <2>2, SamePaths, SameMaps DEF Below
<1>5. CASE WalkCall(t) /\ below = {}
  <2>1. Answer(t, Err("NotFound"))
    BY <1>5 DEF WalkCall, Refuse
  <2>2. Mem!Calling(t, "rename") /\ Mem!Apply(t, AbsObjects, Err("NotFound"))
    BY <1>1, <2>1, Answers
  <2> QED BY <1>4, <1>5, <2>2, SameResults DEF Mem!Rename, Mem!Refuse, Mem!Operate
<1>6. ASSUME NEW ks, ks # {}, todo' = [todo EXCEPT ![t] = ks], Goto(t, "copy"),
             ks = IF Mem!HasFile(AbsObjects, p) THEN {Mem!FileKey(p)} ELSE {x \in DOMAIN AbsObjects : Mem!StartsWith(x, p)}
      PROVE  Mem!Operate(t)
  <2>1. pc'[t] = "copy" /\ todo'[t] = ks /\ reply' = reply /\ Moving(t)'
    BY <1>6, WentTo, NextMovingLoop DEF Goto, ReadyInv, Sound, TypeOK, Loop
  <2>2. Mem!Calling(t, "rename") /\ Mem!Apply(t, AbsObjects', Done)
    BY <1>1, <2>1, TakesEffect
  <2>3. AbsObjects' = Mem!Moved(AbsObjects, ks, p, r.to)
    BY <1>1, <2>1, OthersMoveOn, MovesAtOnce
  <2> QED BY <1>6, <2>2, <2>3, SameResults DEF Mem!Rename, Mem!Operate
<1>7. CASE WalkCall(t) /\ below # {}
  <2>1. todo' = [todo EXCEPT ![t] = below] /\ Goto(t, "copy")
    BY <1>7 DEF WalkCall
  <2> QED BY <1>4, <1>6, <1>7, <2>1
<1>8. CASE RenameHead(t) /\ k \in DOMAIN bucket
  <2>1. todo' = [todo EXCEPT ![t] = {k}] /\ Goto(t, "copy")
    BY <1>8 DEF RenameHead
  <2>2. Mem!HasFile(AbsObjects, p) /\ Mem!FileKey(p) = k
    BY <1>2, <1>8, SamePaths, SameMaps DEF HasFile
  <2> QED BY <1>6, <2>1, <2>2
<1> QED BY <1>3, <1>5, <1>7, <1>8

LEMMA LoopHidden ==
    ASSUME MaxFaults = 0, ReadyInv, ReadyInv', NEW t \in Task, Operate(t),
           CopyCall(t) \/ FetchCall(t) \/ PlaceCall(t) \/ UnlinkCall(t)
    PROVE  UNCHANGED Mem!vars
<1>1. /\ pc[t] \in Loop /\ Moving(t) /\ Ready(t) /\ Sound /\ ~\E applied : Fails(t, applied)
      /\ todo \in [Task -> SUBSET Key]
  BY MovingLoop, NothingFails DEF ReadyInv, CopyCall, FetchCall, PlaceCall, UnlinkCall, Loop, Sound, TypeOK
<1>2. Source(t) \in todo[t] /\ Source(t) \in DOMAIN bucket
  BY <1>1, MovedKeys DEF Ready, Loop
<1>3. ASSUME NEW call \in Loop, Goto(t, call), todo' = todo
      PROVE  MovesStay /\ (Moving(t)' <=> Moving(t)) /\ pc'[t] # "done" /\ reply' = reply
  <2>1. pc'[t] = call /\ reply' = reply
    BY <1>1, <1>3, WentTo DEF Goto
  <2>2. Moving(t)' /\ pc'[t] # "done"
    BY <1>3, <2>1, NextMovingLoop DEF Loop
  <2> QED BY <1>1, <1>3, <2>1, <2>2, OthersMoveOn
<1>4. CASE FetchCall(t)
  <2>1. Goto(t, "place") /\ bucket' = bucket /\ todo' = todo
    BY <1>1, <1>2, <1>4 DEF FetchCall
  <2> QED BY <1>3, <2>1, StaysAsItWas, IsHidden DEF Loop
<1>5. CASE CopyCall(t) \/ PlaceCall(t)
  <2>1. Goto(t, "unlink") /\ todo' = todo /\ \E v : bucket' = Put(bucket, Destination(t), v)
    BY <1>1, <1>2, <1>5 DEF CopyCall, PlaceCall, CopyOf, Copied, locals
  <2> QED BY <1>1, <1>3, <2>1, CopyShowsNothing, IsHidden DEF Loop
<1>6. CASE UnlinkCall(t)
  <2> DEFINE rest == todo[t] \ {Source(t)}
  <2>1. bucket' = Drop(bucket, Source(t)) /\ pc[t] = "unlink"
    BY <1>1, <1>6 DEF UnlinkCall
  <2>2. CASE rest = {}
    <3>1. Answer(t, Done)
      BY <1>1, <1>6, <2>2 DEF UnlinkCall
    <3>2. pc'[t] = "done" /\ reply'[t] = Done /\ ~Moving(t)'
      BY <1>1, <3>1 DEF Answer, Sound, TypeOK, Moving
    <3>3. AbsObjects' = AbsObjects
      BY <1>2, <2>1, <2>2, <3>2, OthersMoveOn, UnlinkShowsNothing
    <3> QED BY <1>1, <3>2, <3>3, IsHidden
  <2>3. CASE rest # {}
    <3>1. Goto(t, "copy") /\ todo'[t] = rest
      BY <1>1, <1>6, <2>3 DEF UnlinkCall
    <3>2. pc'[t] = "copy" /\ reply' = reply /\ Moving(t)'
      BY <1>1, <3>1, WentTo, NextMovingLoop DEF Goto, Loop
    <3>3. AbsObjects' = AbsObjects
      BY <1>2, <2>1, <3>1, <3>2, OthersMoveOn, UnlinkShowsNothing
    <3> QED BY <1>1, <3>2, <3>3, IsHidden
  <2> QED BY <2>2, <2>3
<1> QED BY <1>4, <1>5, <1>6

LEMMA OperateImplements ==
    ASSUME MaxFaults = 0, ReadyInv, ReadyInv', NEW t \in Task, Operate(t)
    PROVE  Mem!Operate(t) \/ UNCHANGED Mem!vars
<1>1. ~Repeat(t) /\ ~ReadFails(t)
  BY NothingFails DEF ReadyInv
<1> QED BY <1>1, StatImplements, ReadHeadImplements, RangeImplements, ListImplements, GetImplements,
          RemoveHeadImplements, PutImplements, DeleteImplements, BeginsImplements, LoopHidden DEF Operate

LEMMA StartImplements ==
    ASSUME ReadyInv, ReadyInv', KindsAgree, NEW t \in Task, NEW r \in Request, Start(t, r)
    PROVE  Mem!Invoke(t, r)
<1>1. /\ pc[t] = "idle" /\ bucket' = bucket /\ todo' = todo /\ reply' = reply /\ req' = [req EXCEPT ![t] = r]
      /\ pc' = [pc EXCEPT ![t] = FirstCall(r)]
  BY DEF Start, KindsAgree, Agrees, locals
<1>2. FirstCall(r) \in {"list", "get", "head"}
  BY DEF FirstCall
<1>3. /\ pc \in [Task -> {"idle", "done"} \cup Calls] /\ req \in [Task -> Request]
      /\ pc'[t] = FirstCall(r) /\ \A u \in Task \ {t} : pc'[u] = pc[u] /\ req'[u] = req[u]
  BY <1>1 DEF ReadyInv, Sound, TypeOK
<1>4. ~Moving(t) /\ ~Moving(t)'
  BY <1>1, <1>2, <1>3, MovingLoop, NextMovingLoop DEF Loop
<1>5. \A u \in Task \ {t} : Moving(u)' <=> Moving(u)
  BY <1>1, <1>3 DEF Moving
<1>6. AbsObjects' = AbsObjects
  BY <1>1, <1>3, <1>4, <1>5, StaysAsItWas DEF MovesStay
<1>7. AbsReply' = AbsReply
  BY <1>1, <1>4, <1>5 DEF AbsReply
<1>8. AbsPhase[t] = "idle" /\ AbsPhase' = [AbsPhase EXCEPT ![t] = "called"]
  BY <1>1, <1>2, <1>3, <1>4, <1>5 DEF AbsPhase
<1> QED BY <1>1, <1>6, <1>7, <1>8 DEF Mem!Invoke

LEMMA ReturnImplements ==
    ASSUME ReadyInv, ReadyInv', NEW t \in Task, Return(t)
    PROVE  Mem!Return(t)
<1>1. /\ pc[t] = "done" /\ bucket' = bucket /\ pc' = [pc EXCEPT ![t] = "idle"] /\ req' = [req EXCEPT ![t] = NoRequest]
      /\ reply' = [reply EXCEPT ![t] = NoReply] /\ todo' = [todo EXCEPT ![t] = {}]
  BY DEF Return
<1>2. /\ pc'[t] = "idle" /\ reply'[t] = NoReply
      /\ \A u \in Task \ {t} : pc'[u] = pc[u] /\ req'[u] = req[u] /\ reply'[u] = reply[u] /\ todo'[u] = todo[u]
  BY <1>1 DEF ReadyInv, Sound, TypeOK
<1>3. ~Moving(t) /\ ~Moving(t)'
  BY <1>1, <1>2, MovingLoop, NextMovingLoop DEF Loop
<1>4. \A u \in Task \ {t} : Moving(u)' <=> Moving(u)
  BY <1>2 DEF Moving
<1>5. AbsObjects' = AbsObjects
  BY <1>1, <1>2, <1>3, <1>4, StaysAsItWas DEF MovesStay
<1>6. AbsReply' = [AbsReply EXCEPT ![t] = NoReply]
  BY <1>2, <1>3, <1>4 DEF AbsReply
<1>7. AbsPhase[t] = "applied" /\ AbsPhase' = [AbsPhase EXCEPT ![t] = "idle"]
  BY <1>1, <1>2, <1>3, <1>4 DEF AbsPhase
<1> QED BY <1>1, <1>5, <1>6, <1>7, SameResults DEF Mem!Return

LEMMA InitImplements == Init => Mem!Init
<1> SUFFICES ASSUME Init PROVE Mem!Init
  OBVIOUS
<1>1. \A t \in Task : ~Moving(t)
  BY DEF Init, Moving
<1>2. Pending = {}
  BY <1>1 DEF Pending
<1>3. AbsObjects = bucket
  <2>1. bucket = [x \in DOMAIN bucket |-> bucket[x]]
    BY SeedAssumption DEF Init, IsStore
  <2>2. AbsObjects = [x \in DOMAIN bucket |-> bucket[x]]
    BY <1>2 DEF AbsObjects
  <2> QED BY <2>1, <2>2
<1>4. AbsPhase = [t \in Task |-> "idle"] /\ AbsReply = [t \in Task |-> NoReply]
  BY <1>1 DEF Init, AbsPhase, AbsReply
<1> QED BY <1>3, <1>4, SameResults DEF Init, Mem!Init

LEMMA StepImplements ==
    ASSUME Serial, MaxFaults = 0
    PROVE  ReadyInv /\ [KindsAgree]_vars /\ [Next]_vars => ReadyInv' /\ [Mem!Next]_(Mem!vars)
<1> SUFFICES ASSUME ReadyInv, [KindsAgree]_vars, [Next]_vars PROVE ReadyInv' /\ [Mem!Next]_(Mem!vars)
  OBVIOUS
<1>1. CASE UNCHANGED vars
  <2>1. ReadyInv'
    BY <1>1, UnchangedReady
  <2>2. /\ bucket' = bucket /\ pc' = pc /\ req' = req /\ reply' = reply /\ todo' = todo
    BY <1>1 DEF vars, locals
  <2>3. MovesStay
    BY <2>2 DEF MovesStay, Moving
  <2>4. AbsObjects' = AbsObjects
    BY <2>1, <2>2, <2>3, StaysAsItWas
  <2>5. AbsPhase' = AbsPhase /\ AbsReply' = AbsReply
    BY <2>2 DEF AbsPhase, AbsReply, Moving
  <2> QED BY <2>1, <2>2, <2>4, <2>5 DEF Mem!vars
<1>2. CASE KindsAgree /\ Next
  <2>1. ReadyInv'
    BY <1>2, StepReady
  <2>2. ASSUME NEW t \in Task, Operate(t) PROVE Mem!Operate(t) \/ UNCHANGED Mem!vars
    BY <2>1, <2>2, OperateImplements
  <2>3. ASSUME NEW t \in Task, NEW r \in Request, Start(t, r) PROVE Mem!Invoke(t, r)
    BY <1>2, <2>1, <2>3, StartImplements
  <2>4. ASSUME NEW t \in Task, Return(t) PROVE Mem!Return(t)
    BY <2>1, <2>4, ReturnImplements
  <2> QED BY <1>2, <2>1, <2>2, <2>3, <2>4 DEF Next, Mem!Next
<1> QED BY <1>1, <1>2

(* ImplementsMem for every value of the constants, when no operator call   *)
(* fails, callers keep related paths apart, and ask what both backends     *)
(* answer alike.                                                           *)
THEOREM Refines ==
    ASSUME Serial, MaxFaults = 0, SeedMarkersEmpty
    PROVE  Spec /\ [][KindsAgree]_vars => ImplementsMem
<1>1. Init => ReadyInv /\ Mem!Init
  BY InitReady, InitImplements
<1>2. ReadyInv /\ [KindsAgree]_vars /\ [Next]_vars => ReadyInv' /\ [Mem!Next]_(Mem!vars)
  BY StepImplements
<1> QED BY <1>1, <1>2, PTL DEF Spec, ImplementsMem, Mem!Spec
=============================================================================
