------------------------- MODULE BackendRefinesMem --------------------------
(***************************************************************************)
(* The OpenDAL backend implements the in-memory backend, each of whose     *)
(* operations is one step, as long as callers keep related paths apart and *)
(* no operator call fails.  Every operation but rename takes effect in its *)
(* last operator call.  A rename takes effect when it knows the keys it    *)
(* moves: from then on the abstract store has all of them moved.           *)
(***************************************************************************)
EXTENDS OpenDalBackend

Moving(t) == todo[t] # {} /\ pc[t] # "done"

(* The moves under way: where each key still to be moved will be. *)
Pending ==
    UNION {{[from |-> k, to |-> Rekey(k, req[t].path, req[t].to)] : k \in todo[t]} :
           t \in {t \in Task : Moving(t)}}

AbsObjects ==
    [k \in (DOMAIN bucket \ {m.from : m \in Pending}) \cup {m.to : m \in Pending} |->
        IF \E m \in Pending : m.to = k
        THEN bucket[(CHOOSE m \in Pending : m.to = k).from]
        ELSE bucket[k]]

AbsPhase ==
    [t \in Task |-> IF pc[t] = "idle" THEN "idle"
                    ELSE IF pc[t] = "done" \/ Moving(t) THEN "applied" ELSE "called"]

AbsReply == [t \in Task |-> IF Moving(t) THEN Done ELSE reply[t]]

Mem == INSTANCE MemStore WITH objects <- AbsObjects, phase <- AbsPhase, reply <- AbsReply

(* Each call of the backend, interleaved with calls on other paths, has    *)
(* the effect and the result of one step of the in-memory backend, the     *)
(* stand-in the tests of the volume rely on.                               *)
ImplementsMem == Mem!Spec
=============================================================================
