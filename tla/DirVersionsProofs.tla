-------------------------- MODULE DirVersionsProofs -------------------------
(***************************************************************************)
(* What DirVersions promises of cached listings, for any directories,      *)
(* entries, threads and changes, and any last value of the generation.     *)
(***************************************************************************)
EXTENDS DirVersions, TLAPS

-----------------------------------------------------------------------------
LEMMA InitTyping == Init => TypeOK
<1> SUFFICES ASSUME Init PROVE TypeOK
  OBVIOUS
<1>1. TypeMaps
  BY BoundAssumption, EntryAssumption DEF Init, TypeMaps, Signal
<1>2. TypeHandlers
  BY DEF Init, TypeHandlers, NoJob, Mutation
<1>3. TypeListings
  BY DEF Init, TypeListings
<1> QED BY <1>1, <1>2, <1>3 DEF TypeOK

(* A handler that begins or replies keeps the types of its own state.      *)
LEMMA BeginTyping ==
    ASSUME TypeOK, NEW t \in Thread, NEW m \in Change, Begin(t, m) PROVE TypeOK'
<1>1. m \in Mutation
  BY ChangeAssumption
<1>2. TypeMaps'
  BY BoundAssumption DEF TypeOK, TypeMaps, Begin, backend
<1>3. TypeHandlers'
  BY <1>1 DEF TypeOK, TypeHandlers, Begin
<1>4. TypeListings'
  BY DEF TypeOK, TypeListings, TypeHandlers, Begin
<1> QED BY <1>2, <1>3, <1>4 DEF TypeOK

LEMMA LeaveTyping ==
    ASSUME TypeOK, NEW t \in Thread, Leave(t), faults' \in 0..MaxFaults PROVE TypeOK'
<1>1. TypeMaps'
  BY DEF TypeOK, TypeMaps, Leave, backend
<1>2. NoJob \in Mutation
  BY DEF NoJob, Mutation
<1>3. TypeHandlers'
  BY <1>2 DEF TypeOK, TypeHandlers, Leave
<1>4. TypeListings'
  BY DEF TypeOK, TypeListings, TypeHandlers, Leave
<1> QED BY <1>1, <1>3, <1>4 DEF TypeOK

(* What an operator call leaves there, and which signals it concerns.      *)
LEMMA CallTyping ==
    ASSUME NEW c \in OperatorCall, entries \subseteq Entry
    PROVE  /\ c.entry \in Entry /\ c.entry[1] \in Dir
           /\ After(c) \subseteq Entry
           /\ Concerned(c) \subseteq Signal
<1>1. c.entry \in Entry /\ c.entry[1] \in Dir
  BY EntryAssumption DEF OperatorCall
<1>2. After(c) \subseteq Entry
  BY <1>1 DEF After
<1>3. Concerned(c) \subseteq Signal
  BY DEF Concerned, Signal
<1> QED BY <1>1, <1>2, <1>3

LEMMA EditTyping == ASSUME TypeOK, NEW t \in Thread, Edit(t) PROVE TypeOK'
<1>1. job[t] \in Mutation /\ job[t].calls # <<>>
  BY DEF Edit, TypeOK, TypeHandlers
<1>2. PICK c \in OperatorCall : c = Head(job[t].calls)
  BY <1>1 DEF Mutation
<1>3. [job[t] EXCEPT !.calls = Tail(@)] \in Mutation
  <2>1. Tail(job[t].calls) \in Seq(OperatorCall)
    BY <1>1 DEF Mutation
  <2> QED BY <1>1, <2>1 DEF Mutation
<1>4. /\ entries' = After(c)
      /\ edition' = [s \in Signal |->
             IF s \in Concerned(c) THEN [edition[s] EXCEPT ![c.entry[1]] = @ + 1] ELSE edition[s]]
      /\ owed' = [owed EXCEPT ![t] = @ \cup (Concerned(c) \X {c.entry[1]})]
      /\ job' = [job EXCEPT ![t] = [job[t] EXCEPT !.calls = Tail(@)]]
  BY <1>2 DEF Edit, TypeOK, TypeHandlers
<1>5. PICK d \in Dir : d = c.entry[1]
  BY CallTyping DEF TypeOK, TypeMaps
<1>6. PICK con \in SUBSET Signal : con = Concerned(c)
  BY CallTyping DEF TypeOK, TypeMaps
<1>7. entries' \subseteq Entry
  BY <1>4, CallTyping DEF TypeOK, TypeMaps
<1>8. edition' \in [Signal -> [Dir -> Nat]]
  BY <1>4, <1>5, <1>6 DEF TypeOK, TypeMaps
<1>9. TypeMaps'
  BY <1>7, <1>8 DEF Edit, TypeOK, TypeMaps
<1>10. owed' \in [Thread -> SUBSET (Signal \X Dir)]
  BY <1>4, <1>5, <1>6 DEF TypeOK, TypeHandlers
<1>11. TypeHandlers'
  BY <1>3, <1>4, <1>10 DEF Edit, TypeOK, TypeHandlers
<1>12. TypeListings'
  BY DEF Edit, TypeOK, TypeListings
<1> QED BY <1>9, <1>11, <1>12 DEF TypeOK

LEMMA TouchTyping == ASSUME TypeOK, NEW t \in Thread, Touch(t) PROVE TypeOK'
<1> DEFINE s == Head(job[t].touches)[1]
           d == Head(job[t].touches)[2]
<1>1. job[t] \in Mutation /\ job[t].touches # <<>>
  BY DEF Touch, TypeOK, TypeHandlers
<1>2. s \in Signal /\ d \in Dir /\ [job[t] EXCEPT !.touches = Tail(@)] \in Mutation
  <2>1. /\ Tail(job[t].touches) \in Seq(Signal \X Dir)
        /\ Head(job[t].touches) \in Signal \X Dir
    BY <1>1 DEF Mutation
  <2> QED BY <1>1, <2>1 DEF Mutation
<1>3. /\ stamp' = [stamp EXCEPT ![s][d] = Moved(s, @)]
      /\ owed' = [owed EXCEPT ![t] = @ \ {<<s, d>>}]
      /\ missed' = missed \ {<<s, d>>}
      /\ job' = [job EXCEPT ![t] = [job[t] EXCEPT !.touches = Tail(@)]]
  BY DEF Touch, TypeOK, TypeHandlers
<1> HIDE DEF s, d
<1>4. /\ stamp[s][d] \in Nat
      /\ s = "version" => stamp[s][d] <= MaxVersion
  BY <1>2 DEF TypeOK, TypeMaps
<1>5. /\ Moved(s, stamp[s][d]) \in Nat
      /\ s = "version" => Moved(s, stamp[s][d]) <= MaxVersion
  BY <1>4, BoundAssumption DEF Moved
<1>6. stamp' \in [Signal -> [Dir -> Nat]]
  BY <1>2, <1>3, <1>5 DEF TypeOK, TypeMaps
<1>7. ASSUME NEW x \in Dir PROVE stamp'["version"][x] <= MaxVersion
  BY <1>2, <1>3, <1>5 DEF TypeOK, TypeMaps, Signal
<1>8. TypeMaps'
  BY <1>6, <1>7 DEF Touch, backend, TypeOK, TypeMaps
<1>9. TypeHandlers'
  BY <1>2, <1>3 DEF Touch, TypeOK, TypeHandlers
<1>10. TypeListings'
  BY DEF Touch, TypeOK, TypeListings
<1> QED BY <1>8, <1>9, <1>10 DEF TypeOK

(* The steps of a listing: what they read and leave alone.                 *)
ListingStep(t) ==
    \/ \E d \in Dir : GetAttributes(t, d)
    \/ ReadVerifier(t) \/ List(t) \/ FailList(t) \/ NextPage(t) \/ Reply(t)

Frame(t) ==
    /\ \E to \in {"idle", "verify", "list", "pack"} : pc' = [pc EXCEPT ![t] = to]
    /\ UNCHANGED <<entries, edition, stamp, job, owed, missed, changes, faults>>
    /\ pc[t] \notin {"edit", "touch"}

LEMMA ListingFrame ==
    ASSUME NEW t \in Thread, ListingStep(t)
    PROVE  Frame(t)
<1>1. ASSUME NEW d \in Dir, GetAttributes(t, d) PROVE Frame(t)
  BY <1>1 DEF GetAttributes, Frame, Step, backend, mutator
<1>2. CASE ReadVerifier(t)
  BY <1>2 DEF ReadVerifier, Frame, Step, backend, mutator
<1>3. CASE List(t)
  BY <1>3 DEF List, Frame, Step, backend, mutator
<1>4. CASE FailList(t)
  BY <1>4 DEF FailList, Frame, Step, backend, mutator
<1>5. CASE NextPage(t)
  BY <1>5 DEF NextPage, Frame, Step, backend, mutator
<1>6. CASE Reply(t)
  BY <1>6 DEF Reply, Frame, Step, backend, mutator
<1> QED BY <1>1, <1>2, <1>3, <1>4, <1>5, <1>6 DEF ListingStep

LEMMA ListingTyping == ASSUME TypeOK, NEW t \in Thread, ListingStep(t) PROVE TypeOK'
<1>1. TypeMaps' /\ TypeHandlers'
  BY ListingFrame DEF Frame, TypeOK, TypeMaps, TypeHandlers
<1>2. ASSUME NEW d \in Dir, GetAttributes(t, d) PROVE TypeListings'
  <2>1. [stamp |-> [Zero EXCEPT !["mtime"] = stamp["mtime"][d]], edition |-> Zero] \in Page
    BY DEF TypeOK, TypeMaps, Page, Zero, Signal
  <2> QED BY <1>2, <2>1 DEF GetAttributes, Step, TypeOK, TypeListings, TypeHandlers, Listing
<1>3. ASSUME ReadVerifier(t) PROVE TypeListings'
  <2>1. listing[t] \in Listing
    BY <1>3 DEF ReadVerifier, Step, TypeOK, TypeListings
  <2>2. [listing[t] EXCEPT !.page.stamp["version"] = stamp["version"][listing[t].dir]] \in Listing
    BY <2>1 DEF TypeOK, TypeMaps, Listing, Page, Signal
  <2> QED BY <1>3, <2>2 DEF ReadVerifier, Step, TypeOK, TypeListings, TypeHandlers
<1>4. ASSUME List(t) PROVE TypeListings'
  <2>1. listing[t] \in Listing
    BY <1>4 DEF List, Step, TypeOK, TypeListings
  <2>2. [s \in Signal |-> edition[s][listing[t].dir]] \in [Signal -> Nat]
    BY <2>1 DEF TypeOK, TypeMaps, Listing
  <2>3. [listing[t] EXCEPT !.page.edition = [s \in Signal |-> edition[s][listing[t].dir]]]
            \in Listing
    BY <2>1, <2>2 DEF Listing, Page
  <2> QED BY <1>4, <2>3 DEF List, Step, TypeOK, TypeListings, TypeHandlers
<1>5. ASSUME FailList(t) PROVE TypeListings'
  BY <1>5 DEF FailList, Step, TypeOK, TypeListings, TypeHandlers
<1>6. ASSUME NextPage(t) PROVE TypeListings'
  <2>1. listing[t] \in Listing
    BY <1>6 DEF NextPage, Step, TypeOK, TypeListings
  <2>2. [listing[t] EXCEPT !.pages = @ \cup {listing[t].page}] \in Listing
    BY <2>1 DEF Listing
  <2> QED BY <1>6, <2>2 DEF NextPage, Step, TypeOK, TypeListings, TypeHandlers
<1>7. ASSUME Reply(t) PROVE TypeListings'
  <2>1. listing[t] \in Listing
    BY <1>7 DEF Reply, Step, TypeOK, TypeListings
  <2>2. listing[t].pages \cup {listing[t].page} \in SUBSET Page
    BY <2>1 DEF Listing
  <2> QED BY <1>7, <2>2 DEF Reply, Step, TypeOK, TypeListings, TypeHandlers
<1> QED BY <1>1, <1>2, <1>3, <1>4, <1>5, <1>6, <1>7 DEF TypeOK, ListingStep

(* The maps, the handlers' states and the kernel's listings keep their     *)
(* types; the generation never passes its last value.                      *)
THEOREM Typing == Spec => []TypeOK
<1>1. TypeOK /\ [Next]_vars => TypeOK'
  <2> SUFFICES ASSUME TypeOK, [Next]_vars PROVE TypeOK'
    OBVIOUS
  <2>1. ASSUME NEW t \in Thread, Succeed(t) PROVE TypeOK'
    BY <2>1 DEF Succeed, backend, mutator, TypeOK, TypeMaps, TypeHandlers, TypeListings
  <2>2. ASSUME NEW t \in Thread, FailChange(t) PROVE TypeOK'
    BY <2>2, LeaveTyping, BoundAssumption DEF FailChange, TypeOK, TypeMaps
  <2>3. ASSUME NEW t \in Thread, RefuseChange(t) \/ Finish(t) PROVE TypeOK'
    BY <2>3, LeaveTyping DEF RefuseChange, Finish, TypeOK, TypeMaps
  <2>4. CASE UNCHANGED vars
    BY <2>4 DEF vars, backend, mutator, TypeOK, TypeMaps, TypeHandlers, TypeListings
  <2> QED
    BY <2>1, <2>2, <2>3, <2>4, BeginTyping, EditTyping, TouchTyping, ListingTyping
    DEF Next, Handle, ListingStep
<1> QED
  BY <1>1, InitTyping, PTL DEF Spec

-----------------------------------------------------------------------------
(* The signals of a page were read no later than they are now.             *)
Past(d, page) == \A s \in Signal : page.stamp[s] <= stamp[s][d]

(* Why a page may differ from what there is to list.                       *)
Excused(d, page, s) == page.stamp[s] < stamp[s][d] \/ Unannounced(s, d) \/ Owed(s, d)

Current(d, page) == \A s \in Signal : page.edition[s] = edition[s][d] \/ Excused(d, page, s)

Sound(d, page) == Past(d, page) /\ Current(d, page)

InHand(t) ==
    /\ pc[t] \in {"verify", "list", "pack"} =>
           /\ Past(listing[t].dir, listing[t].page)
           /\ \A page \in listing[t].pages : Sound(listing[t].dir, page)
    /\ pc[t] = "pack" => Sound(listing[t].dir, listing[t].page)

Held(d) == \A page \in cached[d] : Sound(d, page)

(* The pages of a listing that is made, and of one that the kernel keeps,  *)
(* were current when their signals were read, and whatever has changed     *)
(* them since excuses them.                                                *)
ListingInv == (\A t \in Thread : InHand(t)) /\ (\A d \in Dir : Held(d))

(* What a step of a mutating handler does to a page made before it.        *)
Kept(d, page) == (Past(d, page) => Past(d, page)') /\ (Sound(d, page) => Sound(d, page)')

LEMMA LeaveKeeps ==
    ASSUME NEW t \in Thread, Leave(t), TypeOK, NEW d \in Dir, NEW page \in Page
    PROVE  Kept(d, page)
<1>1. stamp' = stamp /\ edition' = edition
  BY DEF Leave, backend
<1>2. ASSUME NEW s \in Signal, Owed(s, d), ~Owed(s, d)' PROVE <<s, d>> \in missed'
  <2>1. PICK u \in Thread : <<s, d>> \in owed[u]
    BY <1>2 DEF Owed
  <2>2. <<s, d>> \notin owed'[u]
    BY <1>2, <2>1 DEF Owed
  <2>3. u = t
    BY <2>1, <2>2 DEF Leave, TypeOK, TypeHandlers
  <2> QED BY <2>1, <2>3 DEF Leave
<1>3. missed \subseteq missed'
  BY DEF Leave
<1> QED BY <1>1, <1>2, <1>3 DEF Kept, Sound, Past, Current, Excused, Unannounced

LEMMA EditKeeps ==
    ASSUME NEW t \in Thread, Edit(t), TypeOK, NEW d \in Dir, NEW page \in Page
    PROVE  Kept(d, page)
<1>1. stamp' = stamp /\ missed' = missed
  BY DEF Edit
<1>2. ASSUME NEW s \in Signal, Owed(s, d) PROVE Owed(s, d)'
  BY <1>2 DEF Owed, Edit, TypeOK, TypeHandlers
<1>3. ASSUME NEW s \in Signal, edition'[s][d] # edition[s][d] PROVE Owed(s, d)'
  <2>1. PICK c : c = Head(job[t].calls)
    OBVIOUS
  <2>2. PICK con : con = Concerned(c)
    OBVIOUS
  <2>3. /\ edition' = [r \in Signal |->
               IF r \in con THEN [edition[r] EXCEPT ![c.entry[1]] = @ + 1] ELSE edition[r]]
        /\ owed' = [owed EXCEPT ![t] = @ \cup (con \X {c.entry[1]})]
    BY <2>1, <2>2 DEF Edit
  <2>4. s \in con /\ d = c.entry[1]
    BY <1>3, <2>3 DEF TypeOK, TypeMaps
  <2>5. <<s, d>> \in owed'[t]
    BY <2>3, <2>4 DEF TypeOK, TypeHandlers
  <2> QED BY <2>5 DEF Owed
<1> QED BY <1>1, <1>2, <1>3 DEF Kept, Sound, Past, Current, Excused, Unannounced

LEMMA TouchKeeps ==
    ASSUME NEW t \in Thread, Touch(t), TypeOK, NEW d \in Dir, NEW page \in Page
    PROVE  Kept(d, page)
<1> DEFINE x == Head(job[t].touches)[1]
           e == Head(job[t].touches)[2]
<1>1. x \in Signal /\ e \in Dir
  BY DEF Touch, TypeOK, TypeHandlers, Mutation
<1>2. /\ stamp' = [stamp EXCEPT ![x][e] = Moved(x, @)]
      /\ owed' = [owed EXCEPT ![t] = @ \ {<<x, e>>}]
      /\ missed' = missed \ {<<x, e>>}
      /\ edition' = edition
  BY DEF Touch, backend
<1> HIDE DEF x, e
<1>3. ASSUME NEW s \in Signal
      PROVE  /\ page.stamp[s] \in Nat /\ stamp[s][d] \in Nat
             /\ stamp'[s][d] = IF s = x /\ d = e THEN Moved(s, stamp[s][d]) ELSE stamp[s][d]
  BY <1>1, <1>2 DEF TypeOK, TypeMaps, Page
<1>4. Past(d, page) => Past(d, page)'
  <2> SUFFICES ASSUME Past(d, page), NEW s \in Signal PROVE page.stamp[s] <= stamp'[s][d]
    BY DEF Past
  <2> QED BY <1>3 DEF Past, Moved
<1>5. ASSUME Past(d, page), NEW s \in Signal, Excused(d, page, s) PROVE Excused(d, page, s)'
  <2>1. CASE s = x /\ d = e
    <3>1. page.stamp[s] <= stamp[s][d]
      BY <1>5 DEF Past
    <3>2. stamp'[s][d] = Moved(s, stamp[s][d])
      BY <1>3, <2>1
    <3> QED BY <1>3, <3>1, <3>2 DEF Excused, Unannounced, Moved
  <2>2. CASE ~(s = x /\ d = e)
    <3>1. Owed(s, d) => Owed(s, d)'
      BY <1>2, <2>2 DEF Owed, TypeOK, TypeHandlers
    <3>2. Unannounced(s, d) => Unannounced(s, d)'
      BY <1>2, <1>3, <2>2 DEF Unannounced
    <3> QED BY <1>3, <1>5, <2>2, <3>1, <3>2 DEF Excused
  <2> QED BY <2>1, <2>2
<1> QED BY <1>2, <1>4, <1>5 DEF Kept, Sound, Current

(* Any other step leaves alone what a page's standing depends on.          *)
LEMMA QuietKeeps ==
    ASSUME UNCHANGED <<edition, stamp, owed, missed>>, NEW d, NEW page
    PROVE  Past(d, page)' = Past(d, page) /\ Sound(d, page)' = Sound(d, page)
BY DEF Past, Sound, Current, Excused, Unannounced, Owed

(* A mutating handler's step keeps the invariant: the listings themselves  *)
(* are as before.                                                          *)
LEMMA MutatorKeeps ==
    ASSUME TypeOK, ListingInv, NEW t \in Thread,
           \/ \E m \in Change : Begin(t, m)
           \/ Edit(t) \/ Succeed(t) \/ RefuseChange(t) \/ FailChange(t) \/ Touch(t) \/ Finish(t)
    PROVE  ListingInv'
<1>1. ASSUME NEW d \in Dir, NEW page \in Page PROVE Kept(d, page)
  <2>1. ASSUME NEW m \in Change, Begin(t, m) PROVE UNCHANGED <<edition, stamp, owed, missed>>
    BY <2>1 DEF Begin, backend
  <2>2. Succeed(t) => UNCHANGED <<edition, stamp, owed, missed>>
    BY DEF Succeed, backend, mutator
  <2>3. UNCHANGED <<edition, stamp, owed, missed>> => Kept(d, page)
    BY QuietKeeps DEF Kept
  <2> QED BY <2>1, <2>2, <2>3, LeaveKeeps, EditKeeps, TouchKeeps
    DEF RefuseChange, FailChange, Finish
<1>2. /\ UNCHANGED <<listing, cached>>
      /\ \E to \in {"idle", "edit", "touch"} : pc' = [pc EXCEPT ![t] = to] \/ pc' = pc
  <2>1. ASSUME NEW m \in Change, Begin(t, m) PROVE <1>2!:
    BY <2>1 DEF Begin
  <2>2. CASE Edit(t)
    BY <2>2 DEF Edit
  <2>3. CASE Succeed(t)
    BY <2>3 DEF Succeed
  <2>4. CASE RefuseChange(t) \/ FailChange(t) \/ Finish(t)
    BY <2>4 DEF RefuseChange, FailChange, Finish, Leave
  <2>5. CASE Touch(t)
    BY <2>5 DEF Touch
  <2> QED BY <2>1, <2>2, <2>3, <2>4, <2>5
<1>3. ASSUME NEW u \in Thread PROVE InHand(u)'
  <2>1. CASE pc'[u] \in {"verify", "list", "pack"}
    <3>1. pc'[u] = pc[u] /\ listing'[u] = listing[u] /\ listing[u] \in Listing
      BY <1>2, <2>1 DEF TypeOK, TypeHandlers, TypeListings
    <3>2. PICK l \in Listing : l = listing[u]
      BY <3>1
    <3>3. l.dir \in Dir /\ l.page \in Page /\ l.pages \subseteq Page
      BY DEF Listing
    <3>4. /\ Past(l.dir, l.page) => Past(l.dir, l.page)'
          /\ Sound(l.dir, l.page) => Sound(l.dir, l.page)'
          /\ \A page \in l.pages : Sound(l.dir, page) => Sound(l.dir, page)'
      BY <1>1, <3>3 DEF Kept
    <3>5. InHand(u)
      BY DEF ListingInv
    <3> QED BY <2>1, <3>1, <3>2, <3>4, <3>5 DEF InHand
  <2> QED BY <2>1 DEF InHand
<1>4. ASSUME NEW d \in Dir PROVE Held(d)'
  <2>1. cached'[d] = cached[d] /\ cached[d] \subseteq Page
    BY <1>2 DEF TypeOK, TypeListings
  <2> QED BY <1>1, <2>1 DEF Held, Kept, ListingInv
<1> QED BY <1>3, <1>4 DEF ListingInv

(* A step of a listing changes that listing alone; its signals were read   *)
(* in the past, and it is current when the list is made.                   *)
LEMMA ListingKeeps ==
    ASSUME TypeOK, TypeOK', ListingInv, NEW t \in Thread, ListingStep(t) PROVE ListingInv'
<1>1. \A d, page : Past(d, page)' = Past(d, page) /\ Sound(d, page)' = Sound(d, page)
  BY ListingFrame, QuietKeeps DEF Frame
<1>2. \A u \in Thread \ {t} : listing'[u] = listing[u] /\ pc'[u] = pc[u]
  <2>1. \A u \in Thread \ {t} : listing'[u] = listing[u]
    BY DEF ListingStep, GetAttributes, ReadVerifier, List, FailList, NextPage, Reply, TypeOK,
           TypeListings
  <2> QED BY <2>1, ListingFrame DEF Frame, TypeOK, TypeHandlers
<1>3. ASSUME NEW u \in Thread \ {t} PROVE InHand(u)'
  BY <1>1, <1>2 DEF InHand, ListingInv
<1>4. ASSUME NEW d \in Dir, cached'[d] = cached[d] PROVE Held(d)'
  BY <1>1, <1>4 DEF Held, ListingInv
<1>5. InHand(t)
  BY DEF ListingInv
<1>6. ASSUME NEW d \in Dir, GetAttributes(t, d) PROVE ListingInv'
  <2>1. PICK page : page = [stamp |-> [Zero EXCEPT !["mtime"] = stamp["mtime"][d]],
                            edition |-> Zero]
    OBVIOUS
  <2>2. /\ listing'[t] = [dir |-> d, pages |-> {}, page |-> page]
        /\ pc'[t] = "verify" /\ cached' = cached
    BY <1>6, <2>1 DEF GetAttributes, Step, TypeOK, TypeListings, TypeHandlers
  <2>3. Past(d, page)
    BY <2>1 DEF Past, Zero, Signal, TypeOK, TypeMaps
  <2>4. InHand(t)'
    BY <1>1, <2>2, <2>3 DEF InHand
  <2> QED BY <1>3, <1>4, <2>2, <2>4 DEF ListingInv
<1>7. ASSUME ReadVerifier(t) PROVE ListingInv'
  <2>1. PICK l \in Listing : l = listing[t]
    BY <1>7 DEF ReadVerifier, Step, TypeOK, TypeListings
  <2>2. PICK k : k = [l EXCEPT !.page.stamp["version"] = stamp["version"][l.dir]]
    OBVIOUS
  <2>3. listing'[t] = k /\ pc'[t] = "list" /\ cached' = cached /\ pc[t] = "verify"
    BY <1>7, <2>1, <2>2 DEF ReadVerifier, Step, TypeOK, TypeListings, TypeHandlers
  <2>4. k.dir = l.dir /\ k.pages = l.pages
    BY <2>2 DEF Listing
  <2>5. Past(l.dir, l.page) /\ \A page \in l.pages : Sound(l.dir, page)
    BY <1>5, <2>1, <2>3 DEF InHand
  <2>6. Past(k.dir, k.page)
    BY <2>2, <2>5 DEF Past, Listing, Page, Signal, TypeOK, TypeMaps
  <2>7. InHand(t)'
    BY <1>1, <2>3, <2>4, <2>5, <2>6 DEF InHand
  <2> QED BY <1>3, <1>4, <2>3, <2>7 DEF ListingInv
<1>8. ASSUME List(t) PROVE ListingInv'
  <2>1. PICK l \in Listing : l = listing[t]
    BY <1>8 DEF List, Step, TypeOK, TypeListings
  <2>2. PICK k : k = [l EXCEPT !.page.edition = [s \in Signal |-> edition[s][l.dir]]]
    OBVIOUS
  <2>3. listing'[t] = k /\ pc'[t] = "pack" /\ cached' = cached /\ pc[t] = "list"
    BY <1>8, <2>1, <2>2 DEF List, Step, TypeOK, TypeListings, TypeHandlers
  <2>4. /\ k.dir = l.dir /\ k.pages = l.pages /\ k.page.stamp = l.page.stamp
        /\ \A s \in Signal : k.page.edition[s] = edition[s][k.dir]
    BY <2>2 DEF Listing, Page
  <2>5. Past(l.dir, l.page) /\ \A page \in l.pages : Sound(l.dir, page)
    BY <1>5, <2>1, <2>3 DEF InHand
  <2>6. Sound(k.dir, k.page)
    BY <2>4, <2>5 DEF Sound, Past, Current
  <2>7. Past(k.dir, k.page)
    BY <2>6 DEF Sound
  <2>8. InHand(t)'
    BY <1>1, <2>3, <2>4, <2>5, <2>6, <2>7 DEF InHand
  <2> QED BY <1>3, <1>4, <2>3, <2>8 DEF ListingInv
<1>9. ASSUME FailList(t) PROVE ListingInv'
  <2>1. pc'[t] = "idle" /\ cached' = cached
    BY <1>9 DEF FailList, Step, TypeOK, TypeHandlers
  <2>2. InHand(t)'
    BY <2>1 DEF InHand
  <2> QED BY <1>3, <1>4, <2>1, <2>2 DEF ListingInv
<1>10. ASSUME NextPage(t) PROVE ListingInv'
  <2>1. PICK l \in Listing : l = listing[t]
    BY <1>10 DEF NextPage, Step, TypeOK, TypeListings
  <2>2. PICK k : k = [l EXCEPT !.pages = @ \cup {l.page}]
    OBVIOUS
  <2>3. listing'[t] = k /\ pc'[t] = "verify" /\ cached' = cached /\ pc[t] = "pack"
    BY <1>10, <2>1, <2>2 DEF NextPage, Step, TypeOK, TypeListings, TypeHandlers
  <2>4. k.dir = l.dir /\ k.pages = l.pages \cup {l.page} /\ k.page = l.page
    BY <2>2 DEF Listing
  <2>5. /\ Past(l.dir, l.page) /\ Sound(l.dir, l.page)
        /\ \A page \in l.pages : Sound(l.dir, page)
    BY <1>5, <2>1, <2>3 DEF InHand
  <2>6. InHand(t)'
    BY <1>1, <2>3, <2>4, <2>5 DEF InHand
  <2> QED BY <1>3, <1>4, <2>3, <2>6 DEF ListingInv
<1>11. ASSUME Reply(t) PROVE ListingInv'
  <2>1. PICK l \in Listing : l = listing[t]
    BY <1>11 DEF Reply, Step, TypeOK, TypeListings
  <2>2. /\ pc'[t] = "idle" /\ pc[t] = "pack"
        /\ cached' = [cached EXCEPT ![l.dir] = l.pages \cup {l.page}]
    BY <1>11, <2>1 DEF Reply, Step, TypeOK, TypeHandlers
  <2>3. \A page \in l.pages \cup {l.page} : Sound(l.dir, page)
    BY <1>5, <2>1, <2>2 DEF InHand
  <2>4. ASSUME NEW d \in Dir PROVE Held(d)'
    <3>1. CASE d = l.dir
      BY <1>1, <2>2, <2>3, <3>1 DEF Held, TypeOK, TypeListings, Listing
    <3>2. CASE d # l.dir
      BY <1>4, <2>2, <3>2 DEF TypeOK, TypeListings
    <3> QED BY <3>1, <3>2
  <2>5. InHand(t)'
    BY <2>2 DEF InHand
  <2> QED BY <1>3, <2>4, <2>5 DEF ListingInv
<1> QED BY <1>6, <1>7, <1>8, <1>9, <1>10, <1>11 DEF ListingStep

(* CachedListingIsCurrent holds in every interleaving of any number of     *)
(* handlers, whatever verifiers later pages are asked for with: while a    *)
(* signal reads as it did for a page the kernel keeps, the page is what    *)
(* there is to list, but for changes still to be touched or unannounced.   *)
THEOREM CachedListings == Spec => []CachedListingIsCurrent
<1>1. Init => ListingInv
  BY DEF Init, ListingInv, InHand, Held
<1>2. TypeOK /\ TypeOK' /\ ListingInv /\ [Next]_vars => ListingInv'
  <2> SUFFICES ASSUME TypeOK, TypeOK', ListingInv, [Next]_vars PROVE ListingInv'
    OBVIOUS
  <2>1. CASE UNCHANGED vars
    <3>1. UNCHANGED <<edition, stamp, owed, missed, pc, listing, cached>>
      BY <2>1 DEF vars, backend, mutator
    <3> QED BY <3>1, QuietKeeps DEF ListingInv, InHand, Held
  <2> QED BY <2>1, MutatorKeeps, ListingKeeps DEF Next, Handle, ListingStep
<1>3. TypeOK /\ ListingInv => CachedListingIsCurrent
  <2> SUFFICES ASSUME TypeOK, ListingInv, NEW d \in Dir, NEW s \in Signal, NEW page \in cached[d],
                      page.stamp[s] = stamp[s][d], page.edition[s] # edition[s][d]
               PROVE  Owed(s, d) \/ Unannounced(s, d)
    BY DEF CachedListingIsCurrent, Misleading
  <2>1. Excused(d, page, s) /\ stamp[s][d] \in Nat
    BY DEF ListingInv, Held, Sound, Current, TypeOK, TypeMaps
  <2> QED BY <2>1 DEF Excused
<1> QED
  BY <1>1, <1>2, <1>3, Typing, PTL DEF Spec

-----------------------------------------------------------------------------
(* The mutations of files and of empty directories, as their handlers      *)
(* touch them.                                                             *)
FileChanges ==
    {Create(e) : e \in Entry} \cup {Remove(e) : e \in Entry} \cup {Write(e) : e \in Entry}
        \cup {Truncate(e) : e \in Entry} \cup {RenameFile(e, f) : e \in Entry, f \in Entry}

(* The sequence of touches has one of signal s for directory d.            *)
Has(ts, s, d) == \E i \in DOMAIN ts : ts[i] = <<s, d>>

(* The touches cover what operator call c may change.                      *)
Covers(m, c) ==
    c.does \in {"put", "delete"} => \A s \in Signal :
        Has(m.touches, s, c.entry[1]) \/ (m.update /\ s = "mtime")

(* What a handler has changed or will change it has still to touch.        *)
TouchInv ==
    /\ \A t \in Thread : \A s \in Signal, d \in Dir : <<s, d>> \in owed[t] =>
           Has(job[t].touches, s, d) \/ (job[t].update /\ s = "mtime")
    /\ \A t \in Thread : pc[t] = "edit" =>
           \A j \in DOMAIN job[t].calls : Covers(job[t], job[t].calls[j])
    /\ \A t \in Thread : pc[t] \notin {"edit", "touch"} => owed[t] = {}

LEMMA TouchDirHas ==
    ASSUME NEW e \in Dir, NEW f \in Dir, NEW ts,
           ts \in {TouchDir(e), TouchDir(f) \o TouchDir(e), TouchDir(e) \o TouchDir(f)},
           NEW s \in Signal
    PROVE  Has(ts, s, e)
<1>1. CASE ts = TouchDir(e)
  <2>1. ts[1] = <<"mtime", e>> /\ ts[2] = <<"version", e>> /\ DOMAIN ts = 1..2
    BY <1>1 DEF TouchDir
  <2> QED BY <2>1 DEF Has, Signal
<1>2. CASE ts = TouchDir(f) \o TouchDir(e)
  <2>1. PICK a, b, c, d : a = <<"mtime", f>> /\ b = <<"version", f>>
                          /\ c = <<"mtime", e>> /\ d = <<"version", e>>
    OBVIOUS
  <2>2. ts = <<a, b>> \o <<c, d>>
    BY <1>2, <2>1 DEF TouchDir
  <2>3. ts[3] = c /\ ts[4] = d /\ DOMAIN ts = 1..4
    BY <2>2
  <2> QED BY <2>1, <2>3 DEF Has, Signal
<1>3. CASE ts = TouchDir(e) \o TouchDir(f)
  <2>1. ts[1] = <<"mtime", e>> /\ ts[2] = <<"version", e>> /\ DOMAIN ts = 1..4
    BY <1>3 DEF TouchDir
  <2> QED BY <2>1 DEF Has, Signal
<1> QED BY <1>1, <1>2, <1>3

LEMMA FileChangesCovered ==
    ASSUME NEW m \in FileChanges, NEW j \in DOMAIN m.calls
    PROVE  Covers(m, m.calls[j])
<1>1. ASSUME NEW e \in Entry, m \in {Create(e), Remove(e)} PROVE Covers(m, m.calls[j])
  <2>1. m.calls[j].entry = e /\ m.touches = TouchDir(e[1])
    BY <1>1 DEF Create, Remove, Find, Miss, Put, Delete
  <2> QED BY <2>1, TouchDirHas, EntryAssumption DEF Covers
<1>2. ASSUME NEW e \in Entry, m \in {Write(e), Truncate(e)} PROVE Covers(m, m.calls[j])
  <2>1. m.calls[j].entry = e /\ m.touches = TouchDirChild(e[1]) /\ m.update
    BY <1>2 DEF Write, Truncate, Find, Put
  <2>2. m.touches[1] = <<"version", e[1]>> /\ DOMAIN m.touches = 1..1
    BY <2>1 DEF TouchDirChild
  <2>3. Has(m.touches, "version", e[1])
    BY <2>2 DEF Has
  <2> QED BY <2>1, <2>3 DEF Covers, Signal
<1>3. ASSUME NEW e \in Entry, NEW f \in Entry, m = RenameFile(e, f) PROVE Covers(m, m.calls[j])
  <2>1. m.calls[j].entry \in {e, f} /\ m.touches = TouchDir(e[1]) \o TouchDir(f[1])
    BY <1>3 DEF RenameFile, Find, Put, Delete
  <2>2. \A s \in Signal : Has(m.touches, s, e[1]) /\ Has(m.touches, s, f[1])
    BY <2>1, TouchDirHas, EntryAssumption
  <2> QED BY <2>1, <2>2 DEF Covers
<1> QED BY <1>1, <1>2, <1>3 DEF FileChanges

LEMMA TailHas ==
    ASSUME NEW ts \in Seq(Signal \X Dir), ts # << >>, NEW s \in Signal, NEW d \in Dir,
           Has(ts, s, d), Head(ts) # <<s, d>>
    PROVE  Has(Tail(ts), s, d)
<1>1. PICK i \in DOMAIN ts : ts[i] = <<s, d>>
  BY DEF Has
<1>2. i # 1 /\ i - 1 \in DOMAIN Tail(ts) /\ Tail(ts)[i - 1] = ts[i]
  BY <1>1
<1> QED BY <1>1, <1>2 DEF Has

(* An edit leaves owed what the touches to come cover.                     *)
LEMMA EditTouches ==
    ASSUME TypeOK, TouchInv, NEW t \in Thread, Edit(t) PROVE TouchInv'
<1>1. PICK m \in Mutation : m = job[t]
  BY DEF TypeOK, TypeHandlers
<1>2. PICK n : n = [m EXCEPT !.calls = Tail(@)]
  OBVIOUS
<1>3. n.touches = m.touches /\ n.update = m.update /\ n.calls = Tail(m.calls)
  BY <1>2 DEF Mutation
<1>4. PICK c \in OperatorCall : c = Head(m.calls) /\ c = m.calls[1] /\ 1 \in DOMAIN m.calls
  BY <1>1 DEF Edit, Mutation
<1>5. PICK con : con = Concerned(c)
  OBVIOUS
<1>6. /\ owed' = [owed EXCEPT ![t] = @ \cup (con \X {c.entry[1]})]
      /\ job' = [job EXCEPT ![t] = n] /\ pc' = pc /\ pc[t] = "edit"
  BY <1>1, <1>2, <1>4, <1>5 DEF Edit, TypeOK, TypeHandlers
<1>7. con # {} => c.does \in {"put", "delete"}
  BY <1>5 DEF Concerned, After
<1>8. Covers(m, c)
  BY <1>1, <1>4, <1>6 DEF TouchInv
<1>9. ASSUME NEW s \in Signal, NEW d \in Dir, <<s, d>> \in owed'[t]
      PROVE  Has(n.touches, s, d) \/ (n.update /\ s = "mtime")
  <2>1. CASE <<s, d>> \in owed[t]
    BY <1>1, <1>3, <2>1 DEF TouchInv
  <2>2. CASE s \in con /\ d = c.entry[1]
    BY <1>3, <1>7, <1>8, <2>2 DEF Covers
  <2> QED BY <1>6, <1>9, <2>1, <2>2 DEF TypeOK, TypeHandlers
<1>10. ASSUME NEW j \in DOMAIN n.calls PROVE Covers(n, n.calls[j])
  <2>1. j + 1 \in DOMAIN m.calls /\ n.calls[j] = m.calls[j + 1]
    BY <1>1, <1>3, <1>4 DEF Mutation
  <2>2. Covers(m, m.calls[j + 1])
    BY <1>1, <1>6, <2>1 DEF TouchInv
  <2> QED BY <1>3, <2>1, <2>2 DEF Covers
<1>11. /\ job'[t] = n
       /\ \A u \in Thread \ {t} : owed'[u] = owed[u] /\ job'[u] = job[u]
  BY <1>6 DEF TypeOK, TypeHandlers
<1> QED BY <1>6, <1>9, <1>10, <1>11 DEF TouchInv

(* A touch pays what it touches.                                           *)
LEMMA TouchTouches ==
    ASSUME TypeOK, TouchInv, NEW t \in Thread, Touch(t) PROVE TouchInv'
<1>1. PICK m \in Mutation : m = job[t]
  BY DEF TypeOK, TypeHandlers
<1>2. PICK n : n = [m EXCEPT !.touches = Tail(@)]
  OBVIOUS
<1>3. n.touches = Tail(m.touches) /\ n.update = m.update
  BY <1>2 DEF Mutation
<1>4. m.touches \in Seq(Signal \X Dir) /\ m.touches # << >>
  BY <1>1 DEF Touch, Mutation
<1>5. PICK h \in Signal \X Dir : h = Head(m.touches) /\ h = <<h[1], h[2]>>
  BY <1>4
<1>6. /\ owed' = [owed EXCEPT ![t] = @ \ {h}]
      /\ job' = [job EXCEPT ![t] = n] /\ pc' = pc /\ pc[t] = "touch"
  BY <1>1, <1>2, <1>5 DEF Touch, TypeOK, TypeHandlers
<1>7. ASSUME NEW s \in Signal, NEW d \in Dir, <<s, d>> \in owed'[t]
      PROVE  Has(n.touches, s, d) \/ (n.update /\ s = "mtime")
  <2>1. <<s, d>> \in owed[t] /\ <<s, d>> # h
    BY <1>6, <1>7 DEF TypeOK, TypeHandlers
  <2>2. Has(m.touches, s, d) \/ (m.update /\ s = "mtime")
    BY <1>1, <2>1 DEF TouchInv
  <2> QED BY <1>3, <1>4, <1>5, <2>1, <2>2, TailHas
<1>8. /\ job'[t] = n
      /\ \A u \in Thread \ {t} : owed'[u] = owed[u] /\ job'[u] = job[u]
  BY <1>6 DEF TypeOK, TypeHandlers
<1> QED BY <1>6, <1>7, <1>8 DEF TouchInv

(* EveryChangeIsTouched holds of the handlers of create, remove, write,    *)
(* truncate and file rename, in any interleaving and whatever handlers     *)
(* fail half done: also of a write that puts a new object, but for the     *)
(* mtime.                                                                  *)
THEOREM ChangesTouched ==
    ASSUME Change \subseteq FileChanges
    PROVE  Spec => []EveryChangeIsTouched
<1>1. Init => TouchInv
  BY DEF Init, TouchInv
<1>2. TypeOK /\ TouchInv /\ [Next]_vars => TouchInv'
  <2> SUFFICES ASSUME TypeOK, TouchInv, [Next]_vars PROVE TouchInv'
    OBVIOUS
  <2>1. ASSUME NEW t \in Thread, NEW m \in Change, Begin(t, m) PROVE TouchInv'
    <3>1. owed[t] = {}
      BY <2>1 DEF Begin, TouchInv
    <3> QED BY <2>1, <3>1, FileChangesCovered DEF Begin, TouchInv, TypeOK, TypeHandlers
  <2>2. ASSUME NEW t \in Thread, Succeed(t) PROVE TouchInv'
    BY <2>2 DEF Succeed, mutator, TouchInv, TypeOK, TypeHandlers
  <2>3. ASSUME NEW t \in Thread, RefuseChange(t) \/ FailChange(t) \/ Finish(t) PROVE TouchInv'
    <3>1. Leave(t)
      BY <2>3 DEF RefuseChange, FailChange, Finish
    <3> QED BY <3>1 DEF Leave, TouchInv, TypeOK, TypeHandlers
  <2>4. ASSUME NEW t \in Thread, ListingStep(t) PROVE TouchInv'
    BY <2>4, ListingFrame DEF Frame, TouchInv, TypeOK, TypeHandlers
  <2>5. CASE UNCHANGED vars
    BY <2>5 DEF vars, mutator, TouchInv
  <2> QED
    BY <2>1, <2>2, <2>3, <2>4, <2>5, EditTouches, TouchTouches DEF Next, Handle, ListingStep
<1>3. TypeOK /\ TouchInv => EveryChangeIsTouched
  <2> SUFFICES ASSUME TypeOK, TouchInv, NEW t \in Thread, job[t].touches = << >>,
                      NEW o \in owed[t]
               PROVE  job[t].update /\ o \in {"mtime"} \X Dir
    BY DEF EveryChangeIsTouched
  <2>1. PICK s \in Signal, d \in Dir : o = <<s, d>>
    BY DEF TypeOK, TypeHandlers
  <2>2. ~Has(job[t].touches, s, d)
    BY DEF Has
  <2> QED BY <2>1, <2>2 DEF TouchInv
<1> QED
  BY <1>1, <1>2, <1>3, Typing, PTL DEF Spec
=============================================================================
