----------------------------- MODULE DirVersions ----------------------------
(***************************************************************************)
(* ext/src/volume.rs: how the volume tells the kernel that a directory     *)
(* listing it has cached is out of date.  Two signals move: the generation *)
(* in dir_versions, replied as the enumeration verifier, when anything in  *)
(* the enumeration changes; the mtime in dir_mtimes when the entry list    *)
(* does.  A mutating handler first changes the backend and then touches    *)
(* the signals; a listing is made after its signals are read.  Handlers    *)
(* run on concurrent threads and share only the maps, each with its lock.  *)
(*                                                                         *)
(* Which changes of a directory a signal announces depends on what the     *)
(* backend's call finds: an object put where there is one changes a child, *)
(* an object put where there is none adds an entry.  A listing is          *)
(* abstracted to the editions it shows: edition[s][d] goes up with every   *)
(* change of directory d that signal s is there to announce.               *)
(*                                                                         *)
(* A long directory is fetched in several pages, each a call of its own    *)
(* that replies a verifier, lists the directory anew and skips the first   *)
(* `cookie` entries.  enumerate never looks at the verifier it is given,   *)
(* so pages are made whatever verifier the one before them had.            *)
(***************************************************************************)
EXTENDS Naturals, Sequences

CONSTANTS Dir,           \* the directories
          Entry,         \* the entries they may have, each a <<directory, name>>
          Mounted,       \* those there are when the volume is mounted
          Listed,        \* which threads enumerate which directories
          Thread,        \* the threads FSKit runs handlers on
          Change,        \* the mutations handlers are asked for
          MaxVersion,    \* u64::MAX, where the generation saturates
          MaxChanges,    \* bound on the mutations
          MaxFaults      \* bound on the mutations that fail half done

Signal == {"version", "mtime"}

(* An operator call of the backend, as far as listings go: it must find    *)
(* the entry, or miss it, or it puts an object there, or deletes it.       *)
OperatorCall == [does : {"find", "miss", "put", "delete"}, entry : Entry]

(* A mutation: the operator calls its backend operation makes, in order;   *)
(* the touches its handler makes; whether it is there to change a child's  *)
(* contents only.                                                          *)
Mutation == [calls : Seq(OperatorCall), touches : Seq(Signal \X Dir), update : BOOLEAN]

ASSUME EntryAssumption == Entry \subseteq Dir \X STRING /\ Mounted \subseteq Entry
ASSUME ListedAssumption == Listed \subseteq Thread \X Dir
ASSUME ChangeAssumption == Change \subseteq Mutation
ASSUME BoundAssumption == MaxVersion \in Nat /\ MaxChanges \in Nat /\ MaxFaults \in Nat

Find(e) == [does |-> "find", entry |-> e]
Miss(e) == [does |-> "miss", entry |-> e]
Put(e) == [does |-> "put", entry |-> e]
Delete(e) == [does |-> "delete", entry |-> e]

TouchDir(d) == << <<"mtime", d>>, <<"version", d>> >>

TouchDirChild(d) == << <<"version", d>> >>

(* A file, or an empty directory. *)
Create(e) ==
    [calls |-> <<Miss(e), Put(e)>>, touches |-> TouchDir(e[1]), update |-> FALSE]

Remove(e) ==
    [calls |-> <<Find(e), Delete(e)>>, touches |-> TouchDir(e[1]), update |-> FALSE]

(* FSKit writes to the item it has open.  When its object has gone, write  *)
(* starts from nothing and puts a new one.                                 *)
Write(e) == [calls |-> <<Put(e)>>, touches |-> TouchDirChild(e[1]), update |-> TRUE]

Truncate(e) ==
    [calls |-> <<Find(e), Put(e)>>, touches |-> TouchDirChild(e[1]), update |-> TRUE]

MutantRenameFile(e, f) ==                      \* touches the source's directory only
    [calls |-> <<Find(e), Put(f), Delete(e)>>, touches |-> TouchDir(e[1]), update |-> FALSE]

(* The copy lands at the destination, over what may be there, before the   *)
(* original goes.                                                          *)
RenameFile(e, f) ==
    [calls |-> <<Find(e), Put(f), Delete(e)>>,
     touches |-> TouchDir(e[1]) \o TouchDir(f[1]), update |-> FALSE]

VARIABLES entries,       \* the entries there are
          edition,       \* what there is to list, per signal and directory
          stamp,         \* dir_versions and dir_mtimes (set how often), 0 where unset
          pc,            \* per thread: what its handler does next
          job,           \* per thread: what is left of its mutation
          owed,          \* per thread (history): changes it made and did not touch yet
          missed,        \* (history) changes left without a touch until the next one
          listing,       \* per thread: the listing it is making
          cached,        \* per directory: the pages of the listing the kernel holds
          changes,       \* how many mutations have begun
          faults         \* how many mutations have failed half done

backend == <<entries, edition>>
mutator == <<job, owed, missed>>
vars == <<backend, stamp, pc, mutator, listing, cached, changes, faults>>

NoJob == [calls |-> <<>>, touches |-> <<>>, update |-> FALSE]

Zero == [s \in Signal |-> 0]

(* A page holds the signals as the kernel read them for it, and the        *)
(* editions it shows.                                                      *)
Page == [stamp : [Signal -> Nat], edition : [Signal -> Nat]]

(* The page a listing is at, and those before it. *)
Listing == [dir : Dir, page : Page, pages : SUBSET Page]

NoListing == [pages |-> {}]

TypeMaps ==
    /\ entries \subseteq Entry
    /\ edition \in [Signal -> [Dir -> Nat]]
    /\ stamp \in [Signal -> [Dir -> Nat]]
    /\ \A d \in Dir : stamp["version"][d] <= MaxVersion
    /\ changes \in 0..MaxChanges
    /\ faults \in 0..MaxFaults

TypeHandlers ==
    /\ pc \in [Thread -> {"idle", "edit", "touch", "verify", "list", "pack"}]
    /\ job \in [Thread -> Mutation]
    /\ owed \in [Thread -> SUBSET (Signal \X Dir)]
    /\ missed \subseteq Signal \X Dir

TypeListings ==
    /\ listing \in [Thread -> Listing \cup {NoListing}]
    /\ \A t \in Thread : pc[t] \in {"verify", "list", "pack"} => listing[t] \in Listing
    /\ cached \in [Dir -> SUBSET Page]

TypeOK == TypeMaps /\ TypeHandlers /\ TypeListings

Init ==
    /\ entries = Mounted
    /\ edition = [s \in Signal |-> [d \in Dir |-> 0]]
    /\ stamp = [s \in Signal |-> [d \in Dir |-> 0]]
    /\ pc = [t \in Thread |-> "idle"]
    /\ job = [t \in Thread |-> NoJob]
    /\ owed = [t \in Thread |-> {}]
    /\ missed = {}
    /\ listing = [t \in Thread |-> NoListing]
    /\ cached = [d \in Dir |-> {}]
    /\ changes = 0
    /\ faults = 0

-----------------------------------------------------------------------------
(* Mutating handlers. *)

Begin(t, m) ==
    /\ pc[t] = "idle" /\ changes < MaxChanges
    /\ changes' = changes + 1
    /\ pc' = [pc EXCEPT ![t] = "edit"]
    /\ job' = [job EXCEPT ![t] = m]
    /\ UNCHANGED <<backend, stamp, owed, missed, listing, cached, faults>>

(* An operator call goes well when it finds what it needs. *)
GoesWell(c) ==
    /\ c.does = "find" => c.entry \in entries
    /\ c.does = "miss" => c.entry \notin entries

After(c) ==
    CASE c.does = "put"    -> entries \cup {c.entry}
      [] c.does = "delete" -> entries \ {c.entry}
      [] OTHER             -> entries

(* The signals there are to announce what the call did: an object put at   *)
(* once another's place changes a child, one that comes or goes changes    *)
(* the entry list as well.                                                 *)
Concerned(c) ==
    CASE After(c) # entries                      -> Signal
      [] After(c) = entries /\ c.does = "put"    -> {"version"}
      [] After(c) = entries /\ c.does # "put"    -> {}

(* One operator call of the backend's operation. *)
Edit(t) ==
    /\ pc[t] = "edit" /\ job[t].calls # <<>>
    /\ LET c == Head(job[t].calls)
           d == c.entry[1]
       IN  /\ GoesWell(c)
           /\ entries' = After(c)
           /\ edition' = [s \in Signal |->
                  IF s \in Concerned(c) THEN [edition[s] EXCEPT ![d] = @ + 1] ELSE edition[s]]
           /\ owed' = [owed EXCEPT ![t] = @ \cup (Concerned(c) \X {d})]
    /\ job' = [job EXCEPT ![t].calls = Tail(@)]
    /\ UNCHANGED <<stamp, pc, missed, listing, cached, changes, faults>>

(* The backend answers Ok, and the handler turns to its touches. *)
Succeed(t) ==
    /\ pc[t] = "edit" /\ job[t].calls = <<>>
    /\ pc' = [pc EXCEPT ![t] = "touch"]
    /\ UNCHANGED <<backend, stamp, mutator, listing, cached, changes, faults>>

(* The handler replies; what it changed and did not touch stays untouched. *)
Leave(t) ==
    /\ pc' = [pc EXCEPT ![t] = "idle"]
    /\ job' = [job EXCEPT ![t] = NoJob]
    /\ owed' = [owed EXCEPT ![t] = {}]
    /\ missed' = missed \cup owed[t]
    /\ UNCHANGED <<backend, stamp, listing, cached, changes>>

(* The backend answers Err: the handler replies the errno and touches      *)
(* nothing.  Either nothing was changed, or a call between or after its    *)
(* changes failed.                                                         *)
RefuseChange(t) ==
    /\ pc[t] = "edit" /\ owed[t] = {}
    /\ Leave(t)
    /\ UNCHANGED faults

FailChange(t) ==
    /\ pc[t] = "edit" /\ owed[t] # {} /\ faults < MaxFaults
    /\ faults' = faults + 1
    /\ Leave(t)

MutantMovedTooFar(s, v) == v + 1               \* no saturation: the next value is no u64

MutantMovedWraps(s, v) ==                      \* wrapping_add
    IF s = "version" /\ v = MaxVersion THEN 0 ELSE v + 1

(* The next value of a signal: the mtime is set to now, the generation is  *)
(* incremented, saturating.                                                *)
Moved(s, v) == IF s = "version" /\ v = MaxVersion THEN v ELSE v + 1

(* The two halves of touch_dir, each under its own lock.  What others      *)
(* changed and missed to touch is announced with it.                       *)
Touch(t) ==
    /\ pc[t] = "touch" /\ job[t].touches # <<>>
    /\ LET s == Head(job[t].touches)[1]
           d == Head(job[t].touches)[2]
       IN  /\ stamp' = [stamp EXCEPT ![s][d] = Moved(s, @)]
           /\ owed' = [owed EXCEPT ![t] = @ \ {<<s, d>>}]
           /\ missed' = missed \ {<<s, d>>}
    /\ job' = [job EXCEPT ![t].touches = Tail(@)]
    /\ UNCHANGED <<backend, pc, listing, cached, changes, faults>>

Finish(t) ==
    /\ pc[t] = "touch" /\ job[t].touches = <<>>
    /\ Leave(t)
    /\ UNCHANGED faults

-----------------------------------------------------------------------------
(* Listing a directory: the kernel asks for its attributes, then           *)
(* enumerates it page by page: dir_verifier, backend.list, the entries     *)
(* from the cookie on until the caller's buffer is full.                   *)

Step(t, from, to) ==
    /\ pc[t] = from
    /\ pc' = [pc EXCEPT ![t] = to]
    /\ UNCHANGED <<backend, stamp, mutator, changes, faults>>

GetAttributes(t, d) ==
    /\ Step(t, "idle", "verify")
    /\ listing' = [listing EXCEPT ![t] =
           [dir |-> d, pages |-> {},
            page |-> [stamp |-> [Zero EXCEPT !["mtime"] = stamp["mtime"][d]],
                      edition |-> Zero]]]
    /\ UNCHANGED cached

(* Also for a later page: the verifier the call comes with is not used. *)
ReadVerifier(t) ==
    /\ Step(t, "verify", "list")
    /\ listing' = [listing EXCEPT ![t].page.stamp["version"] =
                       stamp["version"][listing[t].dir]]
    /\ UNCHANGED cached

List(t) ==
    /\ Step(t, "list", "pack")
    /\ listing' = [listing EXCEPT ![t].page.edition =
                       [s \in Signal |-> edition[s][listing[t].dir]]]
    /\ UNCHANGED cached

(* backend.list answers Err: nothing is packed and the kernel keeps what   *)
(* it has.                                                                 *)
FailList(t) ==
    /\ Step(t, "list", "idle")
    /\ listing' = [listing EXCEPT ![t] = NoListing]
    /\ UNCHANGED cached

(* The buffer was full before the end: the caller comes back with the      *)
(* cookie of the last entry it got.                                        *)
NextPage(t) ==
    /\ Step(t, "pack", "verify")
    /\ listing' = [listing EXCEPT ![t].pages = @ \cup {listing[t].page}]
    /\ UNCHANGED cached

MutantReply(t) ==                              \* replies the verifier of now, not of before
    /\ Step(t, "pack", "idle")
    /\ LET d == listing[t].dir IN
       cached' = [cached EXCEPT ![d] = listing[t].pages \cup
           {[listing[t].page EXCEPT !.stamp["version"] = stamp["version"][d]]}]
    /\ listing' = [listing EXCEPT ![t] = NoListing]

(* The last entries are packed, and the kernel caches each page under the  *)
(* signals it came with.  Of two enumerations the last to reply stays.     *)
Reply(t) ==
    /\ Step(t, "pack", "idle")
    /\ cached' = [cached EXCEPT ![listing[t].dir] = listing[t].pages \cup {listing[t].page}]
    /\ listing' = [listing EXCEPT ![t] = NoListing]

-----------------------------------------------------------------------------
Handle(t) ==
    \/ Edit(t) \/ Succeed(t) \/ RefuseChange(t) \/ FailChange(t) \/ Touch(t) \/ Finish(t)
    \/ ReadVerifier(t) \/ List(t) \/ FailList(t) \/ NextPage(t) \/ Reply(t)

Next ==
    \E t \in Thread :
        \/ \E m \in Change : Begin(t, m)
        \/ \E d \in Dir : <<t, d>> \in Listed /\ GetAttributes(t, d)
        \/ Handle(t)

Spec == Init /\ [][Next]_vars

(* A handler FSKit has called runs to its reply. *)
FairSpec == Spec /\ \A t \in Thread : WF_vars(Handle(t))

-----------------------------------------------------------------------------
(* Properties. *)

(* A change of d that signal s announces is still to be touched. *)
Owed(s, d) == \E t \in Thread : <<s, d>> \in owed[t]

(* A change of d will not be announced by what has been done so far: its   *)
(* handler left without the touch and no other touch has come, or the      *)
(* generation is at its last value.                                        *)
Unannounced(s, d) == <<s, d>> \in missed \/ (s = "version" /\ stamp[s][d] = MaxVersion)

(* The kernel holds a page of d that reads as current and is not. *)
Misleading(s, d) ==
    \E page \in cached[d] :
        page.stamp[s] = stamp[s][d] /\ page.edition[s] # edition[s][d]

(* A page the kernel holds while a signal reads as it did when the page    *)
(* was made shows what there is to show, in every interleaving of          *)
(* handlers; so pages that all read as current show one and the same       *)
(* listing, and the cookie between them has skipped and repeated nothing.  *)
(* Excepted are a change between its edit and its touch, and one that      *)
(* stays unannounced.  This is why the verifier is read before the list    *)
(* and touched after the change.                                           *)
CachedListingIsCurrent ==
    \A d \in Dir, s \in Signal : Misleading(s, d) => Owed(s, d) \/ Unannounced(s, d)

(* The generation is "bumped whenever *anything* in the directory's        *)
(* enumeration changes" (volume.rs), and the mtime whenever the entry list *)
(* does: a handler that is about to reply success has touched, of every    *)
(* directory it changed, every signal the change concerns.  With one       *)
(* exception: a write or a truncate that put an object where none was any  *)
(* more has added an entry, and has not moved the mtime.                   *)
EveryChangeIsTouched ==
    \A t \in Thread : pc[t] = "touch" /\ job[t].touches = <<>> =>
        owed[t] \subseteq IF job[t].update THEN {"mtime"} \X Dir ELSE {}

(* A page that reads as current and is not is found out in the end: the    *)
(* signal moves, or the kernel lists anew, unless the change stays         *)
(* unannounced.                                                            *)
StaleListingsAreFoundOut ==
    \A s \in Signal, d \in Dir :
        Misleading(s, d) ~> ~Misleading(s, d) \/ Unannounced(s, d)
=============================================================================
