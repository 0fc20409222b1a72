# fskit-s3 in TLA+

fskit-s3 mounts an S3 bucket as a macOS volume: an FSKit extension in Rust serves
the kernel's requests from an object store, and a menu-bar application keeps the
list of connections and mounts them. This directory models the parts of it where
steps of several actors meet - the storage operations as sequences of object-store
calls, the volume's memory of directories and items, the application's tasks on
connections, secrets and mounts, the host application's refreshes and its launch -
and the conversions where two sides have to agree on a text. TLC checks them on
small instances, and TLAPS proves part of it for all.

Run a model with `tlc -workers 2 -config MCMem.cfg MCMem.tla`, the proofs with
`tlapm DirVersionsProofs.tla`, and so on for each `*Proofs.tla`.
`PROJECT.json` lists the runs, the mutants that show each property can fail, the
source lines behind each definition, and the hazards.

## The system

| component | source | state | operations |
|---|---|---|---|
| path rules | `core/src/path.rs` | none | normalize, parent, basename, to_key |
| storage contract, in-memory backend | `core/src/lib.rs`, `mem.rs` | a map from keys to bytes, one lock | list, stat, read, create, write, truncate, remove, rename |
| S3 backend | `backend/src/lib.rs` | none of its own; the bucket | the same, each a sequence of OpenDAL calls |
| volume | `ext/src/volume.rs`, `item.rs`, `junk.rs` | the backend (set once), a pending configuration, `dir_mtimes`, `dir_versions`, `items`, each map with its own lock | activate, lookup, reclaim, enumerate, get/setAttributes, createItem, removeItem, renameItem, read, write |
| extension life cycle | `ext/src/lib.rs` | the file system's singleton, its container state | probe, load, unload |
| connections | `app/src/connection.rs`, `ffi.rs` | one JSON file, read and rewritten whole | list, save, delete |
| secrets | `app/src/keychain.rs`, `disksecret.rs` | a Keychain item and a file per name | store, read, delete |
| mounts | `app/src/mounts.rs`, `ffi.rs` | the system's mount table | mount, mount with a secret, unmount, auto-mount, restart of fskitd, unmount on quit, the `/_info` probe |
| health | `app/src/health.rs` | none | a check with a timeout, and a probe of the running extension without one |
| host application | `xcode/host/*.swift` | copies of connections, mounts and health on the main actor | refreshes and buttons, each a detached task; the launch sequence |

How they interact. The kernel calls the volume's handlers on FSKit worker threads,
several at a time. A handler blocks on one or more futures of the backend and then
updates the volume's maps; there is no lock around a handler, nor around the several
OpenDAL calls of one backend operation. The application talks to the extension only
through `mount`: the connection's configuration is the source path, the secret is in
the Keychain or an option, and the answer to a probe is the text of a failure. It
finds its mounts again in the text of `/sbin/mount`. Application calls run on detached
tasks and share the registry file, the secret stores and the mount table without a
lock; what they return is assigned on the main actor, in whatever order they end.

What is hard. (1) A backend operation is a get, a decision and a put, or a copy and
a delete per object, with other operations, failures and repeats between any two
calls. (2) A directory's verifier and mtime are read before, and moved after, the
backend calls they stand for, and a listing comes in pages. (3) Items are reference
counted by hand, and the cache is keyed by path while renames and removals change what
a path means. (4) `load`, `activate` and `unload` come in an order FSKit chooses, with
failures in between. (5) Registry, secrets and mounts are changed in several unlocked
steps, some of which fail without a word. (6) Refreshes overlap, FSKit or the probe may
never answer, and a restart of fskitd drops
mounts that had succeeded. (7) A value crosses to the extension as text through three
parsers. The `hazards` of `PROJECT.json` give the lines.

What makes each part correct: paths have one canonical form and re-keying a tree
loses no name; a backend never loses bytes it was not asked to change, its listings
agree with stat, and it answers like the in-memory one; a cached page whose
signals have not moved is current; an item in use is never freed and
one file has one item; a container is ready exactly while a volume is loaded; a
deleted connection leaves no mount and no secret its delete could find and remove; a form arrives at the extension as
it was meant; a launch leaves no flagged connection behind, and a row that is out of
date has a reason.

## Modules

`Path` - `normalize` as a left fold over the segments, `parent`, `basename`, and keys
as records of a path and whether the key ends in `/` (a directory's marker).
Strings are sequences of segments, so splitting at `/` is left out. `Rekey` is the
cut-and-join of `rename`, shared by both backends.

`Objects` - the object store both backends work on: a function from keys to bytes,
the requests and answers of the trait `StorageBackend`, and the readings of a store
(`IsDir`, `Children`, `Splice`, `Slice`) that both backends compute.

`MemStore` - `InMemoryBackend`. Each operation holds the one lock from start to end,
so it is one action between `Invoke` and `Return`. An action is the whole function,
with the error it answers.

`OpenDalBackend` - `OpenDalBackend`. Each action is one OpenDAL call together with
the code up to the next: `StatHead` is the first stat of an operation, `WriteGet` and
`PutCall` are the two halves of a write, `WalkCall` lists a tree for a rename,
`CopyCall` (or `FetchCall` and `PlaceCall` where the service cannot copy) and
`UnlinkCall` move one object. The service is external and does one call atomically. A
call may fail with or without its effect, and a mutating one may be applied and then
made again by the retry layer (`Repeat`), together at most `MaxFaults` times. `blind`
records the paths stored at although the operation's own stat had failed. `Serial` is
a parameter, not code: when TRUE callers start operations only on paths no running
operation touches.

`BackendRefinesMem` - the refinement mapping from `OpenDalBackend` to `MemStore`. All
operations take effect at their last call, except rename, which takes effect when it
has its list of keys: from then on the abstract store has every key moved.

`ObjectsProofs` holds the facts about paths, keys, stores and bytes that the proofs about
both backends cite; `MemStoreProofs` holds the theorems of `MemStore`, and
`OpenDalBackendProofs` those of the S3 backend and of the refinement.

`DirVersions` - `dir_versions` and `dir_mtimes`. A mutating handler makes the operator
calls of its backend operation one by one (`Edit`), then its touches one lock at a time
(`Touch`). Which signals a call concerns depends on what it finds: `Put` where there is an
object changes a child, where there is none it adds an entry - also when it is a write
whose file has gone, for which the handler touches the generation only. A listing reads
the mtime (`GetAttributes`), the verifier (`ReadVerifier`), the entries (`List`), packs a
page and either stops (`Reply`) or is called again with a cookie (`NextPage`), which reads
the verifier anew. `enumerate` never compares it with the one it is given and goes on from
the cookie whatever happened in between; the model does the same. The kernel keeps every
page with the signals it came with. Content is abstracted to an edition number per
directory and signal. `DirVersionsProofs` holds its theorems.

`Enumeration` - one page of `enumerate`: the entries from a cookie on that the litter
filter lets through, until the caller's buffer is full, and the cookie to go on from.

`ItemCache` - `items`, `item_for`, `forget_item` and the reference counts. Handlers
have a backend call, then the cache's step under its lock (`Mint`, `Forget`), then
the reply. `lookup` and `createItem` refuse hidden names, the other handlers do not
look. The bucket is reduced to the kind of what is at each path. What FSKit does is
external and kept to what the code's comments say: it gives an item back once, calls
handlers on several threads, and asks for a rename to an unused name or over what POSIX
lets one replace; the handler ignores the item it goes over. `ItemCacheProofs` holds its theorems.

`Handover` - a connection as text: what a form must look like to be accepted, the
source path made of it, mount's `-o` argument, and the extension's parsers, `load` and
`activate` as one function of the two texts and the Keychain (`Serve`); a row of the
mount table and its parser; the probe's message and its parser. Texts are sequences of
symbols: the delimiters some parser splits at, and words. `IdentifierAssumption` says that
no word of letters, digits, `.`, `-` and `_` is one of those delimiters.

`Health` - the report as a function of FSKit's list of modules, the commits of the
bundles and the running extension's reply; and the menu bar's symbol for a report.

`Mounting` - the application's operations and the extension's life cycle. Each
exported function of `ffi.rs` is a task that takes one step per access of the
registry file (`SaveList`, `Write`, `Fill`), of a secret store (`SaveKeychain`,
`PromptDisk`, `DeleteKeychain`, ...) or of the mount table (`Unmount`, `QuitNext`, ...);
`fs::write` is two steps, since a file is empty between its truncation and its
contents, and what does not parse is taken for a fresh install (`Load`). A secret's file is
truncated and filled as well: a store that fails, or dies, may leave it cut short (`Cut`
is what is read from it then). Deletes of secrets may fail, which goes unnoticed, and a
mount table that cannot be listed is seen as empty (`MountsSeen`). `mount(8)`
runs the extension: `LoadResource` and `Activate`, each with its failure, and the
backend the secret lookup of `build_backend` arrives at. The mount table and the
Keychain are external, and so is what runs an instance of the extension per mount.
`Kill` ends the application between any two steps, any number of times; a mount it has
asked for goes on. History only: which secrets a delete left (`left`), and which mounts went
`stray`, their connection being saved with another folder or its delete not seeing them.
Connections are records of the fields the operations branch on; field validation, the
bucket listing and the mount folder's checks are steps that may fail; the Keychain's
shared and default group, which `keychain.rs` always tries one after the other, are one
store.
`MountingProofs` holds its theorems.

`AppModel` - the host application above those functions, each of which is one step
here. The model's variables are AppModel's (`report`, `rows`) and, per detached task,
what it has read and not yet assigned (`check`, `list`). `Answers` and `TimesOut` race
for a health check; after an answer of an enabled extension the check waits for the probe,
a mount of `/_info` (`Probed`); `Report` assigns it; `Read` and `Show` are the two reads and two
assignments of `refreshConnections`. `AutoMount` to `PromptForSecrets` are the launch
sequence with its alert: retry, restart and retry, or dismiss. `OpenMenu` to `Submit`
are what the user starts. Two variables are history only: the rows changed with no
refresh to follow, and the connections the user has dealt with. `AppModelProofs` holds
its theorems.

`MCConversions` steps through the inputs of `Path`, `Handover`, `Enumeration` and
`Health`; the other `MC*` modules give parameters. `ConversionsProofs` holds its theorems.

## Runs

Bounds, and why they suffice:

| run | shows | bound |
|---|---|---|
| `conversions` | `NormalizeIsReference`, `ParentAndBasename`, `RekeyInverts`; `ConfigArrives`, `SecretArrives`: what a form means is what is served; `MountIsFound`; `ProbeIsRead`; `PagesShowEachEntryOnce`; `CloudMeansRightBuild` | paths of up to five segments (every rule of the fold involves at most two adjacent ones); a valid form with up to two symbols typed anywhere, which suffices to forge a field (`&`, `=`) or a separator (` (`, ` on `); up to four symbols around the probe's reply; listings of up to four entries and every way to cut them into pages; two modules |
| `mem` | `ListingMatchesStat`, `WriteIsInPlace`, `RenameMovesTree` | one caller (operations exclude each other), trees two deep, files of up to two bytes; a path can become a file and a directory |
| `backend_serial` | `ImplementsMem` and `NoShadow`: the S3 backend is a drop-in for the stand-in the tests use | two callers, 15 requests with every operation, several on each path |
| `backend_faults` | `RenameKeepsBytes`, `RenameOkMovesAll`, `NoShadow`, `OnlyBlindCreatesClobber`, `CallsGetOn`, `EveryCallReturns` | two calls that fail or are repeated, enough to fail a rename and fail its retry; three buckets, eight requests |
| `backend_moves` | `SeededBytesSurvive`: renames that overlap, and removals of the directories they fill and empty, lose no file | two callers over a tree of two files, no server-side copy, one failure |
| `dirs` | `CachedListingIsCurrent`, `EveryChangeIsTouched`, `StaleListingsAreFoundOut` | two directories with three files between them, two handlers, one of which lists the first directory in any number of pages; any two of six changes (every handler; a rename within the directory and one into it over a file; a write that may find its file gone), one half-failed; the generation saturates at 2, which the renames pass |
| `items` | `ItemsStayAlive`, `CacheHoldsWhatFSKitKnows`, `HiddenStaysOutOfSight` | two threads, three items, two names and a hidden one with a child, renames to the new name, over what is there, and to the hidden name, one item held beyond a call; `View` leaves out the last arguments of an idle thread, which no action reads |
| `mounting` | `KeychainFlagIsTrue`: saves, deletes and prompts keep the flag honest through failures and crashes; `DeletedIsGone`: no mount and no secret left but those it could not find or remove; `ReadyMeansServed` | the built-in connection and one on S3, in a folder of its own or at the default place; three forms (secret to the Keychain, to the disk, kept nowhere); two tasks, and the application dies any number of times |
| `app` | `OnlyOvertakenRowsAreStale`, `LaunchLeavesNoneBehind`, `EveryRefreshEnds` | two flagged connections, one of which may lack its secret; the launch and one task of the user, two clicks, so that a click's refresh can overtake the launch's and be overtaken |

Each of these runs also checks its module's type invariant, where no other run of the
module does.

Runs where the code and its text disagree; each checks one quoted sentence:

| run | property | what happens |
|---|---|---|
| `backend_lost_write` | `WrittenSliceStands` | two writes to different bytes of one file answer Ok, the later put restores the old bytes of the other |
| `mount_stale_secret` | `SuppliedSecretIsUsed` | a new secret saved on disk only leaves the old one in the Keychain, which the extension prefers to the one it is handed |
| `items_twice` | `OneItemPerFileID` | reclaiming an old item evicts its successor; the next lookup mints a second item for one fileID |

More disagreements have no run, since one call or one glance shows them; where they
touch a property, the property states the exception:

- `create` takes any failure of its stat for absence, although
  `backend/src/lib.rs:231` says it refuses to clobber: `OnlyBlindCreatesClobber` and
  `NoShadow` except those paths, and only those.
- A write or a truncate of a file that has gone creates it again
  (`backend/src/lib.rs:264`), and the handler moves the generation only; `volume.rs:38-44`
  says that every change of the entry list moves the mtime. `EveryChangeIsTouched` excepts
  this case. The verifier FSKit hands to `enumerate` is not looked at, so whether a page
  goes with the one before it is left to FSKit.
- A delete answers Ok when a secret could not be removed (`keychain.rs:58-61`,
  `disksecret.rs:81-85`) and when the mounts could not be listed (`mounts.rs:47`), and
  looks only at the folder the registry names now; `ffi.rs:264-266` says that "a live mount
  is never orphaned with its config gone" and that the secret is dropped. `DeletedIsGone`
  excepts exactly what was left in these ways.
- The health check's probe has no timeout (`mounts.rs:131-134`), although `health.rs:77-79`
  says that `check` blocks briefly, until FSKit replies or `CHECK_TIMEOUT` elapses.
  `EveryRefreshEnds` excepts that wait.
- Renaming a directory that has a marker object leaves the marker
  (`backend/src/lib.rs:359`), so the source still is a directory; a call on the wrong
  kind of path finds nothing rather than the other kind (line 163).
- The directories below a renamed one change without their verifiers moving, against
  `volume.rs:46-47`; their children's items stay cached under the old paths.
- `junk.rs:11-13` says hidden names never reach the backend; a rename to one does.
- A secret with a comma is accepted for the Keychain, and is cut where a build without
  Keychain access gets it by `-o` after all.
- `Health.swift` says "Extension ready" of a disabled extension whose commit differs.
- `App.swift:220-222` says the rows reflect the latest state; of two refreshes the older
  may be assigned last. `mountAction` calls into the contract on the main actor
  (`Connections.swift:93`), against `App.swift:17`.

Therefore `backend_serial` renames no directory with a marker of its own and asks
for no call on the wrong kind of path, `backend_moves` has no rename back to where
another rename moves from (it would lose bytes), and `dirs` renames files only.
`mounting` has `Serial = TRUE`: one form saves or deletes at a time and nothing else
works on its connection meanwhile, while mounts, unmounts, prompts, auto-mount,
restart and quit interleave freely. Without that `DeletedIsGone` and `KeychainFlagIsTrue`
are violated in a few steps (a delete that crosses an auto-mount or a save; the hazards
give the lines). In `mounting` a secret read from a file cut short is the same as the one
stored, since its properties only ask whether there is one; in `mount_stale_secret` it is
another. `app` takes a connection that has been deleted to have lost its secret as well;
whether it has is `mounting`'s question.
`MountIsFound` is about source paths without a blank of their own; one with ` on ` in
a field would come apart there.

Deadlock is checked in every run but `conversions`, which ends when its input has its
full length, and `app`, where the application waits for the user once the clicks are
used up.

Fairness. `OpenDalBackend!FairSpec` and `DirVersions!FairSpec` assume weak fairness
of each handler's own steps, per thread: a handler runs on a thread of its own, holds
no lock while it waits, OpenDAL's retries are bounded, and the locks it takes are
held for one map operation. `AppModel!Spec` assumes it of the steps of a refresh, per
task: detached tasks and turns of the main actor are scheduled, a receive with a
timeout returns, and the registry file and `/sbin/mount` can be read. That FSKit
answers is not assumed; that is what the timeout is for. Neither is that the probe's
mount returns, for which the code has no timeout, so `EveryRefreshEnds` lets a task wait
for it. `OpenDalBackend` takes each operator call to end: the code adds a `RetryLayer` and
no timeout layer, so that rests on the HTTP client. Nothing is assumed of callers and
users: that FSKit calls, or calls again, is never fair.

## Proofs

Every proof holds for all values of the constants and uses the named assumptions of the
module it is about; what a theorem assumes beyond them is in its statement and below.

`ObjectsProofs` proves the operators right that both backends share. Two of its results
are of interest by themselves: `RenamingBackRestoresKeys` and `JoinTakesApart`, for any
two directories and paths of any length.

`MemStoreProofs` proves `Typing`; `ListingAgrees`: `Spec => []ListingMatchesStat`, from
what `Children` and `StatAnswer` say of any map; `WritesInPlace`, from what `Splice` does
to any bytes; and `RenamesMoveTrees`, where neither path of a rename contains the other
(`KernelRenames`: the kernel refuses such a rename).

`OpenDalBackendProofs` proves, failures and repeats included, with and without a
server-side copy:

- `Typing`. The invariant is `Sound`: types, and which call can be under way for which
  operation (`OnCourse`).
- `CreatesDoNotClobber`, `RenamesKeepBytes` and, as long as no path is a file and a
  directory at once (`PlainTree`), `RenamesMoveAll`, with `Serial`. The argument is the
  same each time: what an operation has found out at its first call (`Created`, `Placed`,
  `Swept`) stays so until it relies on it, because an operator call changes only keys
  below the paths of its own request (`OperateEffect`, `Footprint`), and those of others
  are apart (`Apartness`, which `Serial` gives). Without `Serial` TLC violates the first,
  since a put of another caller may come between stat and put.
- `PathsStayFileOrDirectory`: `Spec /\ [][RenamesFit]_vars => []NoShadow`, with `Serial`
  and plain seeds (`SeedsFit`). `RenamesFit` says that a rename starts only if the tree
  and what already is at its target agree on what is a file: the code's rename never
  looks at its target, and TLC violates `NoShadow` where it merges a file into a
  directory. `RenamesOfAPlainTree` puts the last two results together.
- `RacingRenamesKeepBytes`: `Spec => []SeededBytesSurvive` for any callers, renames that
  overlap in any way included. What `Serial` gave is gone: between the steps of one
  rename others may move, overwrite or delete what it has listed. The hypothesis
  `Onward(home, rank, b)` is about requests and seeds only: the file's bytes have a set of
  possible keys, every rename from such a key leads to one of a higher rank, every rename
  onto one comes from one, and nothing else writes or removes there. The invariant
  `MovesOn` says that some object at home has these bytes, that whatever a rename carries
  to a home key is these bytes, and that a rename about to delete a home key has made the
  copy or sees one further on (`FurtherOn`): so the deletion of one rename is answered by
  a copy of higher rank, which no rename that moves back can be behind. Where renames move
  back what others move, the bytes are lost, as TLC shows for a swap. That the requests
  of `backend_moves` are onward is `RacingRenamesMoveOn`, an assumption of `MCBackend`
  which TLC evaluates. `BytesThatMoveOnSurvive` says it of one file in any tree.
- `EveryCallGetsOn`: `Spec => CallsGetOn`, and `ListsAreFinite`. Together they bound every
  operation by what its first listing answered, whatever others add to the directory
  meanwhile: the safety half of `EveryCallReturns`, of which only the use of fairness
  stays with TLC.

It proves the refinement as well: `Refines` says
`Spec /\ [][KindsAgree]_vars => ImplementsMem`, with `Serial`, no failing operator call
(`MaxFaults = 0`) and no bytes in the markers of the seed. `ReadyInv` says of each
operation, call by call, that what it has found out is still so: an object that was there
for a read has the size it had, what a put is about to store is the splice of what is
stored, each key a rename still has to move is there, its copy equal once it is made. `AbsView`
says of each key where the abstract store has it. Then each operator call that answers
is the step of `MemStore` with that answer, a rename's is the one that finds its keys
(`MovesAtOnce`), and the calls of its loop are hidden (`CopyShowsNothing`,
`UnlinkShowsNothing`). Each hypothesis is needed: a failed rename is half done, which no
step of `MemStore` is; a marker is created anew at its target, without the bytes some
other program may have stored in it; and `KindsAgree` excludes the calls the two backends
answer differently (a listing of a file, bytes of a directory, a directory with a marker
of its own renamed, an empty read of what may not exist), with the two that are answered
without asking the service, for which the mapping has no step in between. The requests of
`backend_serial` are such, which TLC confirms by `ImplementsMem` itself.

`ItemCacheProofs` proves, for any finite number of threads and any names and items,
`Typing`, `NothingFreedInUse`, `CacheFollowsFSKit` and `HiddenIsNeverAnItem`. The
invariant counts: an item's count is the number of references the cache, FSKit and the
handlers under way hold, and an item is freed at zero, so one that can still be reached
has not been. With it go: an item is cached at its own path only, what FSKit knows it
holds, and a handler that carries an item to FSKit or from it is the reason the cache and
FSKit may differ for that moment.

`DirVersionsProofs` proves, for any directories, entries, threads and changes and any
bounds, from the named assumptions of `DirVersions` only:

- `Typing`: `Spec => []TypeOK`.
- `CachedListings`: `Spec => []CachedListingIsCurrent`. The property speaks of cached
  pages only and is not inductive. `ListingInv` adds what makes it so: a page's
  stamps are never ahead of the signal's (`Past`), and a page - already while it is
  being made, once its entries are read - whose stamp still is the signal's value shows
  the last edition, unless a touch of it is owed, it was missed, or the generation has
  saturated (`Current`, `Excused`). It is kept because the verifier is read before the
  entries, so an edition that appears later leaves an owed touch behind, and the touch
  moves the signal past every stamp there is. What the changes are does not matter.
- `ChangesTouched`: with the mutations of the handlers (`FileChanges`: create, remove,
  write, truncate, rename of a file), `Spec => []EveryChangeIsTouched`. `TouchInv`
  says that all a handler has changed, or is going to, has an entry among the touches
  it still has to make, or is the mtime of an update; `FileChangesCovered` computes this
  for the handlers' tables.

`AppModelProofs` proves, for any connections (at least one) and any tasks of the user,
from the named assumptions of `AppModel`:

- `Typing`.
- `NoneLeftBehind`: `Spec => LaunchLeavesNoneBehind`. `LaunchInv` says that from the
  first mount to the prompts each flagged, listed connection is mounted, to be mounted,
  failed, without a secret, or touched by the user. A restart breaks "mounted" for all
  of them and goes back to where nothing has been promised yet; a retry moves the failed
  ones to the work list. The action property follows at the step that prompts.
- `OnlyOvertaken`: `Spec => []OnlyOvertakenRowsAreStale`. `RowsInv` says of each row that
  is not unannounced: either a refresh is due (some task will begin one), or the youngest
  refresh has still to read it, or what that refresh has read, or assigned last, is what
  there is. A change of the world makes a refresh due in the same step; a new refresh
  takes over the promise.

`MountingProofs` proves, for any connections, folders, secrets, forms and tasks, signed
or not, from the named assumptions of `Mounting`:

- `Typing`. A task's next step has its type only because of what the steps before have
  left in the task: `Does` relates a step to its operation, its form and its snapshot.
- `NoneStuckReady`: `Spec => []ReadyMeansServed`, also where operations do not wait for
  each other. It is inductive over the types: a step makes a container ready together
  with the activation that answers for it, and whatever ends a volume or an activation
  of that name resets it.
- `FlagIsTrue`: with `Serial`, `Spec => []KeychainFlagIsTrue`. `FlagInv` says the flag is
  true not only of the registry but of every list a task is about to write (`TrueList`),
  that the secret is stored before the list is made and forgotten only when the file no
  longer has the name (`TrueTask`), and that one task at a time saves or deletes
  (`OneWriter`): that is the only use of `Serial`.
- `DeletedStaysGone`: with `Serial`, `Spec => []DeletedIsGone`. `HomeInv` says that every
  mount of a connection that is not stray, and every mount some task has in hand, is at the
  folder the registry lists, or a task's snapshot of it; a save that moves the folder makes
  the mounts elsewhere stray in the same step. `GoneInv` says that nothing
  else works on a connection being deleted (`Exclusive`), that the delete has unmounted
  what it saw before it removes, and that what it has removed stays removed, the rest being
  noted in `left` (`Deleting`, `Gone`). Without `Serial` TLC violates the property.

`ConversionsProofs` proves, for inputs of any length and whatever the bounds of
`MCConversions`, `NormalizeIsRight`, `NamesComeApart`, `RenamesComeBack`,
`PagesAreComplete`, `CloudIsRight`, and of the hand-over `ConfigsArrive`, `SecretsArrive`,
`MountsAreFound` and `ProbesAreRead`, with `ConversionsTyped`. The only assumptions are
the named ones of the modules, of which `IdentifierAssumption` matters. What a fold computes needs induction over its
input. The library states induction with an operator as a parameter, so it is done here
with sets: a set of numbers with 0 and the successor of each of its members is all of
`Nat` (`Inductive`, from the well-foundedness of `<`). By it the function a fold is looked
up in exists (`FoldingExists`), and a fold over `n` positions is the last of `n` results, each
made from the one before (`Unrolling`). `InputTyped` says what an input is made of.
`NormalizeIsRight`: after each component the path is what survives of the names read so far
(`Alive`), in order. For that a `..` has to cancel the last survivor and no other, which
`Balance` gives: after a survivor with `k` more behind it there are `k` more names than `..`s.
`PagesAreComplete` goes by the cookie from the end
backwards: a page takes the first entries due, and the rest are what is due from its last
entry on, so their orders put together (`InOrder`) are the order of them all.

The hand-over's texts are folds over folds: a text is split, each part cut at a
delimiter, the result added to a map. `TextInduction` is induction over a text's last
symbol, again for a set of texts. From it, for any text: what stands before the first
delimiter is the first part and the rest splits on its own (`SplitAt`), fields without a
delimiter survive being joined and split, and a text made of `p`, a pattern and `r` is
cut into `p` and `r` where the pattern is first, or last, found
(`SplitOnceAt`, `RSplitOnceAt`). `ConfigsArrive` then goes through the source path as the
parser does: the name has no `?` and no `/`, so both cuts are where the source path put
them; no field has `&` or `=`, so the parts are the pairs and each pair adds its own key
and value, whatever words are in it - the words typed may be keys themselves. `SecretsArrive`
needs that a secret without a comma is one part of one token; and, for a secret with one
that is read in the Keychain, that its first part already adds the key `secret`, which
no later part takes away. `MountsAreFound`: the device has no blank, so the first ` on `
is the separator; the folder may hold both ` on ` and ` (`, but after it ` (` stands once.
`ProbesAreRead`: no word before the message is a key, so the first key is the message's,
and its value ends at a blank whatever follows.

Checked by TLC only: `StaleListingsAreFoundOut`, `EveryCallReturns` and `EveryRefreshEnds`,
because liveness is outside the prover's reach; the safety half of the second is
`EveryCallGetsOn`.

## Not modelled

Modification times of objects, sizes in items, S3 configuration and OpenDAL's
internals (but for its repeats); attributes, the read handler, `statfs`, path
configuration, `synchronize` and the operations the volume refuses, which keep no state;
FSKit's probe of a resource and one container shared by several mounts;
splitting a path at `/`, the JSON text of the registry, wording of errors; the
creation and the checks of a mount folder; windows and forms while they are edited;
logging; launch at login and the command-line S3 check (wrappers of system calls);
FSKit's bindings, generated bindings and the extension's stub.

A size that a `read` or an item remembers across a racing truncate
(`backend/src/lib.rs:208`), what FSKit does with the item of a renamed file, and two
forms that save at once are listed as hazards without a property: for the first no text
says what a racing read may answer, the second is FSKit's and not visible here, and for
the third the code promises nothing.

## Plan

1. Done: `Path`, `Objects`, `MemStore`, `OpenDalBackend` with faults, repeats and its
   refinement, `DirVersions` with pages and proofs, `ItemCache` with hidden names,
   `Mounting` with proofs, `Handover`, `Enumeration`, `Health`, `AppModel` with proofs.
2. Done: proofs of every safety property of the backends, the directory versions, the
   item cache, the mounts and the application, of the refinement, and of the conversions,
   the hand-over's texts included.
3. Models next: `Volume`, namespace, items and versions composed, with removal racing a
   write; an abstract registry with atomic operations that `Mounting` implements where
   forms wait for each other; one container shared by several mounts.
