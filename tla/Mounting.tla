------------------------------ MODULE Mounting ------------------------------
(***************************************************************************)
(* The application's operations on connections (app/src/ffi.rs): save,     *)
(* delete, mount, unmount, auto-mount, restart, quit; and what the         *)
(* extension does when one is mounted (ext/src/lib.rs load, volume.rs      *)
(* activate).  They run on detached tasks and share, without a lock, the   *)
(* registry file, the Keychain, the secrets on disk and the system's mount *)
(* table.  A step is one access of one of these.                           *)
(*                                                                         *)
(* Validation of fields and the texts of source paths and options are left *)
(* out; a check of the network, of a folder or of a field just may fail.   *)
(***************************************************************************)
EXTENDS Naturals, FiniteSets

CONSTANTS Name,          \* names of connections
          Memory,        \* the name of the built-in connection
          Folder,        \* mount folders a user may choose
          Secret, NoSecret,
          Cut,           \* the secret read back from a file whose writing was cut short
          Form,          \* what users fill in
          Task,          \* detached tasks of the application
          Signed,        \* whether the extension can read the app's Keychain items
          Serial         \* whether operations on related connections wait for each other

ASSUME NameAssumption == Memory \in Name /\ Folder \cap Name = {} /\ NoSecret \notin Secret /\ Cut \in Secret
ASSUME FormAssumption ==
    Form \subseteq [name : Name, s3 : BOOLEAN, secret : Secret \cup {NoSecret},
                    keychain : BOOLEAN, disk : BOOLEAN, launch : BOOLEAN,
                    point : Name \cup Folder]

(* Mount points: ~/fskit-s3/<name>, and folders. *)
Place == Name \cup Folder

Connection == [s3 : BOOLEAN, keychain : BOOLEAN, disk : BOOLEAN, launch : BOOLEAN, point : Place]

Registry == UNION {[S -> Connection] : S \in SUBSET Name}

(* Connection::from_form: a memory connection keeps no secret. *)
FromForm(f) == [s3 |-> f.s3, keychain |-> f.s3 /\ f.keychain, disk |-> f.s3 /\ f.disk,
                launch |-> f.launch, point |-> f.point]

WithDefaults == [n \in {Memory} |->
    [s3 |-> FALSE, keychain |-> FALSE, disk |-> FALSE, launch |-> FALSE, point |-> n]]

VARIABLES file,          \* connections.json
          keychain,      \* the secret of each name in the Keychain
          disk,          \* and in secrets/
          table,         \* the mount table: what is mounted where
          container,     \* the container state the extension reported for a resource
          deleted,       \* (history) names but Memory deleted and not saved since
          left,          \* (history) the stores a delete could not remove a name's secret from
          asked,         \* names for whose secret a prompt is open
          task           \* what each task does

stores == <<keychain, disk>>
system == <<table, container>>
history == <<deleted, left>>
vars == <<file, stores, system, history, asked, task>>

Idle == [pc |-> "idle"]
NoMount == [name |-> "none"]
NoneListed == [n \in {} |-> WithDefaults[Memory]]
Torn == [readable |-> FALSE, list |-> NoneListed]

(* A file that is absent or does not parse is taken for a fresh install. *)
Load == IF file.readable THEN file.list ELSE WithDefaults

Writers == {"create", "edit", "delete"}
Ops == Writers \cup {"mount", "prompt", "unmount", "auto", "quit", "restart"}
Steps == Ops \cup {"store", "store on disk", "list", "write", "fill", "unmount first",
                   "forget", "forget on disk", "keep", "keep on disk", "load", "activate", "next"}

(* The backend a volume has: none yet, the demo, or S3 with a secret. *)
Backend == Secret \cup {"none", "memory"}

Job == [pc : Steps, op : Ops, name : Name, form : Form \cup {NoSecret}, conn : Connection,
        list : Registry, todo : SUBSET Place, secret : Secret \cup {NoSecret},
        place : Place, backend : Backend]

(* stray (history): its connection was saved with another folder, or its   *)
(* delete could not list the mounts.                                       *)
Mounted == [name : Name, backend : Backend \ {"none"}, stray : BOOLEAN]

TypeOK ==
    /\ file \in [readable : BOOLEAN, list : Registry]
    /\ keychain \in [Name -> Secret \cup {NoSecret}]
    /\ disk \in [Name -> Secret \cup {NoSecret}]
    /\ table \in [Place -> {NoMount} \cup Mounted]
    /\ container \in [Name -> {"notReady", "ready"}]
    /\ deleted \subseteq Name \ {Memory} /\ asked \subseteq Name
    /\ left \subseteq Name \X {"keychain", "disk"}
    /\ task \in [Task -> {Idle} \cup Job]

Init ==
    /\ file = Torn
    /\ keychain = [n \in Name |-> NoSecret]
    /\ disk = [n \in Name |-> NoSecret]
    /\ table = [p \in Place |-> NoMount]
    /\ container = [n \in Name |-> "notReady"]
    /\ deleted = {} /\ left = {} /\ asked = {}
    /\ task = [t \in Task |-> Idle]

-----------------------------------------------------------------------------
(* Calls. *)

(* Not code: with Serial, one form saves or deletes at a time, and nothing *)
(* else works on its connection meanwhile.                                 *)
All == {"auto", "quit", "restart"}
WorksOn(op, n) == IF op \in All THEN Name ELSE {n}
Apart(op, n) ==
    Serial => \A u \in Task : task[u] # Idle /\ (op \in Writers \/ task[u].op \in Writers) =>
        /\ WorksOn(op, n) \cap WorksOn(task[u].op, task[u].name) = {}
        /\ ~(op \in Writers /\ task[u].op \in Writers)

(* What is listed can be edited and deleted; menus and prompts for mounts  *)
(* may be older than the registry.  A form without a secret is one that    *)
(* keeps the stored one.                                                   *)
Offered(op, n, f) ==
    /\ op \in {"edit", "delete"} => n \in DOMAIN Load
    /\ op = "prompt" => n \in asked
    /\ op \in All => n = Memory
    /\ IF op \in {"create", "edit", "prompt"} THEN f \in Form /\ f.name = n ELSE f = NoSecret
    /\ op = "create" => (f.s3 => f.secret # NoSecret)
    /\ op = "prompt" => f.secret # NoSecret

At(t, step) == task[t].pc = step
Becomes(t, job) == task' = [task EXCEPT ![t] = job]
Goto(t, step) == Becomes(t, [task[t] EXCEPT !.pc = step])

Called(op, n, f) ==
    [pc |-> op, op |-> op, name |-> n, form |-> f, conn |-> WithDefaults[Memory],
     list |-> NoneListed, todo |-> {}, secret |-> NoSecret, place |-> n, backend |-> "none"]

Call(t, op, n, f) ==
    /\ task[t] = Idle
    /\ Offered(op, n, f) /\ Apart(op, n)
    /\ Becomes(t, Called(op, n, f))
    /\ \/ /\ op \in {"create", "edit"}
          /\ deleted' = deleted \ {n} /\ left' = {x \in left : x[1] # n}
       \/ op \notin {"create", "edit"} /\ UNCHANGED history
    /\ UNCHANGED <<file, stores, system, asked>>

(* The call returns; auto_mount_on_launch goes on to the next connection. *)
Returned(job) == IF job.op = "auto" THEN [job EXCEPT !.pc = "next"] ELSE Idle
Return(t) == Becomes(t, Returned(task[t]))

-----------------------------------------------------------------------------
(* save_connection. *)

(* store_secret and store; NoSecret deletes.                               *)
StoreInKeychain(n, secret) == keychain' = [keychain EXCEPT ![n] = secret]
StoreOnDisk(n, secret) == disk' = [disk EXCEPT ![n] = secret]

(* keep_stored_secret looks in the Keychain first.  Any of the checks up   *)
(* to the listing of the bucket may fail.                                  *)
SaveCheck(t) ==
    /\ At(t, "create") \/ At(t, "edit")
    /\ LET f == task[t].form
           n == task[t].name
           stored == IF keychain[n] # NoSecret THEN keychain[n] ELSE disk[n]
           secret == IF f.secret = NoSecret THEN stored ELSE f.secret
       IN  \/ Return(t)
           \/ /\ f.s3 => secret # NoSecret
              /\ Becomes(t, [task[t] EXCEPT !.secret = secret, !.conn = FromForm(f),
                                            !.pc = IF f.s3 THEN "store" ELSE "list"])
    /\ UNCHANGED <<file, stores, system, history, asked>>

MutantSaveKeychain(t) ==                       \* a failed save is ignored
    /\ At(t, "store")
    /\ keychain' \in {keychain, [keychain EXCEPT ![task[t].name] =
                         IF task[t].form.keychain THEN task[t].secret ELSE @]}
    /\ Goto(t, "store on disk")
    /\ UNCHANGED <<file, disk, system, history, asked>>

SaveKeychain(t) ==
    /\ At(t, "store")
    /\ \/ task[t].form.keychain /\ Return(t) /\ UNCHANGED keychain
       \/ /\ task[t].form.keychain
          /\ StoreInKeychain(task[t].name, task[t].secret)
          /\ Goto(t, "store on disk")
       \/ ~task[t].form.keychain /\ Goto(t, "store on disk") /\ UNCHANGED keychain
    /\ UNCHANGED <<file, disk, system, history, asked>>

(* The file is truncated, then filled: a store that fails, or the death of *)
(* the application, may leave it cut short.  A delete's failure is not     *)
(* noticed.                                                                *)
SaveDisk(t) ==
    /\ At(t, "store on disk")
    /\ \/ /\ task[t].form.disk
          /\ UNCHANGED disk \/ StoreOnDisk(task[t].name, Cut)
          /\ Return(t)
       \/ /\ task[t].form.disk
          /\ StoreOnDisk(task[t].name, task[t].secret)
          /\ Goto(t, "list")
       \/ /\ ~task[t].form.disk
          /\ UNCHANGED disk \/ StoreOnDisk(task[t].name, NoSecret)
          /\ Goto(t, "list")
    /\ UNCHANGED <<file, keychain, system, history, asked>>

(* Registry::load, and remove and add; a new name must be free. *)
SaveList(t) ==
    /\ At(t, "list")
    /\ \/ task[t].op = "create" /\ task[t].name \in DOMAIN Load /\ Return(t)
       \/ /\ task[t].op = "create" => task[t].name \notin DOMAIN Load
          /\ Becomes(t, [task[t] EXCEPT !.pc = "write",
                 !.list = [n \in DOMAIN Load \cup {task[t].name} |->
                               IF n = task[t].name THEN task[t].conn ELSE Load[n]]])
    /\ UNCHANGED <<file, stores, system, history, asked>>

(* The mount table after n's mounts at these places went astray (history). *)
Astray(n, places) ==
    [p \in Place |-> IF p \in places /\ table[p] # NoMount /\ table[p].name = n
                     THEN [table[p] EXCEPT !.stray = TRUE] ELSE table[p]]

(* Registry::save: fs::write truncates the file, then fills it. *)
Write(t) ==
    /\ At(t, "write")
    /\ \/ Return(t) /\ UNCHANGED file
       \/ file' = Torn /\ Goto(t, "fill")
    /\ UNCHANGED <<stores, system, history, asked>>

Fill(t) ==
    /\ At(t, "fill")
    /\ LET n == task[t].name IN
       \/ Return(t) /\ UNCHANGED <<file, table>>
       \/ /\ file' = [readable |-> TRUE, list |-> task[t].list]
          /\ IF task[t].op = "delete"
             THEN Goto(t, "forget") /\ UNCHANGED table
             ELSE Return(t) /\ table' = Astray(n, Place \ {task[t].list[n].point})
    /\ UNCHANGED <<stores, container, history, asked>>

-----------------------------------------------------------------------------
(* Unmounting. *)

SetContainerState(n, state) == container' = [container EXCEPT ![n] = state]

(* diskutil unmount; the extension's unload makes the container notReady. *)
Unmounted(p) ==
    /\ table[p] # NoMount
    /\ table' = [table EXCEPT ![p] = NoMount]
    /\ SetContainerState(table[p].name, "notReady")

(* mounts::list_fskit: no mounts when the table cannot be listed. *)
MountsSeen == {{p \in Place : table[p] # NoMount}, {}}

(* It fails when a file is in use, or nothing is mounted. *)
Unmount(t) ==
    /\ At(t, "unmount")
    /\ LET p == IF task[t].name \in DOMAIN Load THEN Load[task[t].name].point ELSE task[t].name
       IN  Unmounted(p) \/ UNCHANGED system
    /\ Return(t)
    /\ UNCHANGED <<file, stores, history, asked>>

(* restart_fskitd, if the user lets it: every mount is gone, and one that  *)
(* is being made fails.                                                    *)
Restart(t) ==
    /\ At(t, "restart")
    /\ \/ Return(t) /\ UNCHANGED system
       \/ /\ table' = [p \in Place |-> NoMount]
          /\ container' = [n \in Name |-> "notReady"]
          /\ task' = [u \in Task |-> IF u = t \/ task[u].pc \in {"load", "activate"}
                                    THEN Returned(task[u]) ELSE task[u]]
    /\ UNCHANGED <<file, stores, history, asked>>

(* unmount_all_on_quit goes through the mounts it saw; then the            *)
(* application is gone, with whatever its tasks were doing.                *)
Quit(t) ==
    /\ At(t, "quit")
    /\ \E seen \in MountsSeen : Becomes(t, [task[t] EXCEPT !.pc = "next", !.todo = seen])
    /\ UNCHANGED <<file, stores, system, history, asked>>

QuitNext(t) ==
    /\ At(t, "next") /\ task[t].op = "quit"
    /\ \E p \in task[t].todo :
           /\ Unmounted(p) \/ UNCHANGED system
           /\ Becomes(t, [task[t] EXCEPT !.todo = @ \ {p}])
    /\ UNCHANGED <<file, stores, history, asked>>

-----------------------------------------------------------------------------
(* delete_connection. *)

MutantDeleteLook(t) ==                         \* a mount at the default place only
    /\ At(t, "delete")
    /\ LET n == task[t].name IN
       Becomes(t, [task[t] EXCEPT !.list = [m \in DOMAIN Load \ {n} |-> Load[m]], !.place = n,
                                  !.pc = IF table[n] # NoMount THEN "unmount first" ELSE "write"])
    /\ UNCHANGED <<file, stores, system, history, asked>>

(* Without a list of the mounts it goes on as if there were none. *)
DeleteLook(t) ==
    /\ At(t, "delete")
    /\ LET n == task[t].name
           place == IF n \in DOMAIN Load THEN Load[n].point ELSE n
           looked == [task[t] EXCEPT !.list = [m \in DOMAIN Load \ {n} |-> Load[m]], !.place = place]
       IN  \E seen \in MountsSeen :
           /\ Becomes(t, [looked EXCEPT !.pc =
                  IF n \in DOMAIN Load /\ place \in seen THEN "unmount first" ELSE "write"])
           /\ table' = IF seen = {} THEN Astray(n, Place) ELSE table
    /\ UNCHANGED <<file, stores, container, history, asked>>

DeleteUnmount(t) ==
    /\ At(t, "unmount first")
    /\ \/ Unmounted(task[t].place) /\ Goto(t, "write")
       \/ Return(t) /\ UNCHANGED system
    /\ UNCHANGED <<file, stores, history, asked>>

(* delete_secret and delete: a failure goes unnoticed, and the delete is   *)
(* answered Ok.                                                            *)
Forgotten(n, where) == left' = left \ {<<n, where>>}
NotForgotten(n, where) == left' = left \cup {<<n, where>>}

DeleteKeychain(t) ==
    /\ At(t, "forget")
    /\ LET n == task[t].name IN
       \/ StoreInKeychain(n, NoSecret) /\ Forgotten(n, "keychain")
       \/ keychain[n] # NoSecret /\ UNCHANGED keychain /\ NotForgotten(n, "keychain")
    /\ Goto(t, "forget on disk")
    /\ UNCHANGED <<file, disk, system, deleted, asked>>

DeleteDisk(t) ==
    /\ At(t, "forget on disk")
    /\ LET n == task[t].name IN
       /\ \/ StoreOnDisk(n, NoSecret) /\ Forgotten(n, "disk")
          \/ disk[n] # NoSecret /\ UNCHANGED disk /\ NotForgotten(n, "disk")
       /\ deleted' = deleted \cup ({n} \ {Memory})
    /\ Return(t)
    /\ UNCHANGED <<file, keychain, system, asked>>

-----------------------------------------------------------------------------
(* mount_connection, mount_with_secret, auto_mount_on_launch. *)

(* secret_plan: the secret on disk first. *)
SecretPlan(n) == IF disk[n] # NoSecret THEN disk[n] ELSE keychain[n]

MayMount(n, c) == c.s3 => SecretPlan(n) # NoSecret

(* mounts::mount of connection c with a secret for -o. *)
ToMount(job, n, c, secret, step) ==
    [job EXCEPT !.pc = step, !.name = n, !.conn = c, !.place = c.point,
                !.secret = IF c.s3 THEN secret ELSE NoSecret, !.backend = "none"]

MountPlan(t) ==
    /\ At(t, "mount")
    /\ LET n == task[t].name IN
       \/ n \notin DOMAIN Load /\ Return(t) /\ UNCHANGED asked
       \/ /\ n \in DOMAIN Load /\ ~MayMount(n, Load[n])
          /\ Return(t) /\ asked' = asked \cup {n}
       \/ /\ n \in DOMAIN Load /\ MayMount(n, Load[n])
          /\ Becomes(t, ToMount(task[t], n, Load[n], SecretPlan(n), "load")) /\ UNCHANGED asked
    /\ UNCHANGED <<file, stores, system, history>>

PromptPlan(t) ==
    /\ At(t, "prompt")
    /\ LET n == task[t].name IN
       IF n \in DOMAIN Load
       THEN Becomes(t, ToMount(task[t], n, Load[n], task[t].form.secret, "keep"))
       ELSE Return(t)
    /\ UNCHANGED <<file, stores, system, history, asked>>

(* The typed secret is kept where asked, if it can be. *)
PromptKeychain(t) ==
    /\ At(t, "keep")
    /\ \/ /\ task[t].form.keychain
          /\ StoreInKeychain(task[t].name, task[t].form.secret)
       \/ UNCHANGED keychain
    /\ Goto(t, "keep on disk")
    /\ UNCHANGED <<file, disk, system, history, asked>>

PromptDisk(t) ==
    /\ At(t, "keep on disk")
    /\ \/ task[t].form.disk /\ \E secret \in {task[t].form.secret, Cut} : StoreOnDisk(task[t].name, secret)
       \/ UNCHANGED disk
    /\ Goto(t, "load")
    /\ UNCHANGED <<file, keychain, system, history, asked>>

(* One snapshot of the mounts and of the registry, then one mount after    *)
(* the other; a connection without a secret is skipped, and later prompted *)
(* for (pending_secret_mounts_on_launch).                                  *)
AutoMount(t) ==
    /\ At(t, "auto")
    /\ \E seen \in MountsSeen :
       Becomes(t, [task[t] EXCEPT !.pc = "next", !.list = Load,
           !.todo = {n \in DOMAIN Load : Load[n].launch /\ Load[n].point \notin seen}])
    /\ UNCHANGED <<file, stores, system, history, asked>>

AutoNext(t) ==
    /\ At(t, "next") /\ task[t].op = "auto"
    /\ \E n \in task[t].todo :
       LET rest == [task[t] EXCEPT !.todo = @ \ {n}]
           c == task[t].list[n]
       IN  \/ /\ MayMount(n, c)
              /\ Becomes(t, ToMount(rest, n, c, SecretPlan(n), "load"))
              /\ UNCHANGED asked
           \/ ~MayMount(n, c) /\ Becomes(t, rest) /\ asked' = asked \cup {n}
    /\ UNCHANGED <<file, stores, system, history>>

AutoDone(t) ==
    /\ At(t, "next") /\ task[t].op = "auto" /\ task[t].todo = {}
    /\ Becomes(t, Idle)
    /\ UNCHANGED <<file, stores, system, history, asked>>

-----------------------------------------------------------------------------
(* The extension: mount(8) has it load the source path, then activate.     *)

ExtensionSecret(n) == IF Signed THEN keychain[n] ELSE NoSecret

(* build_backend for a source path; "none" is NeedSecret. *)
Built(n, c, secret) ==
    IF ~c.s3 THEN "memory"
    ELSE IF ExtensionSecret(n) # NoSecret THEN ExtensionSecret(n)
    ELSE IF secret # NoSecret THEN secret ELSE "none"

(* loadResource.  The secret option is not there yet.                      *)
LoadResource(t) ==
    /\ At(t, "load") /\ table[task[t].place] = NoMount
    /\ Becomes(t, [task[t] EXCEPT !.pc = "activate",
                                  !.backend = Built(task[t].name, task[t].conn, NoSecret)])
    /\ SetContainerState(task[t].name, "ready")
    /\ UNCHANGED <<file, stores, table, history, asked>>

(* mount(8) finds the place taken, or there is no thread for a runtime:    *)
(* the state stays; or the backend cannot be built.                        *)
LoadFails(t) ==
    /\ At(t, "load")
    /\ \/ UNCHANGED container
       \/ SetContainerState(task[t].name, "notReady")
    /\ Return(t)
    /\ UNCHANGED <<file, stores, table, history, asked>>

(* What activate finishes a deferred build with: load's backend, or the    *)
(* Keychain again, or the option.                                          *)
Resolved(t) == IF task[t].backend # "none" THEN task[t].backend
               ELSE Built(task[t].name, task[t].conn, task[t].secret)

MutantActivateFails(t) ==                      \* the container is not signalled
    /\ At(t, "activate") /\ (task[t].backend = "none" \/ table[task[t].place] # NoMount)
    /\ Return(t)
    /\ UNCHANGED <<file, stores, system, history, asked>>

MutantActivate(t) ==                           \* NeedSecret is taken for success
    /\ At(t, "activate") /\ table[task[t].place] = NoMount
    /\ table' = [table EXCEPT ![task[t].place] =
           [name |-> task[t].name, backend |-> task[t].backend, stray |-> FALSE]]
    /\ Return(t)
    /\ UNCHANGED <<file, stores, container, history, asked>>

Activate(t) ==
    /\ At(t, "activate") /\ table[task[t].place] = NoMount /\ Resolved(t) # "none"
    /\ table' = [table EXCEPT ![task[t].place] =
           [name |-> task[t].name, backend |-> Resolved(t), stray |-> FALSE]]
    /\ Return(t)
    /\ UNCHANGED <<file, stores, container, history, asked>>

(* A deferred build fails: the container goes back to notReady.  So it     *)
(* does when the place has been taken: the system unloads the resource.    *)
ActivateFails(t) ==
    /\ At(t, "activate") /\ (task[t].backend = "none" \/ table[task[t].place] # NoMount)
    /\ SetContainerState(task[t].name, "notReady")
    /\ Return(t)
    /\ UNCHANGED <<file, stores, table, history, asked>>

-----------------------------------------------------------------------------
(* The application dies; a mount it has asked for goes on. *)
Dead(t) ==
    IF task[t] # Idle /\ task[t].pc \in {"load", "activate"}
    THEN [task[t] EXCEPT !.op = "mount", !.todo = {}] ELSE Idle

Dies == task' = [t \in Task |-> Dead(t)] /\ asked' = {}

Kill ==
    /\ Dies
    /\ UNCHANGED <<file, stores, system, history>>

QuitDone(t) ==
    /\ At(t, "next") /\ task[t].op = "quit" /\ task[t].todo = {}
    /\ Dies
    /\ UNCHANGED <<file, stores, system, history>>

-----------------------------------------------------------------------------
Operate(t) ==
    \/ SaveCheck(t) \/ SaveKeychain(t) \/ SaveDisk(t) \/ SaveList(t) \/ Write(t) \/ Fill(t)
    \/ Unmount(t) \/ Restart(t) \/ Quit(t) \/ QuitNext(t) \/ QuitDone(t)
    \/ DeleteLook(t) \/ DeleteUnmount(t) \/ DeleteKeychain(t) \/ DeleteDisk(t)
    \/ MountPlan(t) \/ PromptPlan(t) \/ PromptKeychain(t) \/ PromptDisk(t)
    \/ AutoMount(t) \/ AutoNext(t) \/ AutoDone(t)
    \/ LoadResource(t) \/ LoadFails(t) \/ Activate(t) \/ ActivateFails(t)

Next ==
    \/ \E t \in Task : Operate(t)
    \/ \E t \in Task, op \in Ops, n \in Name, f \in Form \cup {NoSecret} : Call(t, op, n, f)
    \/ Kill

Spec == Init /\ [][Next]_vars

-----------------------------------------------------------------------------
(* Properties. *)

(* A listed connection that says its secret is in the Keychain has it      *)
(* there, whatever step of a save, a delete or a prompt failed or was cut  *)
(* short by the death of the application: a save stores the secret before  *)
(* it lists the connection, a delete forgets it after.                     *)
KeychainFlagIsTrue ==
    \A n \in DOMAIN Load : Load[n].keychain => keychain[n] # NoSecret

(* A connection whose delete was answered Ok leaves nothing but what that  *)
(* delete could not remove or see: a secret only in a store that refused   *)
(* to delete it, a mount only where an edit had moved the folder away or   *)
(* the mounts could not be listed.  Nothing that goes on afterwards, for   *)
(* other connections or with an older menu, brings back more of it, where  *)
(* operations on it wait for each other.  The built-in one is excepted: it *)
(* is back, and can be mounted, whenever the file is read while another    *)
(* task rewrites it.                                                       *)
DeletedIsGone ==
    \A n \in deleted :
        /\ keychain[n] # NoSecret => <<n, "keychain">> \in left
        /\ disk[n] # NoSecret => <<n, "disk">> \in left
        /\ \A p \in Place : table[p] # NoMount /\ table[p].name = n => table[p].stray

(* A container is ready only while its volume is served or on its way: a   *)
(* failed activation signals it notReady ("instead of leaving the instance *)
(* stuck", ext/src/lib.rs), also when the application died meanwhile.      *)
ReadyMeansServed ==
    \A n \in Name : container[n] = "ready" =>
        \/ \E p \in Place : table[p] # NoMount /\ table[p].name = n
        \/ \E t \in Task : At(t, "activate") /\ task[t].name = n

-----------------------------------------------------------------------------
(* What the comments say. *)

(* app/src/ffi.rs, SecretPlan: the secret the application found, the one   *)
(* on disk first, is "passed to the mount as -o secret", and where the     *)
(* extension ignores it "nothing is lost": the volume serves with it.      *)
SuppliedSecretIsUsed ==
    [][\A t \in Task : Activate(t) /\ task[t].secret # NoSecret =>
         table'[task[t].place].backend = task[t].secret]_vars
=============================================================================
