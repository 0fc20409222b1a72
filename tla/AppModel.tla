------------------------------ MODULE AppModel ------------------------------
(***************************************************************************)
(* The host application (xcode/host): what AppModel shows, the launch      *)
(* sequence, and what menus, windows and forms start.  Everything that     *)
(* assigns to the model runs on the main actor, one step at a time; the    *)
(* calls of the contract it awaits run detached, several at once.          *)
(*                                                                         *)
(* A call of the contract is one step here (Mounting has its steps), on    *)
(* the registry, the secrets and the mount table there are.                *)
(***************************************************************************)
EXTENDS Naturals

CONSTANTS Conn,          \* connections
          OnLaunch,      \* those to mount when launching
          Launch,        \* the launch task
          User,          \* the tasks the user's clicks start
          Unread, Shown, \* where a row's read is, when it holds no answer
          Worlds,        \* what there may be when the application starts
          MaxClicks      \* bound on what the user starts

ASSUME ConnAssumption == Conn # {} /\ OnLaunch \subseteq Conn
ASSUME ReadAssumption == Unread # Shown /\ \A S \in SUBSET Conn : S \notin {Unread, Shown}
ASSUME WorldsAssumption ==
    Worlds \subseteq [listed : SUBSET Conn, secret : SUBSET Conn, mounted : SUBSET Conn]
ASSUME UserAssumption == Launch \notin User
ASSUME ClicksAssumption == MaxClicks \in Nat

Actor == {Launch} \cup User
Row == {"connections", "mounts"}

VARIABLES listed,        \* the connections of the registry
          secret,        \* those that can be mounted without a prompt
          mounted,       \* those that are mounted
          enabled,       \* whether FSKit has the extension enabled
          report,        \* model.report
          rows,          \* model.connections and model.mounts
          check,         \* per task: its health check
          list,          \* per task: what its refreshConnections has read
          pc,            \* per task: what it does
          conn,          \* per task: the connection it works on
          todo, failed,  \* the launch's: connections still to mount, and failures
          prompts,       \* the connections a secret prompt is open for
          clicks,        \* how often the user has started something
          youngest,      \* (history) the task that last began refreshConnections
          by,            \* (history) per row: the task that last assigned it
          unannounced,   \* (history) rows changed with no refresh begun since or due
          touched        \* (history) connections the user has dealt with

world == <<listed, secret, mounted>>
refreshes == <<report, rows, check, list, youngest, by>>
launch == <<todo, failed>>
history == <<unannounced, touched>>
vars == <<world, enabled, refreshes, pc, conn, launch, prompts, clicks, history>>

Ops == {"mount", "unmount", "save", "delete", "submit"}
Steps == Ops \cup {"idle", "menu", "check", "auto", "mounting", "retrying", "refresh",
                   "listing", "alert"}

(* What a report says: ready, or anything else (Health tells them apart).  *)
Health == {"ready", "not ready"}

TypeOK ==
    /\ listed \subseteq Conn /\ secret \subseteq Conn /\ mounted \subseteq Conn
    /\ enabled \in BOOLEAN
    /\ report \in Health
    /\ rows \in [Row -> SUBSET Conn]
    /\ check \in [Actor -> Health \cup {"none", "asked", "probing"}]
    /\ list \in [Actor -> [Row -> (SUBSET Conn) \cup {Unread, Shown}]]
    /\ pc \in [Actor -> Steps]
    /\ conn \in [Actor -> Conn]
    /\ todo \subseteq Conn /\ failed \subseteq Conn /\ prompts \subseteq Conn
    /\ youngest \in Actor /\ by \in [Row -> Actor]
    /\ clicks \in 0..MaxClicks
    /\ unannounced \subseteq Row /\ touched \subseteq Conn

NoList == [r \in Row |-> Shown]

(* The launch has asked for a health check; nothing is shown yet. *)
Init ==
    /\ \E w \in Worlds : listed = w.listed /\ secret = w.secret /\ mounted = w.mounted
    /\ enabled \in BOOLEAN
    /\ report = "not ready"
    /\ rows = [r \in Row |-> {}]
    /\ check = [a \in Actor |-> IF a = Launch THEN "asked" ELSE "none"]
    /\ list = [a \in Actor |-> NoList]
    /\ pc = [a \in Actor |-> IF a = Launch THEN "check" ELSE "idle"]
    /\ conn \in [Actor -> {CHOOSE c \in Conn : TRUE}]
    /\ todo = {} /\ failed = {} /\ prompts = {} /\ clicks = 0
    /\ youngest = Launch /\ by = [r \in Row |-> Launch]
    /\ unannounced = Row /\ touched = {}

World(r) == IF r = "connections" THEN listed ELSE mounted

Goto(a, step) == pc' = [pc EXCEPT ![a] = step]

-----------------------------------------------------------------------------
(* refresh: FSKit may answer late or never; check waits CHECK_TIMEOUT.     *)
(* Where the extension is enabled, the check then has it answer a probe, a *)
(* mount of /_info, and for that it waits without a timeout.               *)

Answers(a) ==
    /\ check[a] = "asked"
    /\ check' = [check EXCEPT ![a] = IF enabled THEN "probing" ELSE "not ready"]
    /\ UNCHANGED <<world, enabled, report, rows, list, youngest, by, pc, conn, launch, prompts, clicks, history>>

Probed(a) ==
    /\ check[a] = "probing"
    /\ check' = [check EXCEPT ![a] = "ready"]
    /\ UNCHANGED <<world, enabled, report, rows, list, youngest, by, pc, conn, launch, prompts, clicks, history>>

MutantTimesOut(a) == UNCHANGED vars            \* check waits for FSKit for ever

TimesOut(a) ==
    /\ check[a] = "asked"
    /\ check' = [check EXCEPT ![a] = "not ready"]
    /\ UNCHANGED <<world, enabled, report, rows, list, youngest, by, pc, conn, launch, prompts, clicks, history>>

MutantReport(a) ==                             \* the report is assigned before there is one
    /\ check[a] # "none"
    /\ report' = check[a]
    /\ check' = [check EXCEPT ![a] = "none"]
    /\ pc' = IF a = Launch THEN [pc EXCEPT ![a] = IF report' = "ready" THEN "auto" ELSE "idle"] ELSE pc
    /\ UNCHANGED <<world, enabled, rows, list, youngest, by, conn, launch, prompts, clicks, history>>

(* The report is assigned; the launch goes on, in the same step, with the  *)
(* mounts only when it says ready.                                         *)
Report(a) ==
    /\ check[a] \in Health
    /\ report' = check[a]
    /\ check' = [check EXCEPT ![a] = "none"]
    /\ pc' = IF a = Launch THEN [pc EXCEPT ![a] = IF report' = "ready" THEN "auto" ELSE "idle"] ELSE pc
    /\ UNCHANGED <<world, enabled, rows, list, youngest, by, conn, launch, prompts, clicks, history>>

-----------------------------------------------------------------------------
(* refreshConnections: two detached reads, then two assignments.           *)

Begin(a) ==
    /\ list' = [list EXCEPT ![a] = [r \in Row |-> Unread]]
    /\ youngest' = a
    /\ unannounced' = {}

RefreshConnections(a) ==
    /\ pc[a] = "refresh"
    /\ Begin(a)
    /\ Goto(a, "listing")
    /\ UNCHANGED <<world, enabled, report, rows, check, by, conn, launch, prompts, clicks, touched>>

Read(a, r) ==
    /\ list[a][r] = Unread
    /\ list' = [list EXCEPT ![a][r] = World(r)]
    /\ UNCHANGED <<world, enabled, report, rows, check, youngest, by, pc, conn, launch, prompts, clicks, history>>

Show(a, r) ==
    /\ list[a][r] \notin {Unread, Shown}
    /\ r = "mounts" => list[a]["connections"] = Shown
    /\ rows' = [rows EXCEPT ![r] = list[a][r]]
    /\ by' = [by EXCEPT ![r] = a]
    /\ list' = [list EXCEPT ![a][r] = Shown]
    /\ UNCHANGED <<world, enabled, report, check, youngest, pc, conn, launch, prompts, clicks, history>>

(* What awaited the refresh goes on: the launch to its failures. *)
Refreshed(a) ==
    /\ pc[a] \in {"menu", "listing"} /\ check[a] = "none" /\ list[a] = NoList
    /\ Goto(a, IF a = Launch THEN "alert" ELSE "idle")
    /\ UNCHANGED <<world, enabled, refreshes, conn, launch, prompts, clicks, history>>

-----------------------------------------------------------------------------
(* What the user starts. *)

Starts(u) == pc[u] = "idle" /\ clicks < MaxClicks /\ clicks' = clicks + 1

OpenMenu(u) ==
    /\ Starts(u)
    /\ Begin(u)
    /\ check' = [check EXCEPT ![u] = "asked"]
    /\ Goto(u, "menu")
    /\ UNCHANGED <<world, enabled, report, rows, by, conn, launch, prompts, touched>>

(* The health window. *)
Recheck(u) ==
    /\ Starts(u)
    /\ check' = [check EXCEPT ![u] = "asked"]
    /\ Goto(u, "menu")
    /\ UNCHANGED <<world, enabled, report, rows, list, youngest, by, conn, launch, prompts, history>>

(* What the menu's rows offer, and the forms and prompts that are open. *)
Offered(op, c) ==
    /\ op = "mount" => c \in rows["connections"] \ rows["mounts"]
    /\ op = "unmount" => c \in rows["connections"] \cap rows["mounts"]
    /\ op = "delete" => c \in rows["connections"]
    /\ op = "submit" => c \in prompts

Click(u, op, c) ==
    /\ Starts(u) /\ Offered(op, c)
    /\ Goto(u, op)
    /\ conn' = [conn EXCEPT ![u] = c]
    /\ touched' = touched \cup {c}
    /\ UNCHANGED <<world, enabled, refreshes, launch, prompts, unannounced>>

(* The call throws, having changed nothing. *)
Throws(u) ==
    /\ pc[u] \in Ops
    /\ Goto(u, "idle")
    /\ UNCHANGED <<world, enabled, refreshes, conn, launch, prompts, clicks, history>>

MayMount(c) == c \in listed /\ c \notin mounted

Mount(u) ==
    /\ pc[u] = "mount"
    /\ LET c == conn[u] IN
       \/ /\ c \in secret /\ MayMount(c)
          /\ mounted' = mounted \cup {c}
          /\ Goto(u, "refresh") /\ UNCHANGED prompts
       \/ /\ c \in listed /\ (c \in secret => MayMount(c))  \* NeedsSecret: none, or refused
          /\ prompts' = prompts \cup {c}
          /\ Goto(u, "idle") /\ UNCHANGED mounted
    /\ UNCHANGED <<listed, secret, enabled, refreshes, conn, launch, clicks, history>>

Unmount(u) ==
    /\ pc[u] = "unmount"
    /\ conn[u] \in mounted /\ mounted' = mounted \ {conn[u]}
    /\ Goto(u, "refresh")
    /\ UNCHANGED <<listed, secret, enabled, refreshes, conn, launch, prompts, clicks, history>>

(* The secret is stored where asked, and removed from the disk where not,  *)
(* before the registry is written, which may fail.                         *)
Save(u) ==
    /\ pc[u] = "save"
    /\ secret' \in {secret, secret \cup {conn[u]}, secret \ {conn[u]}}
    /\ \/ listed' = listed \cup {conn[u]} /\ Goto(u, "refresh")
       \/ Goto(u, "idle") /\ UNCHANGED listed
    /\ UNCHANGED <<mounted, enabled, refreshes, conn, launch, prompts, clicks, history>>

MutantDelete(u) ==                             \* the form closes without a refresh
    /\ pc[u] = "delete"
    /\ mounted' = mounted \ {conn[u]}
    /\ listed' = listed \ {conn[u]} /\ secret' = secret \ {conn[u]}
    /\ Goto(u, "idle") /\ UNCHANGED unannounced
    /\ UNCHANGED <<enabled, refreshes, conn, launch, prompts, clicks, touched>>

(* It unmounts first, where it sees the mount; when the registry cannot be *)
(* written after that, the form shows the error and refreshes nothing.     *)
(* Whether its secret goes too is Mounting's question.                     *)
Delete(u) ==
    /\ pc[u] = "delete"
    /\ \/ /\ mounted' \in {mounted, mounted \ {conn[u]}}
          /\ listed' = listed \ {conn[u]} /\ secret' = secret \ {conn[u]}
          /\ Goto(u, "refresh") /\ UNCHANGED unannounced
       \/ /\ conn[u] \in mounted /\ mounted' = mounted \ {conn[u]}
          /\ unannounced' = unannounced \cup {"mounts"}
          /\ Goto(u, "idle") /\ UNCHANGED <<listed, secret>>
    /\ UNCHANGED <<enabled, refreshes, conn, launch, prompts, clicks, touched>>

(* The prompt: the secret is kept where asked, then used to mount. *)
Submit(u) ==
    /\ pc[u] = "submit"
    /\ conn[u] \in listed
    /\ secret' \in {secret, secret \cup {conn[u]}}
    /\ \/ /\ MayMount(conn[u]) /\ mounted' = mounted \cup {conn[u]}
          /\ prompts' = prompts \ {conn[u]}
          /\ Goto(u, "refresh")
       \/ Goto(u, "idle") /\ UNCHANGED <<mounted, prompts>>
    /\ UNCHANGED <<listed, enabled, refreshes, conn, launch, clicks, history>>

(* The user enables the extension in System Settings. *)
Enable ==
    /\ ~enabled /\ enabled' = TRUE
    /\ UNCHANGED <<world, refreshes, pc, conn, launch, prompts, clicks, history>>

-----------------------------------------------------------------------------
(* The launch sequence. *)

(* autoMountOnLaunch: what is flagged and not mounted. *)
AutoMount ==
    /\ pc[Launch] = "auto"
    /\ todo' = (OnLaunch \cap listed) \ mounted /\ failed' = {}
    /\ Goto(Launch, "mounting")
    /\ UNCHANGED <<world, enabled, refreshes, conn, prompts, clicks, history>>

(* Without a secret it is skipped. *)
AutoMountNext(c) ==
    /\ pc[Launch] = "mounting" /\ c \in todo
    /\ todo' = todo \ {c}
    /\ \/ c \in secret \ mounted /\ mounted' = mounted \cup {c} /\ UNCHANGED failed
       \/ c \in secret /\ failed' = failed \cup {c} /\ UNCHANGED mounted
       \/ c \notin secret /\ UNCHANGED <<mounted, failed>>
    /\ UNCHANGED <<listed, secret, enabled, refreshes, pc, conn, prompts, clicks, history>>

Retry ==
    /\ pc[Launch] = "alert" /\ failed # {}
    /\ todo' = failed /\ failed' = {}
    /\ Goto(Launch, "retrying")
    /\ UNCHANGED <<world, enabled, refreshes, conn, prompts, clicks, history>>

(* retryMounts: a secret that is missing is a failure like any other. *)
RetryNext(c) ==
    /\ pc[Launch] = "retrying" /\ c \in todo
    /\ todo' = todo \ {c}
    /\ \/ c \in secret /\ MayMount(c) /\ mounted' = mounted \cup {c} /\ UNCHANGED failed
       \/ failed' = failed \cup {c} /\ UNCHANGED mounted
    /\ UNCHANGED <<listed, secret, enabled, refreshes, pc, conn, prompts, clicks, history>>

MountsTried ==
    /\ pc[Launch] \in {"mounting", "retrying"} /\ todo = {}
    /\ Goto(Launch, "refresh")
    /\ UNCHANGED <<world, enabled, refreshes, conn, launch, prompts, clicks, history>>

MutantRestartAndRetry ==                       \* only what had failed is mounted again
    /\ pc[Launch] = "alert" /\ failed # {}
    /\ mounted' = {}
    /\ todo' = failed /\ failed' = {}
    /\ Goto(Launch, "retrying")
    /\ UNCHANGED <<listed, secret, enabled, refreshes, conn, prompts, clicks, history>>

(* Restarting fskitd drops every mount; all that is flagged is mounted     *)
(* again.  When it fails the alert is back.                                *)
RestartAndRetry ==
    /\ pc[Launch] = "alert" /\ failed # {}
    /\ mounted' = {}
    /\ Goto(Launch, "auto")
    /\ UNCHANGED <<listed, secret, enabled, refreshes, conn, launch, prompts, clicks, history>>

Dismiss ==
    /\ pc[Launch] = "alert" /\ failed # {}
    /\ failed' = {}
    /\ touched' = touched \cup failed
    /\ UNCHANGED <<world, enabled, refreshes, pc, conn, todo, prompts, clicks, unannounced>>

(* Prompts for what is flagged and still lacks its secret. *)
PromptForSecrets ==
    /\ pc[Launch] = "alert" /\ failed = {}
    /\ prompts' = prompts \cup ((OnLaunch \cap listed) \ secret)
    /\ Goto(Launch, "idle")
    /\ UNCHANGED <<world, enabled, refreshes, conn, launch, clicks, history>>

-----------------------------------------------------------------------------
LaunchNext ==
    \/ AutoMount \/ MountsTried \/ Retry \/ RestartAndRetry \/ Dismiss \/ PromptForSecrets
    \/ \E c \in Conn : AutoMountNext(c) \/ RetryNext(c)

UserNext(u) ==
    \/ OpenMenu(u) \/ Recheck(u) \/ \E op \in Ops, c \in Conn : Click(u, op, c)
    \/ Throws(u) \/ Mount(u) \/ Unmount(u) \/ Save(u) \/ Delete(u) \/ Submit(u)

(* The steps of a refresh that need nobody but the application. *)
RefreshNext(a) ==
    \/ TimesOut(a) \/ Report(a) \/ RefreshConnections(a) \/ Refreshed(a)
    \/ \E r \in Row : Read(a, r) \/ Show(a, r)

Next ==
    \/ \E a \in Actor : Answers(a) \/ Probed(a) \/ RefreshNext(a)
    \/ \E u \in User : UserNext(u)
    \/ LaunchNext \/ Enable

(* Detached tasks and the main actor's turns are scheduled, a receive with *)
(* a timeout returns, and so do the files and programs a refresh reads     *)
(* (connections.json, /sbin/mount); that FSKit answers, or the extension   *)
(* the probe, is not assumed.                                              *)
Spec == Init /\ [][Next]_vars /\ \A a \in Actor : WF_vars(RefreshNext(a))

-----------------------------------------------------------------------------
(* Properties. *)

Quiet == \A a \in Actor : pc[a] \in {"idle", "check", "alert"}

(* "the rows reflect the latest state" (App.swift), with the exception the *)
(* code leaves: with nothing under way, a row shows what there is, unless  *)
(* a change of it was never followed by a refresh (a delete that failed    *)
(* after its unmount), or an older refresh's assignment came last.         *)
OnlyOvertakenRowsAreStale ==
    Quiet => \A r \in Row :
        r \notin unannounced /\ by[r] = youngest => rows[r] = World(r)

(* The launch sequence leaves none of the connections flagged for it       *)
(* behind, through any number of retries and restarts: at its end each is  *)
(* mounted, or prompted for, or the user has dealt with it or dismissed    *)
(* its failure.                                                            *)
LaunchLeavesNoneBehind ==
    [][PromptForSecrets =>
         (OnLaunch \cap listed) \ touched \subseteq mounted' \cup prompts']_vars

(* A refresh's reads end and are shown, and its health check ends though   *)
(* FSKit may never answer ("On timeout we report an error rather than      *)
(* hang", health.rs): again and again a task waits for neither.  Only for  *)
(* the extension's answer to the probe, which has no timeout, it may wait  *)
(* for ever.                                                               *)
EveryRefreshEnds ==
    \A a \in Actor : []<>(check[a] \in {"none", "probing"} /\ list[a] = NoList)
=============================================================================
