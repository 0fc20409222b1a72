--------------------------- MODULE MountingProofs ---------------------------
(***************************************************************************)
(* What the connections' operations keep true, for any connections,        *)
(* folders, secrets, forms and tasks, through failed steps and deaths of   *)
(* the application.                                                        *)
(***************************************************************************)
EXTENDS Mounting, TLAPS

USE DEF history

-----------------------------------------------------------------------------
(* Jobs.  The type of a step needs more than Job says: a form where one is *)
(* read, and a snapshot that lists what is still to be mounted.            *)

Does(job) ==
    /\ job.pc \in Ops => job.op = job.pc
    /\ job.pc \in {"store", "store on disk", "list"} => job.op \in {"create", "edit"}
    /\ job.pc \in {"write", "fill"} => job.op \in Writers
    /\ job.pc \in {"unmount first", "forget", "forget on disk"} => job.op = "delete"
    /\ job.pc \in {"keep", "keep on disk"} => job.op = "prompt"
    /\ job.op \in {"create", "edit", "prompt"} => job.form \in Form
    /\ job.op = "auto" => job.todo \subseteq DOMAIN job.list

GoodJob == {job \in Job : Does(job)}

JobsInv == TypeOK /\ task \in [Task -> {Idle} \cup GoodJob]

LEMMA Empty == NoneListed \in Registry /\ WithDefaults \in Registry /\ WithDefaults[Memory] \in Connection
<1>1. WithDefaults[Memory] \in Connection
  BY NameAssumption DEF WithDefaults, Connection, Place
<1>2. NoneListed \in [{} -> Connection]
  BY DEF NoneListed
<1>3. WithDefaults \in [{Memory} -> Connection]
  BY NameAssumption DEF WithDefaults, Connection, Place
<1>4. {} \in SUBSET Name /\ {Memory} \in SUBSET Name
  BY NameAssumption
<1> QED BY <1>1, <1>2, <1>3, <1>4 DEF Registry

LEMMA Loaded == ASSUME TypeOK PROVE Load \in Registry
  BY Empty DEF TypeOK, Load

LEMMA Listed == ASSUME NEW r \in Registry PROVE
    /\ DOMAIN r \subseteq Name
    /\ \A n \in DOMAIN r : r[n] \in Connection
  BY DEF Registry

LEMMA Lists ==
    ASSUME NEW S \in SUBSET Name, NEW r, r = [n \in S |-> r[n]], \A n \in S : r[n] \in Connection
    PROVE  r \in Registry
<1>1. r \in [S -> Connection]
  OBVIOUS
<1> QED BY <1>1 DEF Registry

LEMMA Working ==
    ASSUME JobsInv, NEW t \in Task, NEW s \in Steps, At(t, s)
    PROVE  task[t] \in GoodJob /\ task[t] \in Job /\ Does(task[t]) /\ task[t].pc = s
<1>1. s # "idle"
  BY DEF Steps, Ops, Writers
<1>2. task[t] # Idle
  BY <1>1 DEF At, Idle
<1>3. task[t] \in GoodJob
  BY <1>2 DEF JobsInv
<1> QED BY <1>3 DEF At, GoodJob

LEMMA Jobs ==
    ASSUME NEW job \in Job, NEW s \in Steps
    PROVE  /\ [job EXCEPT !.pc = s] \in Job
           /\ [job EXCEPT !.pc = s].pc = s
           /\ [job EXCEPT !.pc = s].op = job.op
           /\ [job EXCEPT !.pc = s].form = job.form
           /\ [job EXCEPT !.pc = s].todo = job.todo
           /\ [job EXCEPT !.pc = s].list = job.list
  BY DEF Job

LEMMA ReturnKeeps ==
    ASSUME NEW job \in GoodJob PROVE Returned(job) \in {Idle} \cup GoodJob
<1>1. "next" \in Steps
  BY DEF Steps
<1>2. [job EXCEPT !.pc = "next"] \in Job
  BY <1>1, Jobs DEF GoodJob
<1>3. CASE job.op = "auto"
  <2> DEFINE next == [job EXCEPT !.pc = "next"]
  <2>1. /\ next.pc = "next" /\ next.op = job.op /\ next.todo = job.todo /\ next.list = job.list
    BY <1>1, Jobs DEF GoodJob
  <2> HIDE DEF next
  <2>2. Does(job)
    BY DEF GoodJob
  <2>3. Does(next)
    BY <1>3, <2>1, <2>2 DEF Does, Ops, Writers
  <2> QED BY <1>2, <1>3, <2>3 DEF GoodJob, Returned, next
<1> QED BY <1>3 DEF Returned

(* What is left of the type invariant when a step replaces one job. *)
LEMMA Replaces ==
    ASSUME JobsInv, NEW t \in Task, NEW job \in {Idle} \cup GoodJob, Becomes(t, job)
    PROVE  task' \in [Task -> {Idle} \cup GoodJob] /\ task' \in [Task -> {Idle} \cup Job]
  BY DEF Becomes, JobsInv, GoodJob

LEMMA Returns ==
    ASSUME JobsInv, NEW t \in Task, task[t] \in GoodJob, Return(t)
    PROVE  task' \in [Task -> {Idle} \cup GoodJob] /\ task' \in [Task -> {Idle} \cup Job]
  BY Replaces, ReturnKeeps DEF Return

LEMMA Goes ==
    ASSUME JobsInv, NEW t \in Task, task[t] \in GoodJob, NEW s \in Steps, Goto(t, s),
           \A job : job.pc = s /\ job.op = task[t].op /\ job.form = task[t].form
                   /\ job.todo = task[t].todo /\ job.list = task[t].list => Does(job)
    PROVE  task' \in [Task -> {Idle} \cup GoodJob] /\ task' \in [Task -> {Idle} \cup Job]
<1> DEFINE job == [task[t] EXCEPT !.pc = s]
<1>1. /\ job \in Job /\ job.pc = s /\ job.op = task[t].op /\ job.form = task[t].form
      /\ job.todo = task[t].todo /\ job.list = task[t].list
  BY Jobs DEF GoodJob
<1>2. Becomes(t, job)
  BY DEF Goto
<1> HIDE DEF job
<1>3. job \in GoodJob
  BY <1>1 DEF GoodJob
<1> QED BY <1>2, <1>3, Replaces

LEMMA InitJobs == Init => JobsInv
  BY Empty DEF Init, JobsInv, TypeOK, Torn

-----------------------------------------------------------------------------
(* Each operation keeps the types. *)

LEMMA CheckJobs == ASSUME JobsInv, NEW t \in Task, SaveCheck(t) PROVE JobsInv'
<1> DEFINE new(secret) == [task[t] EXCEPT !.secret = secret, !.conn = FromForm(task[t].form),
                                          !.pc = IF task[t].form.s3 THEN "store" ELSE "list"]
<1>1. task[t] \in GoodJob /\ task[t] \in Job /\ Does(task[t]) /\ task[t].pc \in {"create", "edit"}
  BY Working DEF SaveCheck, At, Steps, Ops, Writers
<1>2. task[t].op \in {"create", "edit"} /\ task[t].form \in Form
  BY <1>1 DEF Does, Ops, Writers
<1>3. FromForm(task[t].form) \in Connection
  BY <1>2, FormAssumption DEF FromForm, Connection, Place
<1>4. ASSUME NEW secret \in Secret \cup {NoSecret} PROVE new(secret) \in GoodJob
  <2>1. new(secret) \in Job
    BY <1>1, <1>3, <1>4 DEF Job, Steps
  <2>2. /\ new(secret).pc \in {"store", "list"} /\ new(secret).op = task[t].op
        /\ new(secret).form = task[t].form
    BY <1>1 DEF Job
  <2> HIDE DEF new
  <2>3. Does(new(secret))
    BY <1>2, <2>2 DEF Does, Ops, Writers
  <2> QED BY <2>1, <2>3 DEF GoodJob
<1>5. task' \in [Task -> {Idle} \cup GoodJob] /\ task' \in [Task -> {Idle} \cup Job]
  <2>1. CASE Return(t)
    BY <1>1, <2>1, Returns
  <2>2. CASE ~Return(t)
    <3>1. PICK secret \in Secret \cup {NoSecret} : Becomes(t, new(secret))
      <4> DEFINE n == task[t].name
                 stored == IF keychain[n] # NoSecret THEN keychain[n] ELSE disk[n]
                 secret == IF task[t].form.secret = NoSecret THEN stored ELSE task[t].form.secret
      <4>1. n \in Name
        BY <1>1 DEF Job
      <4>2. secret \in Secret \cup {NoSecret}
        BY <1>2, <4>1, FormAssumption DEF JobsInv, TypeOK
      <4> QED BY <2>2, <4>2 DEF SaveCheck
    <3> HIDE DEF new
    <3> QED BY <1>4, <3>1, Replaces
  <2> QED BY <2>1, <2>2
<1> QED BY <1>5 DEF SaveCheck, JobsInv, TypeOK, stores, system

LEMMA StoreJobs ==
    ASSUME JobsInv, NEW t \in Task, SaveKeychain(t) \/ SaveDisk(t) PROVE JobsInv'
<1>1. task[t] \in GoodJob /\ task[t] \in Job /\ Does(task[t])
      /\ task[t].pc \in {"store", "store on disk"}
  BY Working DEF SaveKeychain, SaveDisk, At, Steps
<1>2. task[t].op \in {"create", "edit"} /\ task[t].form \in Form /\ task[t].op # "auto"
  BY <1>1 DEF Does, Ops, Writers
<1>3. task' \in [Task -> {Idle} \cup GoodJob] /\ task' \in [Task -> {Idle} \cup Job]
  <2>1. CASE Return(t)
    BY <1>1, <2>1, Returns
  <2>2. ASSUME NEW s \in {"store on disk", "list"}, Goto(t, s)
        PROVE  task' \in [Task -> {Idle} \cup GoodJob] /\ task' \in [Task -> {Idle} \cup Job]
    <3>1. s \in Steps
      BY DEF Steps
    <3>2. \A job : job.pc = s /\ job.op = task[t].op /\ job.form = task[t].form
                   /\ job.todo = task[t].todo /\ job.list = task[t].list => Does(job)
      BY <1>2 DEF Does, Ops, Writers
    <3> QED BY <1>1, <2>2, <3>1, <3>2, Goes
  <2> QED BY <2>1, <2>2 DEF SaveKeychain, SaveDisk
<1>4. keychain' \in [Name -> Secret \cup {NoSecret}] /\ disk' \in [Name -> Secret \cup {NoSecret}]
  <2>1. task[t].name \in Name /\ task[t].secret \in Secret \cup {NoSecret} /\ Cut \in Secret
    BY <1>1, NameAssumption DEF Job
  <2>2. keychain \in [Name -> Secret \cup {NoSecret}] /\ disk \in [Name -> Secret \cup {NoSecret}]
    BY DEF JobsInv, TypeOK
  <2>3. ASSUME NEW secret \in Secret \cup {NoSecret}, NEW stored \in [Name -> Secret \cup {NoSecret}]
        PROVE  [stored EXCEPT ![task[t].name] = secret] \in [Name -> Secret \cup {NoSecret}]
    BY <2>1
  <2>4. CASE SaveKeychain(t)
    <3>1. disk' = disk /\ (keychain' = keychain \/ StoreInKeychain(task[t].name, task[t].secret))
      BY <2>4 DEF SaveKeychain
    <3> QED BY <2>1, <2>2, <2>3, <3>1 DEF StoreInKeychain
  <2>5. CASE SaveDisk(t)
    <3>1. /\ keychain' = keychain
          /\ disk' = disk \/ \E secret \in {Cut, NoSecret, task[t].secret} : StoreOnDisk(task[t].name, secret)
      BY <2>5 DEF SaveDisk
    <3> QED BY <2>1, <2>2, <2>3, <3>1 DEF StoreOnDisk
  <2> QED BY <2>4, <2>5
<1> QED BY <1>3, <1>4 DEF SaveKeychain, SaveDisk, JobsInv, TypeOK, stores, system

(* The two new lists: one more connection, one less. *)
LEMMA ListsOfLoad ==
    ASSUME TypeOK, NEW n \in Name, NEW c \in Connection
    PROVE  /\ [m \in DOMAIN Load \cup {n} |-> IF m = n THEN c ELSE Load[m]] \in Registry
           /\ [m \in DOMAIN Load \ {n} |-> Load[m]] \in Registry
<1>1. DOMAIN Load \subseteq Name /\ \A m \in DOMAIN Load : Load[m] \in Connection
  BY Loaded, Listed
<1> DEFINE D == DOMAIN Load
<1>2. [m \in D \cup {n} |-> IF m = n THEN c ELSE Load[m]] \in [D \cup {n} -> Connection]
  BY <1>1
<1>3. [m \in D \ {n} |-> Load[m]] \in [D \ {n} -> Connection]
  BY <1>1
<1>4. D \cup {n} \in SUBSET Name /\ D \ {n} \in SUBSET Name
  BY <1>1
<1> QED BY <1>2, <1>3, <1>4 DEF Registry

LEMMA ListJobs == ASSUME JobsInv, NEW t \in Task, SaveList(t) PROVE JobsInv'
<1> DEFINE list == [n \in DOMAIN Load \cup {task[t].name} |->
                       IF n = task[t].name THEN task[t].conn ELSE Load[n]]
           new == [task[t] EXCEPT !.pc = "write", !.list = list]
<1>1. task[t] \in GoodJob /\ task[t] \in Job /\ Does(task[t]) /\ task[t].pc = "list"
  BY Working DEF SaveList, At, Steps
<1>2. task[t].op \in {"create", "edit"} /\ task[t].form \in Form
  BY <1>1 DEF Does
<1>3. new \in GoodJob
  <2>1. list \in Registry
    BY <1>1, ListsOfLoad DEF Job, JobsInv
  <2> HIDE DEF list
  <2>2. new \in Job /\ new.pc = "write" /\ new.op = task[t].op /\ new.form = task[t].form
    BY <1>1, <2>1 DEF Job, Steps
  <2> HIDE DEF new
  <2>3. Does(new)
    BY <1>2, <2>2 DEF Does, Ops, Writers
  <2> QED BY <2>2, <2>3 DEF GoodJob
<1>4. Return(t) \/ Becomes(t, new)
  BY DEF SaveList
<1> HIDE DEF new
<1>5. task' \in [Task -> {Idle} \cup GoodJob] /\ task' \in [Task -> {Idle} \cup Job]
  BY <1>1, <1>3, <1>4, Returns, Replaces
<1> QED BY <1>5 DEF SaveList, JobsInv, TypeOK, stores, system

LEMMA AstrayTypes ==
    ASSUME TypeOK, NEW n, NEW places PROVE Astray(n, places) \in [Place -> {NoMount} \cup Mounted]
<1> SUFFICES ASSUME NEW p \in Place, table[p] # NoMount
             PROVE  [table[p] EXCEPT !.stray = TRUE] \in Mounted
  BY DEF Astray, TypeOK
<1>1. table[p] \in Mounted
  BY DEF TypeOK
<1> QED BY <1>1 DEF Mounted

LEMMA WriteJobs ==
    ASSUME JobsInv, NEW t \in Task, Write(t) \/ Fill(t) PROVE JobsInv'
<1>1. task[t] \in GoodJob /\ task[t] \in Job /\ Does(task[t]) /\ task[t].pc \in {"write", "fill"}
  BY Working DEF Write, Fill, At, Steps
<1>2. task[t].op \in Writers /\ (task[t].op # "delete" => task[t].form \in Form)
  BY <1>1 DEF Does, Writers
<1>3. task' \in [Task -> {Idle} \cup GoodJob] /\ task' \in [Task -> {Idle} \cup Job]
  <2>1. CASE Return(t)
    BY <1>1, <2>1, Returns
  <2>2. ASSUME NEW s \in {"fill", "forget"}, Goto(t, s), s = "forget" => task[t].op = "delete"
        PROVE  task' \in [Task -> {Idle} \cup GoodJob] /\ task' \in [Task -> {Idle} \cup Job]
    <3>1. s \in Steps
      BY DEF Steps
    <3>2. \A job : job.pc = s /\ job.op = task[t].op /\ job.form = task[t].form
                   /\ job.todo = task[t].todo /\ job.list = task[t].list => Does(job)
      BY <1>2, <2>2 DEF Does, Ops, Writers
    <3> QED BY <1>1, <2>2, <3>1, <3>2, Goes
  <2> QED BY <2>1, <2>2 DEF Write, Fill
<1>4. file' \in [readable : BOOLEAN, list : Registry]
  <2>1. file' \in {file, Torn, [readable |-> TRUE, list |-> task[t].list]}
    BY DEF Write, Fill
  <2>2. task[t].list \in Registry
    BY <1>1 DEF Job
  <2>3. Torn \in [readable : BOOLEAN, list : Registry]
    BY Empty DEF Torn
  <2>4. [readable |-> TRUE, list |-> task[t].list] \in [readable : BOOLEAN, list : Registry]
    BY <2>2
  <2>5. file \in [readable : BOOLEAN, list : Registry]
    BY DEF JobsInv, TypeOK
  <2> QED BY <2>1, <2>3, <2>4, <2>5
<1>5. table' \in [Place -> {NoMount} \cup Mounted]
  BY AstrayTypes DEF Write, Fill, system, JobsInv, TypeOK
<1> QED BY <1>3, <1>4, <1>5 DEF Write, Fill, JobsInv, TypeOK, stores, system

LEMMA UnmountedTypes ==
    ASSUME TypeOK, NEW p \in Place, Unmounted(p) \/ UNCHANGED system
    PROVE  table' \in [Place -> {NoMount} \cup Mounted]
           /\ container' \in [Name -> {"notReady", "ready"}]
  BY DEF Unmounted, SetContainerState, system, TypeOK, Mounted

LEMMA UnmountJobs == ASSUME JobsInv, NEW t \in Task, Unmount(t) PROVE JobsInv'
<1>1. task[t] \in GoodJob /\ task[t].name \in Name
  BY Working DEF Unmount, At, Steps, Ops, Job
<1>2. task' \in [Task -> {Idle} \cup GoodJob] /\ task' \in [Task -> {Idle} \cup Job]
  BY <1>1, Returns DEF Unmount
<1> DEFINE p == IF task[t].name \in DOMAIN Load THEN Load[task[t].name].point ELSE task[t].name
<1>3. p \in Place
  BY <1>1, Loaded, Listed DEF JobsInv, Connection, Place
<1>4. Unmounted(p) \/ UNCHANGED system
  BY DEF Unmount
<1> HIDE DEF p
<1>5. table' \in [Place -> {NoMount} \cup Mounted] /\ container' \in [Name -> {"notReady", "ready"}]
  BY <1>3, <1>4, UnmountedTypes DEF JobsInv
<1> QED BY <1>2, <1>5 DEF Unmount, JobsInv, TypeOK, stores

LEMMA RestartJobs == ASSUME JobsInv, NEW t \in Task, Restart(t) PROVE JobsInv'
<1>1. task[t] \in GoodJob
  BY Working DEF Restart, At, Steps, Ops
<1>2. task' \in [Task -> {Idle} \cup GoodJob] /\ task' \in [Task -> {Idle} \cup Job]
  <2>1. CASE Return(t)
    BY <1>1, <2>1, Returns
  <2>2. ASSUME ~Return(t), NEW u \in Task PROVE task'[u] \in {Idle} \cup GoodJob
    <3>1. task'[u] \in {Returned(task[u]), task[u]}
      BY <2>2 DEF Restart
    <3>2. task[u] \in GoodJob => Returned(task[u]) \in {Idle} \cup GoodJob
      BY ReturnKeeps
    <3>3. Returned(Idle) = Idle \/ task[u] # Idle \/ task'[u] = task[u]
      <4>1. u = t => task[u] # Idle
        BY DEF Restart, At, Idle
      <4> QED BY <2>2, <4>1 DEF Restart, Idle
    <3>4. task[u] \in {Idle} \cup GoodJob
      BY DEF JobsInv
    <3> QED BY <3>1, <3>2, <3>3, <3>4
  <2>3. ~Return(t) => DOMAIN task' = Task /\ task' = [u \in Task |-> task'[u]]
    BY DEF Restart
  <2>4. ~Return(t) => task' \in [Task -> {Idle} \cup GoodJob]
    BY <2>2, <2>3
  <2> QED BY <2>1, <2>4 DEF GoodJob
<1>3. table' \in [Place -> {NoMount} \cup Mounted] /\ container' \in [Name -> {"notReady", "ready"}]
  BY DEF Restart, system, JobsInv, TypeOK
<1> QED BY <1>2, <1>3 DEF Restart, JobsInv, TypeOK, stores

LEMMA QuitJobs == ASSUME JobsInv, NEW t \in Task, Quit(t) \/ QuitNext(t) PROVE JobsInv'
<1>1. task[t] \in GoodJob /\ task[t] \in Job /\ Does(task[t]) /\ task[t].op = "quit"
      /\ task[t].pc \in {"quit", "next"}
  BY Working DEF Quit, QuitNext, At, Steps, Ops, Does
<1>2. ASSUME NEW places \in SUBSET Place
      PROVE  [task[t] EXCEPT !.pc = "next", !.todo = places] \in GoodJob
  <2> DEFINE new == [task[t] EXCEPT !.pc = "next", !.todo = places]
  <2>1. new \in Job /\ new.pc = "next" /\ new.op = task[t].op
    BY <1>1 DEF Job, Steps
  <2> HIDE DEF new
  <2>2. Does(new)
    BY <1>1, <2>1 DEF Does, Ops, Writers
  <2>3. new \in GoodJob
    BY <2>1, <2>2 DEF GoodJob
  <2> QED BY <2>3 DEF new
<1>3. CASE Quit(t)
  <2>1. PICK seen \in MountsSeen : Becomes(t, [task[t] EXCEPT !.pc = "next", !.todo = seen])
    BY <1>3 DEF Quit
  <2>2. seen \in SUBSET Place
    BY DEF MountsSeen
  <2>3. task' \in [Task -> {Idle} \cup GoodJob] /\ task' \in [Task -> {Idle} \cup Job]
    BY <1>2, <2>1, <2>2, Replaces
  <2> QED BY <1>3, <2>3 DEF Quit, JobsInv, TypeOK, stores, system
<1>4. CASE QuitNext(t)
  <2>1. PICK p \in task[t].todo : /\ Unmounted(p) \/ UNCHANGED system
                                 /\ Becomes(t, [task[t] EXCEPT !.todo = @ \ {p}])
    BY <1>4 DEF QuitNext
  <2>2. task[t].todo \subseteq Place /\ task[t].pc = "next"
    BY <1>1, <1>4 DEF Job, QuitNext, At
  <2>3. [task[t] EXCEPT !.todo = @ \ {p}]
        = [task[t] EXCEPT !.pc = "next", !.todo = task[t].todo \ {p}]
    BY <1>1, <2>2 DEF Job
  <2>4. task' \in [Task -> {Idle} \cup GoodJob] /\ task' \in [Task -> {Idle} \cup Job]
    BY <1>2, <2>1, <2>2, <2>3, Replaces
  <2>5. table' \in [Place -> {NoMount} \cup Mounted] /\ container' \in [Name -> {"notReady", "ready"}]
    BY <2>1, <2>2, UnmountedTypes DEF JobsInv
  <2> QED BY <1>4, <2>4, <2>5 DEF QuitNext, JobsInv, TypeOK, stores
<1> QED BY <1>3, <1>4

LEMMA DeleteJobs ==
    ASSUME JobsInv, NEW t \in Task, DeleteLook(t) \/ DeleteUnmount(t) PROVE JobsInv'
<1>1. task[t] \in GoodJob /\ task[t] \in Job /\ Does(task[t]) /\ task[t].op = "delete"
      /\ task[t].pc \in {"delete", "unmount first"}
  BY Working DEF DeleteLook, DeleteUnmount, At, Steps, Ops, Writers, Does
<1>2. task[t].name \in Name /\ task[t].place \in Place
  BY <1>1 DEF Job
<1>3. CASE DeleteLook(t)
  <2> DEFINE n == task[t].name
             list == [m \in DOMAIN Load \ {n} |-> Load[m]]
             place == IF n \in DOMAIN Load THEN Load[n].point ELSE n
             looked == [task[t] EXCEPT !.list = list, !.place = place]
  <2>1. list \in Registry
    BY <1>2, Empty, ListsOfLoad DEF JobsInv
  <2>2. place \in Place
    BY <1>2, Loaded, Listed DEF JobsInv, Connection, Place
  <2>3. PICK step \in {"unmount first", "write"} : Becomes(t, [looked EXCEPT !.pc = step])
    BY <1>3 DEF DeleteLook
  <2> HIDE DEF list, place
  <2>4. looked \in Job /\ looked.op = task[t].op
    BY <1>1, <2>1, <2>2 DEF Job
  <2> HIDE DEF looked
  <2>5. PICK new : new = [looked EXCEPT !.pc = step]
    OBVIOUS
  <2>6. new \in Job /\ new.pc = step /\ new.op = task[t].op
    BY <2>3, <2>4, <2>5 DEF Job, Steps
  <2>7. Does(new)
    BY <1>1, <2>3, <2>6 DEF Does, Ops, Writers
  <2>8. task' \in [Task -> {Idle} \cup GoodJob] /\ task' \in [Task -> {Idle} \cup Job]
    BY <2>3, <2>5, <2>6, <2>7, Replaces DEF GoodJob
  <2>9. table' \in [Place -> {NoMount} \cup Mounted]
    <3>1. table' = Astray(task[t].name, Place) \/ table' = table
      BY <1>3 DEF DeleteLook
    <3>2. TypeOK
      BY DEF JobsInv
    <3>3. Astray(task[t].name, Place) \in [Place -> {NoMount} \cup Mounted]
      BY <3>2, AstrayTypes
    <3> QED BY <3>1, <3>2, <3>3 DEF TypeOK
  <2> QED BY <1>3, <2>8, <2>9 DEF DeleteLook, JobsInv, TypeOK, stores
<1>4. CASE DeleteUnmount(t)
  <2>1. task' \in [Task -> {Idle} \cup GoodJob] /\ task' \in [Task -> {Idle} \cup Job]
    <3>1. CASE Return(t)
      BY <1>1, <3>1, Returns
    <3>2. CASE Goto(t, "write")
      <4>1. "write" \in Steps
        BY DEF Steps
      <4> DEFINE s == "write"
      <4>2. \A job : job.pc = s /\ job.op = task[t].op /\ job.form = task[t].form
                   /\ job.todo = task[t].todo /\ job.list = task[t].list => Does(job)
        BY <1>1 DEF Does, Ops, Writers
      <4> QED BY <1>1, <3>2, <4>1, <4>2, Goes
    <3> QED BY <1>4, <3>1, <3>2 DEF DeleteUnmount
  <2>2. table' \in [Place -> {NoMount} \cup Mounted] /\ container' \in [Name -> {"notReady", "ready"}]
    BY <1>2, <1>4, UnmountedTypes DEF DeleteUnmount, JobsInv
  <2> QED BY <1>4, <2>1, <2>2 DEF DeleteUnmount, JobsInv, TypeOK, stores
<1> QED BY <1>3, <1>4

LEMMA ForgetJobs ==
    ASSUME JobsInv, NEW t \in Task, DeleteKeychain(t) \/ DeleteDisk(t) PROVE JobsInv'
<1>1. task[t] \in GoodJob /\ task[t] \in Job /\ Does(task[t]) /\ task[t].op = "delete"
      /\ task[t].pc \in {"forget", "forget on disk"}
  BY Working DEF DeleteKeychain, DeleteDisk, At, Steps, Does
<1>2. task' \in [Task -> {Idle} \cup GoodJob] /\ task' \in [Task -> {Idle} \cup Job]
  <2>1. CASE Return(t)
    BY <1>1, <2>1, Returns
  <2>2. CASE Goto(t, "forget on disk")
    <3>1. "forget on disk" \in Steps
      BY DEF Steps
    <3> DEFINE s == "forget on disk"
    <3>2. \A job : job.pc = s /\ job.op = task[t].op /\ job.form = task[t].form
                   /\ job.todo = task[t].todo /\ job.list = task[t].list => Does(job)
      BY <1>1 DEF Does, Ops, Writers
    <3> QED BY <1>1, <2>2, <3>1, <3>2, Goes
  <2> QED BY <2>1, <2>2 DEF DeleteKeychain, DeleteDisk
<1>3. /\ keychain' \in [Name -> Secret \cup {NoSecret}] /\ disk' \in [Name -> Secret \cup {NoSecret}]
      /\ deleted' \subseteq Name \ {Memory} /\ left' \subseteq Name \X {"keychain", "disk"}
  <2>1. task[t].name \in Name
    BY <1>1 DEF Job
  <2>2. /\ keychain' = keychain \/ StoreInKeychain(task[t].name, NoSecret)
        /\ disk' = disk \/ StoreOnDisk(task[t].name, NoSecret)
    BY DEF DeleteKeychain, DeleteDisk
  <2>3. keychain' \in [Name -> Secret \cup {NoSecret}] /\ disk' \in [Name -> Secret \cup {NoSecret}]
    BY <2>1, <2>2 DEF StoreInKeychain, StoreOnDisk, JobsInv, TypeOK
  <2>4. deleted' \subseteq Name \ {Memory}
    BY <2>1 DEF DeleteKeychain, DeleteDisk, JobsInv, TypeOK
  <2>5. \E where \in {"keychain", "disk"} :
            Forgotten(task[t].name, where) \/ NotForgotten(task[t].name, where)
    BY DEF DeleteKeychain, DeleteDisk
  <2>6. left' \subseteq Name \X {"keychain", "disk"}
    BY <2>1, <2>5 DEF Forgotten, NotForgotten, JobsInv, TypeOK
  <2> QED BY <2>3, <2>4, <2>6
<1> QED BY <1>2, <1>3 DEF DeleteKeychain, DeleteDisk, JobsInv, TypeOK, stores, system

(* A mount that starts keeps the operation it is part of. *)
LEMMA ToMountKeeps ==
    ASSUME NEW job \in GoodJob, NEW n \in Name, NEW c \in Connection,
           NEW secret \in Secret \cup {NoSecret}, NEW s \in {"load", "keep"},
           s = "keep" => job.op = "prompt"
    PROVE  ToMount(job, n, c, secret, s) \in GoodJob
<1> DEFINE new == ToMount(job, n, c, secret, s)
<1>1. job \in Job /\ Does(job) /\ c.point \in Place /\ c.s3 \in BOOLEAN
  BY DEF GoodJob, Connection
<1>2. new \in Job
  <2> DEFINE used == IF c.s3 THEN secret ELSE NoSecret
  <2>1. /\ s \in Steps /\ "none" \in Backend /\ c.point \in Place
        /\ used \in Secret \cup {NoSecret}
    BY <1>1 DEF Steps, Backend
  <2>2. new = [job EXCEPT !.pc = s, !.name = n, !.conn = c, !.place = c.point,
                          !.secret = used, !.backend = "none"]
    BY DEF ToMount
  <2> HIDE DEF new, used
  <2> QED BY <1>1, <2>1, <2>2 DEF Job
<1>3. /\ new.pc = s /\ new.op = job.op /\ new.form = job.form
      /\ new.todo = job.todo /\ new.list = job.list
  BY <1>1 DEF ToMount, Job
<1> HIDE DEF new
<1>4. Does(new)
  BY <1>1, <1>3 DEF Does, Ops, Writers
<1>5. new \in GoodJob
  BY <1>2, <1>4 DEF GoodJob
<1> QED BY <1>5 DEF new

LEMMA MountJobs ==
    ASSUME JobsInv, NEW t \in Task, MountPlan(t) \/ PromptPlan(t) PROVE JobsInv'
<1>1. task[t] \in GoodJob /\ task[t] \in Job /\ Does(task[t]) /\ task[t].name \in Name
  BY Working DEF MountPlan, PromptPlan, At, Steps, Ops, Job
<1>2. ASSUME task[t].name \in DOMAIN Load PROVE Load[task[t].name] \in Connection
  BY <1>2, Loaded, Listed DEF JobsInv
<1>3. SecretPlan(task[t].name) \in Secret \cup {NoSecret}
  BY <1>1 DEF SecretPlan, JobsInv, TypeOK
<1>4. CASE MountPlan(t)
  <2>1. task' \in [Task -> {Idle} \cup GoodJob] /\ task' \in [Task -> {Idle} \cup Job]
    BY <1>1, <1>2, <1>3, <1>4, Returns, Replaces, ToMountKeeps DEF MountPlan
  <2>2. asked' \subseteq Name
    BY <1>1, <1>4 DEF MountPlan, JobsInv, TypeOK
  <2> QED BY <1>4, <2>1, <2>2 DEF MountPlan, JobsInv, TypeOK, stores, system
<1>5. CASE PromptPlan(t)
  <2>1. task[t].op = "prompt" /\ task[t].form.secret \in Secret \cup {NoSecret}
    BY <1>1, <1>5, FormAssumption DEF PromptPlan, At, Does, Ops
  <2>2. task' \in [Task -> {Idle} \cup GoodJob] /\ task' \in [Task -> {Idle} \cup Job]
    BY <1>1, <1>2, <1>5, <2>1, Returns, Replaces, ToMountKeeps DEF PromptPlan
  <2> QED BY <1>5, <2>2 DEF PromptPlan, JobsInv, TypeOK, stores, system
<1> QED BY <1>4, <1>5

LEMMA KeepJobs ==
    ASSUME JobsInv, NEW t \in Task, PromptKeychain(t) \/ PromptDisk(t) PROVE JobsInv'
<1>1. task[t] \in GoodJob /\ task[t] \in Job /\ Does(task[t]) /\ task[t].op = "prompt"
      /\ task[t].pc \in {"keep", "keep on disk"}
  BY Working DEF PromptKeychain, PromptDisk, At, Steps, Does
<1>2. task[t].form \in Form /\ task[t].form.secret \in Secret \cup {NoSecret}
  BY <1>1, FormAssumption DEF Does
<1>3. ASSUME NEW s \in {"keep on disk", "load"}, Goto(t, s)
      PROVE  task' \in [Task -> {Idle} \cup GoodJob] /\ task' \in [Task -> {Idle} \cup Job]
  <2>1. s \in Steps
    BY DEF Steps
  <2>2. \A job : job.pc = s /\ job.op = task[t].op /\ job.form = task[t].form
                   /\ job.todo = task[t].todo /\ job.list = task[t].list => Does(job)
    BY <1>1, <1>2 DEF Does, Ops, Writers
  <2> QED BY <1>1, <1>3, <2>1, <2>2, Goes
<1>4. task' \in [Task -> {Idle} \cup GoodJob] /\ task' \in [Task -> {Idle} \cup Job]
  BY <1>3 DEF PromptKeychain, PromptDisk
<1>5. keychain' \in [Name -> Secret \cup {NoSecret}] /\ disk' \in [Name -> Secret \cup {NoSecret}]
  <2>1. task[t].name \in Name /\ Cut \in Secret
    BY <1>1, NameAssumption DEF Job
  <2>2. /\ keychain' = keychain \/ StoreInKeychain(task[t].name, task[t].form.secret)
        /\ disk' = disk \/ \E secret \in {task[t].form.secret, Cut} : StoreOnDisk(task[t].name, secret)
    BY DEF PromptKeychain, PromptDisk
  <2> QED BY <1>2, <2>1, <2>2 DEF StoreInKeychain, StoreOnDisk, JobsInv, TypeOK
<1> QED BY <1>4, <1>5 DEF PromptKeychain, PromptDisk, JobsInv, TypeOK, stores, system

LEMMA AutoJobs ==
    ASSUME JobsInv, NEW t \in Task, AutoMount(t) \/ AutoNext(t) \/ AutoDone(t) PROVE JobsInv'
<1>1. task[t] \in GoodJob /\ task[t] \in Job /\ Does(task[t]) /\ task[t].op = "auto"
      /\ task[t].pc \in {"auto", "next"}
  BY Working DEF AutoMount, AutoNext, AutoDone, At, Steps, Ops, Does
<1>2. CASE AutoMount(t)
  <2>0. PICK seen \in MountsSeen : Becomes(t, [task[t] EXCEPT !.pc = "next", !.list = Load,
           !.todo = {n \in DOMAIN Load : Load[n].launch /\ Load[n].point \notin seen}])
    BY <1>2 DEF AutoMount
  <2> DEFINE due == {n \in DOMAIN Load : Load[n].launch /\ Load[n].point \notin seen}
             new == [task[t] EXCEPT !.pc = "next", !.list = Load, !.todo = due]
  <2>1. Load \in Registry /\ due \subseteq DOMAIN Load /\ due \subseteq Place
    BY Loaded, Listed DEF JobsInv, Place
  <2>2. Becomes(t, new)
    BY <2>0
  <2> HIDE DEF due
  <2>3. new \in Job /\ new.pc = "next" /\ new.op = task[t].op /\ new.todo = due /\ new.list = Load
    BY <1>1, <2>1 DEF Job, Steps
  <2> HIDE DEF new
  <2>4. Does(new)
    BY <1>1, <2>1, <2>3 DEF Does, Ops, Writers
  <2>5. task' \in [Task -> {Idle} \cup GoodJob] /\ task' \in [Task -> {Idle} \cup Job]
    BY <2>2, <2>3, <2>4, Replaces DEF GoodJob
  <2> QED BY <1>2, <2>5 DEF AutoMount, JobsInv, TypeOK, stores, system
<1>3. CASE AutoNext(t)
  <2>1. PICK n \in task[t].todo :
            LET rest == [task[t] EXCEPT !.todo = @ \ {n}]
                c == task[t].list[n]
            IN  \/ Becomes(t, ToMount(rest, n, c, SecretPlan(n), "load")) /\ UNCHANGED asked
                \/ Becomes(t, rest) /\ asked' = asked \cup {n}
    BY <1>3 DEF AutoNext
  <2> DEFINE rest == [task[t] EXCEPT !.todo = @ \ {n}]
             c == task[t].list[n]
  <2>2. n \in Name /\ c \in Connection /\ SecretPlan(n) \in Secret \cup {NoSecret}
    <3>1. n \in DOMAIN task[t].list /\ task[t].list \in Registry
      BY <1>1 DEF Does, Job
    <3>2. n \in Name /\ c \in Connection
      BY <3>1, Listed
    <3> QED BY <3>2 DEF SecretPlan, JobsInv, TypeOK
  <2>3. rest \in GoodJob
    <3>1. /\ rest \in Job /\ rest.pc = task[t].pc /\ rest.op = task[t].op
          /\ rest.todo \subseteq task[t].todo /\ rest.list = task[t].list
      BY <1>1 DEF Job
    <3>2. rest.pc = "next"
      BY <1>3, <3>1 DEF AutoNext, At
    <3> HIDE DEF rest
    <3>3. Does(rest)
      BY <1>1, <3>1, <3>2 DEF Does, Ops, Writers
    <3> QED BY <3>1, <3>3 DEF GoodJob
  <2>4. Becomes(t, ToMount(rest, n, c, SecretPlan(n), "load")) \/ Becomes(t, rest)
    BY <2>1
  <2>5. asked' \subseteq Name
    BY <2>1, <2>2 DEF JobsInv, TypeOK
  <2> HIDE DEF rest, c
  <2>6. task' \in [Task -> {Idle} \cup GoodJob] /\ task' \in [Task -> {Idle} \cup Job]
    BY <2>2, <2>3, <2>4, Replaces, ToMountKeeps
  <2> QED BY <1>3, <2>5, <2>6 DEF AutoNext, JobsInv, TypeOK, stores, system
<1>4. CASE AutoDone(t)
  <2>1. task' \in [Task -> {Idle} \cup GoodJob] /\ task' \in [Task -> {Idle} \cup Job]
    BY <1>4, Replaces DEF AutoDone
  <2> QED BY <1>4, <2>1 DEF AutoDone, JobsInv, TypeOK, stores, system
<1> QED BY <1>2, <1>3, <1>4

LEMMA BuiltTypes ==
    ASSUME TypeOK, NEW n \in Name, NEW c \in Connection, NEW secret \in Secret \cup {NoSecret}
    PROVE  Built(n, c, secret) \in Backend
  BY DEF Built, ExtensionSecret, Backend, TypeOK

LEMMA LoadJobs ==
    ASSUME JobsInv, NEW t \in Task, LoadResource(t) \/ LoadFails(t) PROVE JobsInv'
<1>1. task[t] \in GoodJob /\ task[t] \in Job /\ Does(task[t]) /\ task[t].pc = "load"
      /\ task[t].name \in Name /\ task[t].conn \in Connection
  BY Working DEF LoadResource, LoadFails, At, Steps, Job
<1>2. container' \in [Name -> {"notReady", "ready"}]
  BY DEF LoadResource, LoadFails, SetContainerState, JobsInv, TypeOK
<1>3. CASE LoadResource(t)
  <2> DEFINE built == Built(task[t].name, task[t].conn, NoSecret)
             new == [task[t] EXCEPT !.pc = "activate", !.backend = built]
  <2>1. built \in Backend
    BY <1>1, BuiltTypes DEF JobsInv
  <2>2. Becomes(t, new)
    BY <1>3 DEF LoadResource
  <2> HIDE DEF built
  <2>3. /\ new \in Job /\ new.pc = "activate" /\ new.op = task[t].op /\ new.form = task[t].form
        /\ new.todo = task[t].todo /\ new.list = task[t].list
    BY <1>1, <2>1 DEF Job, Steps
  <2> HIDE DEF new
  <2>4. Does(new)
    BY <1>1, <2>3 DEF Does, Ops, Writers
  <2>5. task' \in [Task -> {Idle} \cup GoodJob] /\ task' \in [Task -> {Idle} \cup Job]
    BY <2>2, <2>3, <2>4, Replaces DEF GoodJob
  <2> QED BY <1>2, <1>3, <2>5 DEF LoadResource, JobsInv, TypeOK, stores
<1>4. CASE LoadFails(t)
  <2>1. task' \in [Task -> {Idle} \cup GoodJob] /\ task' \in [Task -> {Idle} \cup Job]
    BY <1>1, <1>4, Returns DEF LoadFails
  <2> QED BY <1>2, <1>4, <2>1 DEF LoadFails, JobsInv, TypeOK, stores
<1> QED BY <1>3, <1>4

LEMMA ActivateJobs ==
    ASSUME JobsInv, NEW t \in Task, Activate(t) \/ ActivateFails(t) PROVE JobsInv'
<1>1. task[t] \in GoodJob /\ task[t] \in Job
      /\ task[t].name \in Name /\ task[t].conn \in Connection
      /\ task[t].backend \in Backend /\ task[t].secret \in Secret \cup {NoSecret}
  BY Working DEF Activate, ActivateFails, At, Steps, Job
<1>2. task' \in [Task -> {Idle} \cup GoodJob] /\ task' \in [Task -> {Idle} \cup Job]
  BY <1>1, Returns DEF Activate, ActivateFails
<1>3. CASE Activate(t)
  <2>1. Resolved(t) \in Backend \ {"none"}
    BY <1>1, <1>3, BuiltTypes DEF Activate, Resolved, JobsInv
  <2>2. table' \in [Place -> {NoMount} \cup Mounted]
    BY <1>1, <1>3, <2>1 DEF Activate, Mounted, JobsInv, TypeOK
  <2> QED BY <1>2, <1>3, <2>2 DEF Activate, JobsInv, TypeOK, stores
<1>4. CASE ActivateFails(t)
  <2>1. container' \in [Name -> {"notReady", "ready"}]
    BY <1>4 DEF ActivateFails, SetContainerState, JobsInv, TypeOK
  <2> QED BY <1>2, <1>4, <2>1 DEF ActivateFails, JobsInv, TypeOK, stores
<1> QED BY <1>3, <1>4

LEMMA DeathJobs ==
    ASSUME JobsInv, Kill \/ \E t \in Task : QuitDone(t) PROVE JobsInv'
<1>1. ASSUME NEW t \in Task PROVE Dead(t) \in {Idle} \cup GoodJob
  <2>1. CASE task[t] # Idle /\ task[t].pc \in {"load", "activate"}
    <3> DEFINE new == [task[t] EXCEPT !.op = "mount", !.todo = {}]
    <3>1. task[t] \in Job
      BY <2>1 DEF JobsInv, TypeOK
    <3>2. new \in Job /\ new.pc = task[t].pc /\ new.op = "mount"
      BY <3>1 DEF Job, Ops
    <3> HIDE DEF new
    <3>3. Does(new)
      BY <2>1, <3>2 DEF Does, Ops, Writers
    <3>4. new \in GoodJob
      BY <3>2, <3>3 DEF GoodJob
    <3> QED BY <2>1, <3>4 DEF Dead, new
  <2> QED BY <2>1 DEF Dead
<1>2. Dies
  BY DEF Kill, QuitDone
<1>3. task' \in [Task -> {Idle} \cup GoodJob]
  BY <1>1, <1>2 DEF Dies
<1>4. task' \in [Task -> {Idle} \cup Job]
  BY <1>3 DEF GoodJob
<1>5. asked' \subseteq Name
  BY <1>2 DEF Dies
<1> QED BY <1>3, <1>4, <1>5 DEF Kill, QuitDone, JobsInv, TypeOK, stores, system

LEMMA CallJobs ==
    ASSUME JobsInv, NEW t \in Task, NEW op \in Ops, NEW n \in Name, NEW f \in Form \cup {NoSecret},
           Call(t, op, n, f)
    PROVE  JobsInv'
<1> DEFINE new == Called(op, n, f)
<1>1. new \in Job
  BY Empty DEF Called, Job, Steps, Backend, Place
<1>2. new.pc = op /\ new.op = op /\ new.form = f /\ new.todo = {}
  BY DEF Called
<1>3. op \in {"create", "edit", "prompt"} => f \in Form
  BY DEF Call, Offered
<1> HIDE DEF new
<1>4. Does(new)
  BY <1>2, <1>3 DEF Does, Ops, Writers
<1>5. Becomes(t, new)
  BY DEF Call, new
<1>6. task' \in [Task -> {Idle} \cup GoodJob] /\ task' \in [Task -> {Idle} \cup Job]
  BY <1>1, <1>4, <1>5, Replaces DEF GoodJob
<1>7. deleted' \subseteq Name \ {Memory} /\ left' \subseteq Name \X {"keychain", "disk"}
  BY DEF Call, JobsInv, TypeOK
<1> QED BY <1>6, <1>7 DEF Call, JobsInv, TypeOK, stores, system

LEMMA NextJobs == JobsInv /\ [Next]_vars => JobsInv'
<1> SUFFICES ASSUME JobsInv, [Next]_vars PROVE JobsInv'
  OBVIOUS
<1>1. ASSUME NEW t \in Task, Operate(t) PROVE JobsInv'
  BY <1>1, CheckJobs, StoreJobs, ListJobs, WriteJobs, UnmountJobs, RestartJobs, QuitJobs, DeathJobs,
     DeleteJobs, ForgetJobs, MountJobs, KeepJobs, AutoJobs, LoadJobs, ActivateJobs DEF Operate
<1>2. CASE UNCHANGED vars
  BY <1>2 DEF vars, stores, system, JobsInv, TypeOK
<1> QED BY <1>1, <1>2, CallJobs, DeathJobs DEF Next

(* Every variable has its type, and every step of a task the form, the     *)
(* snapshot or the secret it works with.                                   *)
THEOREM Typing == Spec => []TypeOK
<1>1. JobsInv => TypeOK
  BY DEF JobsInv
<1> QED BY <1>1, InitJobs, NextJobs, PTL DEF Spec

-----------------------------------------------------------------------------
(* A container is ready only for a volume.  ReadyMeansServed is inductive. *)

Serves(p, n) == table[p] # NoMount /\ table[p].name = n

Coming(t, n) == At(t, "activate") /\ task[t].name = n

(* A mount that goes astray stays. *)
LEMMA AstrayServes ==
    ASSUME TypeOK, NEW m, NEW places, table' = Astray(m, places), NEW p \in Place
    PROVE  /\ table'[p] # NoMount <=> table[p] # NoMount
           /\ table[p] # NoMount => table'[p].name = table[p].name
           /\ table[p] # NoMount =>
                 (table'[p].stray <=> (table[p].stray \/ (p \in places /\ table[p].name = m)))
<1>1. CASE p \in places /\ table[p] # NoMount /\ table[p].name = m
  <2>1. table'[p] = [table[p] EXCEPT !.stray = TRUE] /\ table[p] \in Mounted
    BY <1>1 DEF Astray, TypeOK
  <2>2. table'[p].name = table[p].name /\ table'[p].stray /\ table'[p] \in Mounted
    BY <2>1 DEF Mounted
  <2>3. DOMAIN NoMount = {"name"} /\ DOMAIN table'[p] = {"name", "backend", "stray"}
    BY <2>2 DEF NoMount, Mounted
  <2>4. table'[p] # NoMount
    BY <2>3
  <2> QED BY <1>1, <2>2, <2>4
<1>2. CASE ~(p \in places /\ table[p] # NoMount /\ table[p].name = m)
  <2>1. table'[p] = table[p]
    BY <1>2 DEF Astray
  <2>2. table[p] # NoMount => (table'[p].stray <=> table[p].stray)
    BY <2>1
  <2>3. table[p] # NoMount => table'[p].name = table[p].name
    BY <2>1
  <2>4. table'[p] # NoMount <=> table[p] # NoMount
    BY <2>1
  <2>5. table[p] # NoMount => ~(p \in places /\ table[p].name = m)
    BY <1>2
  <2> QED BY <2>2, <2>3, <2>4, <2>5
<1> QED BY <1>1, <1>2

(* A step of a task that activates nothing, whatever it unmounts. *)
LEMMA OthersServed ==
    ASSUME JobsInv, ReadyMeansServed, NEW t \in Task, NEW job, Becomes(t, job), ~At(t, "activate"),
           \/ UNCHANGED system
           \/ \E p \in Place : Unmounted(p)
           \/ UNCHANGED container /\ \E m \in Name, places \in SUBSET Place : table' = Astray(m, places)
    PROVE  ReadyMeansServed'
<1> SUFFICES ASSUME NEW n \in Name, container'[n] = "ready"
             PROVE  (\E p \in Place : Serves(p, n)') \/ (\E u \in Task : Coming(u, n)')
  BY DEF ReadyMeansServed, Serves, Coming
<1>1. container[n] = "ready" /\ \A p \in Place : Serves(p, n) => Serves(p, n)'
  <2>1. CASE UNCHANGED system
    BY <2>1 DEF Serves, system
  <2>2. CASE \E p \in Place : Unmounted(p)
    BY <2>2 DEF Unmounted, SetContainerState, Serves, JobsInv, TypeOK
  <2>3. CASE UNCHANGED container /\ \E m \in Name, places \in SUBSET Place : table' = Astray(m, places)
    BY <2>3, AstrayServes DEF Serves, JobsInv
  <2> QED BY <2>1, <2>2, <2>3
<1>2. \A u \in Task : Coming(u, n) => Coming(u, n)'
  BY DEF Becomes, Coming, At, JobsInv
<1>3. (\E p \in Place : Serves(p, n)) \/ (\E u \in Task : Coming(u, n))
  BY <1>1 DEF ReadyMeansServed, Serves, Coming
<1> QED BY <1>1, <1>2, <1>3

LEMMA ExtensionServed ==
    ASSUME JobsInv, ReadyMeansServed, NEW t \in Task,
           LoadResource(t) \/ LoadFails(t) \/ Activate(t) \/ ActivateFails(t)
    PROVE  ReadyMeansServed'
<1> SUFFICES ASSUME NEW n \in Name, container'[n] = "ready"
             PROVE  (\E p \in Place : Serves(p, n)') \/ (\E u \in Task : Coming(u, n)')
  BY DEF ReadyMeansServed, Serves, Coming
<1>1. task[t] \in Job
  BY Working DEF LoadResource, LoadFails, Activate, ActivateFails, At, Steps
<1>2. ASSUME container[n] = "ready"
      PROVE  (\E p \in Place : Serves(p, n)) \/ (\E u \in Task : Coming(u, n))
  BY <1>2 DEF ReadyMeansServed, Serves, Coming
<1>3. \A u \in Task \ {t} : Coming(u, n) => Coming(u, n)'
  BY DEF LoadResource, LoadFails, Activate, ActivateFails, Return, Becomes, Coming, At, JobsInv
<1>4. CASE LoadResource(t)
  <2>1. \A p \in Place : Serves(p, n) => Serves(p, n)'
    BY <1>4 DEF LoadResource, Serves
  <2>2. task'[t].pc = "activate" /\ task'[t].name = task[t].name
    BY <1>1, <1>4 DEF LoadResource, Becomes, Job, JobsInv
  <2>3. n = task[t].name => Coming(t, n)'
    BY <2>2 DEF Coming, At
  <2>4. n # task[t].name => container[n] = "ready" /\ ~Coming(t, n)
    BY <1>4 DEF LoadResource, SetContainerState, JobsInv, TypeOK, Coming
  <2> QED BY <1>2, <1>3, <2>1, <2>3, <2>4
<1>5. CASE LoadFails(t)
  <2>1. \A p \in Place : Serves(p, n) => Serves(p, n)'
    BY <1>5 DEF LoadFails, Serves
  <2>2. container[n] = "ready" /\ ~Coming(t, n)
    BY <1>5 DEF LoadFails, SetContainerState, JobsInv, TypeOK, Coming, At
  <2> QED BY <1>2, <1>3, <2>1, <2>2
<1>6. CASE Activate(t)
  <2>1. PICK place \in Place : place = task[t].place
    BY <1>1 DEF Job
  <2>2. table'[place].name = task[t].name /\ table'[place] # NoMount
    <3>1. table'[place] = [name |-> task[t].name, backend |-> Resolved(t), stray |-> FALSE]
      BY <1>6, <2>1 DEF Activate, JobsInv, TypeOK
    <3>2. DOMAIN NoMount = {"name"}
      BY DEF NoMount
    <3> QED BY <3>1, <3>2
  <2>3. n = task[t].name => Serves(place, n)'
    BY <2>2 DEF Serves
  <2>4. \A p \in Place : Serves(p, n) => Serves(p, n)'
    BY <1>6 DEF Activate, Serves, JobsInv, TypeOK
  <2>5. n # task[t].name => ~Coming(t, n)
    BY DEF Coming
  <2>6. container[n] = "ready"
    BY <1>6 DEF Activate
  <2> QED BY <1>2, <1>3, <2>1, <2>3, <2>4, <2>5, <2>6
<1>7. CASE ActivateFails(t)
  <2>1. \A p \in Place : Serves(p, n) => Serves(p, n)'
    BY <1>7 DEF ActivateFails, Serves
  <2>2. container[n] = "ready" /\ n # task[t].name
    BY <1>7 DEF ActivateFails, SetContainerState, JobsInv, TypeOK
  <2>3. ~Coming(t, n)
    BY <2>2 DEF Coming
  <2> QED BY <1>2, <1>3, <2>1, <2>2, <2>3
<1> QED BY <1>4, <1>5, <1>6, <1>7

(* The application's death takes no mount that is on its way. *)
LEMMA DeathServed ==
    ASSUME JobsInv, ReadyMeansServed, Dies, UNCHANGED system PROVE ReadyMeansServed'
<1> SUFFICES ASSUME NEW n \in Name, container'[n] = "ready"
             PROVE  (\E p \in Place : Serves(p, n)') \/ (\E u \in Task : Coming(u, n)')
  BY DEF ReadyMeansServed, Serves, Coming
<1>1. container[n] = "ready" /\ \A p \in Place : Serves(p, n) => Serves(p, n)'
  BY DEF Serves, system
<1>2. ASSUME NEW u \in Task, Coming(u, n) PROVE Coming(u, n)'
  <2>1. task[u] \in Job /\ task[u] # Idle
    <3>1. "activate" \in Steps /\ At(u, "activate")
      BY <1>2 DEF Coming, Steps
    <3> QED BY <3>1, Working DEF At, Idle
  <2>2. Dead(u) = [task[u] EXCEPT !.op = "mount", !.todo = {}]
    BY <1>2, <2>1 DEF Dead, Coming, At
  <2>3. task'[u].pc = task[u].pc /\ task'[u].name = task[u].name
    BY <2>1, <2>2 DEF Dies, Job
  <2> QED BY <1>2, <2>3 DEF Coming, At
<1> QED BY <1>1, <1>2 DEF ReadyMeansServed, Serves, Coming

LEMMA NextServed == JobsInv /\ ReadyMeansServed /\ [Next]_vars => ReadyMeansServed'
<1> SUFFICES ASSUME JobsInv, ReadyMeansServed, [Next]_vars PROVE ReadyMeansServed'
  OBVIOUS
<1>1. ASSUME NEW t \in Task, Operate(t) PROVE ReadyMeansServed'
  <2>1. CASE LoadResource(t) \/ LoadFails(t) \/ Activate(t) \/ ActivateFails(t)
    BY <2>1, ExtensionServed
  <2>2. CASE QuitDone(t)
    BY <2>2, DeathServed DEF QuitDone
  <2>3. CASE Restart(t)
    <3>1. CASE Return(t) /\ UNCHANGED system
      BY <2>3, <3>1, OthersServed DEF Restart, Return, At
    <3>2. CASE container' = [n \in Name |-> "notReady"]
      BY <3>2 DEF ReadyMeansServed
    <3> QED BY <2>3, <3>1, <3>2 DEF Restart
  <2>4. CASE SaveCheck(t) \/ SaveKeychain(t) \/ SaveDisk(t) \/ SaveList(t) \/ Write(t)
    <3>1. (\E job : Becomes(t, job)) /\ ~At(t, "activate") /\ UNCHANGED system
      BY <2>4 DEF SaveCheck, SaveKeychain, SaveDisk, SaveList, Write, Return, Goto, At
    <3> QED BY <3>1, OthersServed
  <2>9. CASE Fill(t) \/ DeleteLook(t)
    <3>1. (\E job : Becomes(t, job)) /\ ~At(t, "activate") /\ UNCHANGED container
      BY <2>9 DEF Fill, DeleteLook, Return, Goto, At
    <3>2. task[t].name \in Name
      BY <2>9, Working DEF Fill, DeleteLook, At, Steps, Ops, Writers, Job
    <3>3. table' = table \/ \E places \in SUBSET Place : table' = Astray(task[t].name, places)
      BY <2>9 DEF Fill, DeleteLook
    <3>4. CASE table' = table
      <4>1. UNCHANGED system
        BY <3>1, <3>4 DEF system
      <4> QED BY <3>1, <4>1, OthersServed
    <3>5. CASE \E places \in SUBSET Place : table' = Astray(task[t].name, places)
      <4>1. \E m \in Name, places \in SUBSET Place : table' = Astray(m, places)
        BY <3>2, <3>5
      <4> QED BY <3>1, <4>1, OthersServed
    <3> QED BY <3>3, <3>4, <3>5
  <2>5. CASE Unmount(t) \/ DeleteUnmount(t) \/ QuitNext(t)
    <3>1. (\E job : Becomes(t, job)) /\ ~At(t, "activate")
      BY <2>5 DEF Unmount, DeleteUnmount, QuitNext, Return, Goto, At
    <3>2. UNCHANGED system \/ \E p \in Place : Unmounted(p)
      <4>1. task[t] \in Job
        BY <2>5, Working DEF Unmount, DeleteUnmount, QuitNext, At, Steps, Ops
      <4>2. task[t].name \in Place /\ task[t].place \in Place /\ task[t].todo \subseteq Place
        BY <4>1 DEF Job, Place
      <4>3. \A n \in DOMAIN Load : Load[n].point \in Place
        BY Loaded, Listed DEF JobsInv, Connection
      <4> QED BY <2>5, <4>2, <4>3 DEF Unmount, DeleteUnmount, QuitNext
    <3> QED BY <3>1, <3>2, OthersServed
  <2>6. CASE Quit(t) \/ DeleteKeychain(t) \/ DeleteDisk(t)
    <3>1. (\E job : Becomes(t, job)) /\ ~At(t, "activate") /\ UNCHANGED system
      BY <2>6 DEF Quit, DeleteKeychain, DeleteDisk, Return, Goto, At
    <3> QED BY <3>1, OthersServed
  <2>7. CASE MountPlan(t) \/ PromptPlan(t) \/ PromptKeychain(t) \/ PromptDisk(t)
    <3>1. (\E job : Becomes(t, job)) /\ ~At(t, "activate") /\ UNCHANGED system
      BY <2>7 DEF MountPlan, PromptPlan, PromptKeychain, PromptDisk, Return, Goto, At
    <3> QED BY <3>1, OthersServed
  <2>8. CASE AutoMount(t) \/ AutoNext(t) \/ AutoDone(t)
    <3>1. (\E job : Becomes(t, job)) /\ ~At(t, "activate") /\ UNCHANGED system
      BY <2>8 DEF AutoMount, AutoNext, AutoDone, At
    <3> QED BY <3>1, OthersServed
  <2> QED BY <1>1, <2>1, <2>2, <2>3, <2>4, <2>5, <2>6, <2>7, <2>8, <2>9 DEF Operate
<1>2. ASSUME NEW t \in Task, NEW op \in Ops, NEW n \in Name, NEW f \in Form \cup {NoSecret},
             Call(t, op, n, f)
      PROVE  ReadyMeansServed'
  BY <1>2, OthersServed DEF Call, At, Idle
<1>3. CASE Kill
  BY <1>3, DeathServed DEF Kill
<1>4. CASE UNCHANGED vars
  BY <1>4 DEF vars, system, ReadyMeansServed, At
<1> QED BY <1>1, <1>2, <1>3, <1>4 DEF Next

(* However activations fail, mounts are dropped and the application dies,  *)
(* an instance of the extension is never left ready with no volume.        *)
THEOREM NoneStuckReady == Spec => []ReadyMeansServed
<1>1. Init => ReadyMeansServed
  BY DEF Init, ReadyMeansServed
<1> QED BY <1>1, InitJobs, NextJobs, NextServed, PTL DEF Spec

-----------------------------------------------------------------------------
(* The Keychain flag.  It is true of the registry because it is true of    *)
(* every list a task is about to write, and becomes true before one is     *)
(* made; a secret is forgotten only when the file no longer lists it.      *)

TrueList(list) == \A n \in DOMAIN list : list[n].keychain => keychain[n] # NoSecret

TrueTask(t) ==
    /\ At(t, "store") => task[t].secret # NoSecret /\ (task[t].conn.keychain => task[t].form.keychain)
    /\ At(t, "store on disk") \/ At(t, "list") =>
           (task[t].conn.keychain => keychain[task[t].name] # NoSecret)
    /\ At(t, "unmount first") \/ At(t, "write") \/ At(t, "fill") =>
           /\ TrueList(task[t].list)
           /\ task[t].op = "delete" => task[t].name \notin DOMAIN task[t].list
    /\ At(t, "forget") => file.readable /\ task[t].name \notin DOMAIN file.list
    /\ At(t, "prompt") \/ At(t, "keep") => task[t].form.secret # NoSecret

Writing(t) == task[t] # Idle /\ task[t].op \in Writers

OneWriter == \A t, u \in Task : Writing(t) /\ Writing(u) => t = u

FlagInv == TrueList(Load) /\ OneWriter /\ \A t \in Task : task[t] # Idle => TrueTask(t)

(* A step that takes no secret out of the Keychain and leaves the file. *)
LEMMA StepFlags ==
    ASSUME JobsInv, FlagInv, NEW t \in Task, NEW job, Becomes(t, job), UNCHANGED file,
           \A n \in Name : keychain[n] # NoSecret => keychain'[n] # NoSecret,
           task[t] # Idle,
           job # Idle => job.op = task[t].op /\ TrueTask(t)'
    PROVE  FlagInv'
<1>1. ASSUME NEW list \in Registry, TrueList(list) PROVE TrueList(list)'
  BY <1>1, Listed DEF TrueList
<1>2. Load' = Load
  BY DEF Load
<1>3. TrueList(Load)'
  BY <1>1, <1>2, Loaded DEF FlagInv, JobsInv
<1>4. task'[t] = job /\ \A u \in Task \ {t} : task'[u] = task[u]
  BY DEF Becomes, JobsInv
<1>5. OneWriter'
  BY <1>4 DEF FlagInv, OneWriter, Writing
<1>6. ASSUME NEW u \in Task, task'[u] # Idle PROVE TrueTask(u)'
  <2>1. CASE u = t
    BY <1>4, <1>6, <2>1
  <2>2. CASE u # t
    <3>1. task'[u] = task[u] /\ task[u] \in Job /\ TrueTask(u)
      BY <1>4, <1>6, <2>2 DEF FlagInv, JobsInv, GoodJob
    <3>2. task[u].list \in Registry /\ task[u].name \in Name
      BY <3>1 DEF Job
    <3>3. TrueList(task[u].list) => TrueList(task[u].list)'
      <4>1. PICK list \in Registry : list = task[u].list
        BY <3>2
      <4> QED BY <1>1, <3>1, <4>1
    <3> QED BY <3>1, <3>2, <3>3 DEF TrueTask, At
  <2> QED BY <2>1, <2>2
<1> QED BY <1>3, <1>5, <1>6 DEF FlagInv

LEMMA FormFlag == ASSUME NEW f \in Form PROVE FromForm(f).keychain => f.s3 /\ f.keychain
  BY DEF FromForm

(* save_connection up to the list it makes. *)
LEMMA SaveFlags ==
    ASSUME JobsInv, FlagInv, NEW t \in Task,
           SaveCheck(t) \/ SaveKeychain(t) \/ SaveDisk(t) \/ SaveList(t)
    PROVE  FlagInv'
<1>1. /\ task[t] # Idle /\ task[t] \in Job /\ Does(task[t]) /\ TrueTask(t)
      /\ task[t].pc \in {"create", "edit", "store", "store on disk", "list"}
  <2>1. \E s \in {"create", "edit", "store", "store on disk", "list"} : At(t, s)
    BY DEF SaveCheck, SaveKeychain, SaveDisk, SaveList
  <2>2. {"create", "edit", "store", "store on disk", "list"} \subseteq Steps
    BY DEF Steps, Ops, Writers
  <2>3. task[t].pc \in {"create", "edit", "store", "store on disk", "list"}
    BY <2>1 DEF At
  <2>4. task[t] # Idle
    <3>1. Idle.pc = "idle"
      BY DEF Idle
    <3>2. task[t].pc # "idle"
      BY <2>3
    <3> QED BY <3>1, <3>2
  <2> QED BY <2>1, <2>2, <2>3, <2>4, Working DEF FlagInv
<1>2. task[t].op \in {"create", "edit"} /\ task[t].form \in Form
  BY <1>1 DEF Does, Ops, Writers
<1>3. task[t].name \in Name /\ task[t].conn \in Connection
  BY <1>1 DEF Job
<1>4. ASSUME Return(t), UNCHANGED <<file, keychain>> PROVE FlagInv'
  <2>1. Becomes(t, Idle)
    BY <1>2, <1>4 DEF Return, Returned
  <2> QED BY <1>1, <1>4, <2>1, StepFlags
<1>5. CASE SaveCheck(t)
  <2>1. CASE Return(t)
    BY <1>4, <1>5, <2>1 DEF SaveCheck, stores
  <2>2. CASE ~Return(t)
    <3> DEFINE n == task[t].name
               stored == IF keychain[n] # NoSecret THEN keychain[n] ELSE disk[n]
               given == IF task[t].form.secret = NoSecret THEN stored ELSE task[t].form.secret
               new == [task[t] EXCEPT !.secret = given, !.conn = FromForm(task[t].form),
                                      !.pc = IF task[t].form.s3 THEN "store" ELSE "list"]
    <3>1. PICK job : job = new
      OBVIOUS
    <3>2. Becomes(t, job) /\ (task[t].form.s3 => given # NoSecret)
      BY <1>5, <2>2, <3>1 DEF SaveCheck
    <3>3. /\ job.op = task[t].op /\ job.secret = given /\ job.conn = FromForm(task[t].form)
          /\ job.form = task[t].form /\ job.pc = IF task[t].form.s3 THEN "store" ELSE "list"
      BY <1>1, <3>1 DEF Job
    <3> HIDE DEF given, new
    <3>4. task'[t] = job
      BY <3>2 DEF Becomes, JobsInv
    <3>5. TrueTask(t)'
      BY <1>2, <3>2, <3>3, <3>4, FormFlag DEF TrueTask, At
    <3> QED BY <1>1, <1>5, <3>2, <3>3, <3>5, StepFlags DEF SaveCheck, stores
  <2> QED BY <2>1, <2>2
<1>6. ASSUME NEW s \in {"store on disk", "list"}, Goto(t, s), UNCHANGED file,
             \A n \in Name : keychain[n] # NoSecret => keychain'[n] # NoSecret,
             task[t].conn.keychain => keychain'[task[t].name] # NoSecret
      PROVE  FlagInv'
  <2>1. PICK job : job = [task[t] EXCEPT !.pc = s]
    OBVIOUS
  <2>2. Becomes(t, job)
    BY <1>6, <2>1 DEF Goto
  <2>3. job.op = task[t].op /\ job.name = task[t].name /\ job.conn = task[t].conn /\ job.pc = s
    BY <1>1, <2>1 DEF Job
  <2>4. task'[t] = job
    BY <2>2 DEF Becomes, JobsInv
  <2>5. TrueTask(t)'
    BY <1>6, <2>3, <2>4 DEF TrueTask, At
  <2> QED BY <1>1, <1>6, <2>2, <2>3, <2>5, StepFlags
<1>7. CASE SaveKeychain(t)
  <2>1. task[t].secret # NoSecret /\ (task[t].conn.keychain => task[t].form.keychain)
    BY <1>1, <1>7 DEF SaveKeychain, TrueTask
  <2>2. CASE Return(t) /\ UNCHANGED keychain
    BY <1>4, <1>7, <2>2 DEF SaveKeychain
  <2>3. CASE StoreInKeychain(task[t].name, task[t].secret) /\ Goto(t, "store on disk")
    <3>1. \A n \in Name : keychain[n] # NoSecret => keychain'[n] # NoSecret
      BY <2>1, <2>3 DEF StoreInKeychain, JobsInv, TypeOK
    <3>2. keychain'[task[t].name] # NoSecret
      BY <1>3, <2>1, <2>3 DEF StoreInKeychain, JobsInv, TypeOK
    <3> QED BY <1>6, <1>7, <2>3, <3>1, <3>2 DEF SaveKeychain
  <2>4. CASE ~task[t].form.keychain /\ Goto(t, "store on disk") /\ UNCHANGED keychain
    BY <1>6, <1>7, <2>1, <2>4 DEF SaveKeychain
  <2> QED BY <1>7, <2>2, <2>3, <2>4 DEF SaveKeychain
<1>8. CASE SaveDisk(t)
  <2>1. task[t].conn.keychain => keychain[task[t].name] # NoSecret
    BY <1>1, <1>8 DEF SaveDisk, TrueTask
  <2>2. CASE Return(t)
    BY <1>4, <1>8, <2>2 DEF SaveDisk
  <2>3. CASE Goto(t, "list")
    BY <1>6, <1>8, <2>1, <2>3 DEF SaveDisk
  <2> QED BY <1>8, <2>2, <2>3 DEF SaveDisk
<1>9. CASE SaveList(t)
  <2>1. CASE Return(t)
    BY <1>4, <1>9, <2>1 DEF SaveList, stores
  <2>2. CASE ~Return(t)
    <3> DEFINE list == [n \in DOMAIN Load \cup {task[t].name} |->
                           IF n = task[t].name THEN task[t].conn ELSE Load[n]]
    <3>1. PICK job : job = [task[t] EXCEPT !.pc = "write", !.list = list]
      OBVIOUS
    <3>2. Becomes(t, job) /\ UNCHANGED <<file, keychain>>
      BY <1>9, <2>2, <3>1 DEF SaveList, stores
    <3>3. TrueList(list)
      BY <1>1, <1>9 DEF FlagInv, TrueList, TrueTask, SaveList
    <3>4. PICK l : l = list
      OBVIOUS
    <3>5. TrueList(l)'
      BY <3>2, <3>3, <3>4 DEF TrueList
    <3> HIDE DEF list
    <3>6. job.op = task[t].op /\ job.list = l /\ job.pc = "write"
      BY <1>1, <3>1, <3>4 DEF Job
    <3>7. task'[t] = job
      BY <3>2 DEF Becomes, JobsInv
    <3>8. TrueTask(t)'
      BY <1>2, <3>5, <3>6, <3>7 DEF TrueTask, At
    <3> QED BY <1>1, <3>2, <3>6, <3>8, StepFlags
  <2> QED BY <2>1, <2>2
<1> QED BY <1>5, <1>7, <1>8, <1>9

(* Registry::save and what follows it in a delete: nobody else is writing. *)
LEMMA WriteFlags ==
    ASSUME JobsInv, FlagInv, NEW t \in Task, Write(t) \/ Fill(t) PROVE FlagInv'
<1>1. /\ task[t] \in Job /\ Does(task[t]) /\ task[t] # Idle /\ TrueTask(t)
      /\ task[t].pc \in {"write", "fill"}
  <2>1. task[t] \in Job /\ Does(task[t]) /\ task[t].pc \in {"write", "fill"}
    BY Working DEF Write, Fill, At, Steps
  <2>2. Idle.pc = "idle"
    BY DEF Idle
  <2>3. task[t] # Idle
    BY <2>1, <2>2
  <2> QED BY <2>1, <2>3 DEF FlagInv
<1>2. task[t].op \in Writers
  BY <1>1 DEF Does
<1>3. /\ TrueList(task[t].list)
      /\ task[t].op = "delete" => task[t].name \notin DOMAIN task[t].list
  BY <1>1 DEF TrueTask, At
<1>4. UNCHANGED keychain
  BY DEF Write, Fill, stores
<1>5. \A list : TrueList(list) => TrueList(list)'
  BY <1>4 DEF TrueList
<1> DEFINE Left(job) ==
               /\ Becomes(t, job)
               /\ job # Idle => /\ job.op = task[t].op /\ job.name = task[t].name
                                /\ job.list = task[t].list /\ job.pc \in {"fill", "forget"}
               /\ job # Idle /\ job.pc = "forget" =>
                      job.op = "delete" /\ file'.readable /\ file'.list = task[t].list
<1>6. PICK job : Left(job)
  <2>1. CASE Return(t)
    <3>1. Becomes(t, Idle)
      BY <1>2, <2>1 DEF Return, Returned, Writers
    <3> QED BY <3>1
  <2>2. ASSUME NEW s \in {"fill", "forget"}, Goto(t, s),
               s = "forget" => Fill(t) /\ task[t].op = "delete"
                               /\ file' = [readable |-> TRUE, list |-> task[t].list]
        PROVE  \E job : Left(job)
    <3>1. PICK job : job = [task[t] EXCEPT !.pc = s]
      OBVIOUS
    <3>2. Becomes(t, job)
      BY <2>2, <3>1 DEF Goto
    <3>3. job.op = task[t].op /\ job.name = task[t].name /\ job.list = task[t].list /\ job.pc = s
      BY <1>1, <3>1 DEF Job
    <3>4. s = "forget" => file'.readable /\ file'.list = task[t].list
      BY <2>2
    <3> QED BY <2>2, <3>2, <3>3, <3>4
  <2> QED BY <2>1, <2>2 DEF Write, Fill
<1>7. task'[t] = job /\ \A u \in Task \ {t} : task'[u] = task[u]
  BY <1>6 DEF Becomes, JobsInv
<1>8. OneWriter'
  BY <1>1, <1>2, <1>6, <1>7 DEF FlagInv, OneWriter, Writing
<1>9. TrueList(Load)'
  <2>1. file' \in {file, Torn, [readable |-> TRUE, list |-> task[t].list]}
    BY DEF Write, Fill
  <2>2. TrueList(WithDefaults)'
    BY DEF TrueList, WithDefaults
  <2>3. Load' \in {Load, WithDefaults, task[t].list}
    BY <2>1 DEF Load, Torn
  <2> QED BY <1>3, <1>5, <2>2, <2>3 DEF FlagInv
<1>10. ASSUME NEW u \in Task, task'[u] # Idle PROVE TrueTask(u)'
  <2>1. CASE u = t
    <3>1. \A list : list = task[t].list => TrueList(list)'
      BY <1>3, <1>5
    <3> QED BY <1>1, <1>3, <1>6, <1>7, <1>10, <2>1, <3>1 DEF TrueTask, At
  <2>2. CASE u # t
    <3>1. task'[u] = task[u] /\ task[u] # Idle /\ Does(task[u]) /\ TrueTask(u)
      BY <1>7, <1>10, <2>2 DEF FlagInv, JobsInv, GoodJob
    <3>2. task[u].op \notin Writers
      BY <1>1, <1>2, <2>2, <3>1 DEF FlagInv, OneWriter, Writing
    <3>3. task[u].pc \notin {"store", "store on disk", "list", "unmount first", "write", "fill", "forget"}
      BY <3>1, <3>2 DEF Does, Writers
    <3> QED BY <3>1, <3>3 DEF TrueTask, At
  <2> QED BY <2>1, <2>2
<1> QED BY <1>8, <1>9, <1>10 DEF FlagInv

LEMMA DeleteFlags ==
    ASSUME JobsInv, FlagInv, NEW t \in Task, DeleteLook(t) \/ DeleteUnmount(t) \/ DeleteDisk(t)
    PROVE  FlagInv'
<1>1. /\ task[t] \in Job /\ Does(task[t]) /\ task[t] # Idle /\ TrueTask(t) /\ task[t].op = "delete"
      /\ task[t].pc \in {"delete", "unmount first", "forget on disk"}
  <2>1. task[t] \in Job /\ Does(task[t]) /\ task[t].pc \in {"delete", "unmount first", "forget on disk"}
    BY Working DEF DeleteLook, DeleteUnmount, DeleteDisk, At, Steps, Ops, Writers
  <2>2. Idle.pc = "idle"
    BY DEF Idle
  <2>3. task[t] # Idle
    BY <2>1, <2>2
  <2> QED BY <2>1, <2>3 DEF FlagInv, Does, Ops, Writers
<1>2. UNCHANGED <<file, keychain>>
  BY DEF DeleteLook, DeleteUnmount, DeleteDisk, stores
<1>3. \A list : TrueList(list) => TrueList(list)'
  BY <1>2 DEF TrueList
<1>4. CASE Return(t)
  <2>1. Becomes(t, Idle)
    BY <1>1, <1>4 DEF Return, Returned
  <2> QED BY <1>1, <1>2, <2>1, StepFlags
<1>5. CASE Goto(t, "write") /\ DeleteUnmount(t)
  <2>1. PICK job : job = [task[t] EXCEPT !.pc = "write"]
    OBVIOUS
  <2>2. Becomes(t, job)
    BY <1>5, <2>1 DEF Goto
  <2>3. job.op = task[t].op /\ job.list = task[t].list /\ job.name = task[t].name /\ job.pc = "write"
    BY <1>1, <2>1 DEF Job
  <2>4. TrueList(task[t].list) /\ task[t].name \notin DOMAIN task[t].list
    BY <1>1, <1>5 DEF DeleteUnmount, TrueTask
  <2>5. task'[t] = job
    BY <2>2 DEF Becomes, JobsInv
  <2>6. \A list : list = task[t].list => TrueList(list)'
    BY <1>3, <2>4
  <2>7. TrueTask(t)'
    BY <2>3, <2>4, <2>5, <2>6 DEF TrueTask, At
  <2> QED BY <1>1, <1>2, <2>2, <2>3, <2>7, StepFlags
<1>6. CASE DeleteLook(t)
  <2>1. PICK l : l = [m \in DOMAIN Load \ {task[t].name} |-> Load[m]]
    OBVIOUS
  <2>2. PICK job : /\ Becomes(t, job) /\ job.list = l /\ job.op = "delete" /\ job.name = task[t].name
                   /\ job.pc \in {"unmount first", "write"}
    <3> DEFINE n == task[t].name
               home == IF n \in DOMAIN Load THEN Load[n].point ELSE n
               first(seen) == IF n \in DOMAIN Load /\ home \in seen THEN "unmount first" ELSE "write"
    <3>0. PICK seen \in MountsSeen :
              Becomes(t, [[task[t] EXCEPT !.list = l, !.place = home] EXCEPT !.pc = first(seen)])
      BY <1>6, <2>1 DEF DeleteLook
    <3>1. PICK place : place = home
      OBVIOUS
    <3>4. PICK step \in {"unmount first", "write"} : step = first(seen)
      OBVIOUS
    <3> HIDE DEF home, first
    <3>2. PICK job : job = [[task[t] EXCEPT !.list = l, !.place = place] EXCEPT !.pc = step]
      OBVIOUS
    <3>3. job.list = l /\ job.op = "delete" /\ job.name = task[t].name /\ job.pc = step
      BY <1>1, <3>2 DEF Job
    <3> QED BY <3>0, <3>1, <3>2, <3>3, <3>4
  <2>3. TrueList(l)'
    BY <1>2, <2>1 DEF FlagInv, TrueList
  <2>4. task[t].name \notin DOMAIN l
    BY <2>1
  <2>5. task'[t] = job
    BY <2>2 DEF Becomes, JobsInv
  <2>6. TrueTask(t)'
    BY <2>2, <2>3, <2>4, <2>5 DEF TrueTask, At
  <2> QED BY <1>1, <1>2, <2>2, <2>6, StepFlags
<1> QED BY <1>4, <1>5, <1>6 DEF DeleteUnmount, DeleteDisk

LEMMA ForgetFlags == ASSUME JobsInv, FlagInv, NEW t \in Task, DeleteKeychain(t) PROVE FlagInv'
<1>1. /\ task[t] \in Job /\ Does(task[t]) /\ task[t] # Idle /\ TrueTask(t) /\ task[t].op = "delete"
      /\ task[t].name \in Name
  <2>1. task[t] \in Job /\ Does(task[t]) /\ task[t].pc = "forget"
    BY Working DEF DeleteKeychain, At, Steps
  <2>2. Idle.pc = "idle"
    BY DEF Idle
  <2>3. task[t] # Idle
    BY <2>1, <2>2
  <2> QED BY <2>1, <2>3 DEF FlagInv, Does, Job
<1>2. file.readable /\ task[t].name \notin DOMAIN file.list
  BY <1>1 DEF DeleteKeychain, TrueTask
<1>3. \A n \in Name \ {task[t].name} : keychain'[n] = keychain[n]
  BY DEF DeleteKeychain, StoreInKeychain, JobsInv, TypeOK
<1>4. UNCHANGED file
  BY DEF DeleteKeychain
<1>5. TrueList(Load)'
  <2>1. Load' = Load /\ Load = file.list
    BY <1>2, <1>4 DEF Load
  <2>2. DOMAIN Load \subseteq Name \ {task[t].name}
    BY <1>2, <2>1, Loaded, Listed DEF JobsInv
  <2> QED BY <1>3, <2>1, <2>2 DEF FlagInv, TrueList
<1>6. PICK job : Becomes(t, job) /\ job.op = task[t].op /\ job.pc = "forget on disk"
  <2>1. PICK job : job = [task[t] EXCEPT !.pc = "forget on disk"]
    OBVIOUS
  <2>2. Becomes(t, job)
    BY <2>1 DEF DeleteKeychain, Goto
  <2>3. job.op = task[t].op /\ job.pc = "forget on disk"
    BY <1>1, <2>1 DEF Job
  <2> QED BY <2>2, <2>3
<1>7. task'[t] = job /\ \A u \in Task \ {t} : task'[u] = task[u]
  BY <1>6 DEF Becomes, JobsInv
<1>8. OneWriter'
  BY <1>1, <1>6, <1>7 DEF FlagInv, OneWriter, Writing
<1>9. ASSUME NEW u \in Task, task'[u] # Idle PROVE TrueTask(u)'
  <2>1. CASE u = t
    BY <1>6, <1>7, <2>1 DEF TrueTask, At
  <2>2. CASE u # t
    <3>1. task'[u] = task[u] /\ task[u] # Idle /\ Does(task[u]) /\ TrueTask(u)
      BY <1>7, <1>9, <2>2 DEF FlagInv, JobsInv, GoodJob
    <3>2. task[u].op \notin Writers
      BY <1>1, <2>2, <3>1 DEF FlagInv, OneWriter, Writing, Writers
    <3>3. task[u].pc \notin {"store", "store on disk", "list", "unmount first", "write", "fill", "forget"}
      BY <3>1, <3>2 DEF Does, Writers
    <3> QED BY <3>1, <3>3 DEF TrueTask, At
  <2> QED BY <2>1, <2>2
<1> QED BY <1>5, <1>8, <1>9 DEF FlagInv

(* The steps between the stores: a plan, a snapshot, a load. *)
Elsewhere == {"next", "load", "activate"}

LEMMA ElsewhereFlags ==
    ASSUME JobsInv, FlagInv, UNCHANGED <<file, keychain>>,
           \A u \in Task : \/ task'[u] = task[u] \/ task'[u] = Idle
                           \/ /\ task'[u].pc \in Elsewhere
                              /\ Writing(u)' => Writing(u)
    PROVE  FlagInv'
<1>1. \A list : TrueList(list) => TrueList(list)'
  BY DEF TrueList
<1>2. TrueList(Load)'
  BY DEF FlagInv, TrueList, Load, WithDefaults
<1>3. \A u \in Task : Writing(u)' => Writing(u)
  BY DEF Writing
<1>4. OneWriter'
  BY <1>3 DEF FlagInv, OneWriter
<1>5. ASSUME NEW u \in Task, task'[u] # Idle PROVE TrueTask(u)'
  <2>1. CASE task'[u] = task[u]
    <3>1. TrueTask(u) /\ \A list : list = task[u].list /\ TrueList(task[u].list) => TrueList(list)'
      BY <1>1, <1>5, <2>1 DEF FlagInv
    <3> QED BY <2>1, <3>1 DEF TrueTask, At
  <2>2. CASE task'[u].pc \in Elsewhere
    BY <2>2 DEF TrueTask, At, Elsewhere
  <2> QED BY <1>5, <2>1, <2>2
<1> QED BY <1>2, <1>4, <1>5 DEF FlagInv

LEMMA ReturnFlags ==
    ASSUME JobsInv, FlagInv, NEW t \in Task, task[t] \in Job, task[t] # Idle, Return(t),
           UNCHANGED <<file, keychain>>
    PROVE  FlagInv'
<1>1. \A u \in Task \ {t} : task'[u] = task[u]
  BY DEF Return, Becomes, JobsInv
<1>2. task'[t] = Returned(task[t])
  BY DEF Return, Becomes, JobsInv
<1>3. \/ task'[t] = Idle
      \/ task'[t].pc \in Elsewhere /\ task'[t].op = task[t].op
  <2>1. PICK job : job = [task[t] EXCEPT !.pc = "next"]
    OBVIOUS
  <2>2. job.pc = "next" /\ job.op = task[t].op
    BY <2>1 DEF Job
  <2> QED BY <1>2, <2>1, <2>2 DEF Returned, Elsewhere
<1> QED BY <1>1, <1>3, ElsewhereFlags DEF Writing

LEMMA NotIdle == ASSUME NEW job, NEW s \in Steps, job.pc = s PROVE job # Idle
<1>1. Idle.pc = "idle"
  BY DEF Idle
<1>2. s # "idle"
  BY DEF Steps, Ops, Writers
<1> QED BY <1>1, <1>2

LEMMA MovesFlags ==
    ASSUME JobsInv, FlagInv, NEW t \in Task, task[t] # Idle, NEW job, Becomes(t, job),
           job = Idle \/ (job.pc \in Elsewhere /\ job.op = task[t].op),
           UNCHANGED <<file, keychain>>
    PROVE  FlagInv'
<1>1. task'[t] = job /\ \A u \in Task \ {t} : task'[u] = task[u]
  BY DEF Becomes, JobsInv
<1> QED BY <1>1, ElsewhereFlags DEF Writing

LEMMA ToMountMoves ==
    ASSUME NEW job \in Job, NEW n, NEW c, NEW secret, NEW s
    PROVE  /\ ToMount(job, n, c, secret, s).pc = s
           /\ ToMount(job, n, c, secret, s).op = job.op
           /\ ToMount(job, n, c, secret, s).form = job.form
  BY DEF ToMount, Job

LEMMA MountFlags ==
    ASSUME JobsInv, FlagInv, NEW t \in Task,
           \/ Unmount(t) \/ Quit(t) \/ QuitNext(t) \/ MountPlan(t)
           \/ AutoMount(t) \/ AutoNext(t) \/ AutoDone(t)
           \/ LoadResource(t) \/ LoadFails(t) \/ Activate(t) \/ ActivateFails(t)
    PROVE  FlagInv'
<1>1. task[t] \in Job /\ task[t] # Idle
  <2>1. \E s \in {"unmount", "quit", "next", "mount", "auto", "load", "activate"} : At(t, s)
    BY DEF Unmount, Quit, QuitNext, MountPlan, AutoMount, AutoNext, AutoDone, LoadResource,
           LoadFails, Activate, ActivateFails
  <2>2. {"unmount", "quit", "next", "mount", "auto", "load", "activate"} \subseteq Steps
    BY DEF Steps, Ops
  <2>3. PICK s \in Steps : At(t, s)
    BY <2>1, <2>2
  <2> QED BY <2>3, Working, NotIdle DEF At
<1>2. UNCHANGED <<file, keychain>>
  BY DEF Unmount, Quit, QuitNext, MountPlan, AutoMount, AutoNext, AutoDone, LoadResource,
         LoadFails, Activate, ActivateFails, stores
<1>3. CASE Return(t)
  BY <1>1, <1>2, <1>3, ReturnFlags
<1>4. ASSUME \E job : Becomes(t, job) /\ (job = Idle \/ (job.pc \in Elsewhere /\ job.op = task[t].op))
      PROVE  FlagInv'
  BY <1>1, <1>2, <1>4, MovesFlags
<1>5. CASE Quit(t)
  <2>0. PICK seen : Becomes(t, [task[t] EXCEPT !.pc = "next", !.todo = seen])
    BY <1>5 DEF Quit
  <2>1. PICK job : job = [task[t] EXCEPT !.pc = "next", !.todo = seen]
    OBVIOUS
  <2>2. Becomes(t, job)
    BY <2>0, <2>1
  <2>3. job.pc \in Elsewhere /\ job.op = task[t].op
    BY <1>1, <2>1 DEF Job, Elsewhere
  <2> QED BY <1>4, <2>2, <2>3
<1>6. CASE QuitNext(t)
  <2>1. PICK p : Becomes(t, [task[t] EXCEPT !.todo = @ \ {p}])
    BY <1>6 DEF QuitNext
  <2>2. PICK job : job = [task[t] EXCEPT !.todo = @ \ {p}]
    OBVIOUS
  <2>3. job.pc = task[t].pc /\ job.op = task[t].op
    BY <1>1, <2>2 DEF Job
  <2>4. task[t].pc \in Elsewhere
    BY <1>6 DEF QuitNext, At, Elsewhere
  <2> QED BY <1>4, <2>1, <2>2, <2>3, <2>4
<1>7. CASE MountPlan(t) /\ ~Return(t)
  <2>1. PICK n, c, secret : Becomes(t, ToMount(task[t], n, c, secret, "load"))
    BY <1>7 DEF MountPlan
  <2>2. PICK job : job = ToMount(task[t], n, c, secret, "load")
    OBVIOUS
  <2>3. job.pc \in Elsewhere /\ job.op = task[t].op
    BY <1>1, <2>2, ToMountMoves DEF Elsewhere
  <2> QED BY <1>4, <2>1, <2>2, <2>3
<1>8. CASE AutoMount(t)
  <2>1. PICK todo : Becomes(t, [task[t] EXCEPT !.pc = "next", !.list = Load, !.todo = todo])
    BY <1>8 DEF AutoMount
  <2>2. PICK job : job = [task[t] EXCEPT !.pc = "next", !.list = Load, !.todo = todo]
    OBVIOUS
  <2>3. Becomes(t, job)
    BY <2>1, <2>2
  <2>4. job.pc \in Elsewhere /\ job.op = task[t].op
    BY <1>1, <2>2 DEF Job, Elsewhere
  <2> QED BY <1>4, <2>3, <2>4
<1>9. CASE AutoNext(t)
  <2>1. PICK n \in task[t].todo :
            LET rest == [task[t] EXCEPT !.todo = @ \ {n}]
            IN  \/ \E c, secret : Becomes(t, ToMount(rest, n, c, secret, "load"))
                \/ Becomes(t, rest)
    BY <1>9 DEF AutoNext
  <2>2. PICK rest : rest = [task[t] EXCEPT !.todo = @ \ {n}]
    OBVIOUS
  <2>3. task[t].pc = "next" /\ task[t].todo \subseteq Place
    BY <1>1, <1>9 DEF AutoNext, At, Job
  <2>4. rest \in Job /\ rest.pc = "next" /\ rest.op = task[t].op
    BY <1>1, <2>2, <2>3 DEF Job
  <2>5. CASE Becomes(t, rest)
    BY <1>4, <2>4, <2>5 DEF Elsewhere
  <2>6. ASSUME NEW c, NEW secret, Becomes(t, ToMount(rest, n, c, secret, "load")) PROVE FlagInv'
    <3>1. PICK job : job = ToMount(rest, n, c, secret, "load")
      OBVIOUS
    <3>2. job.pc \in Elsewhere /\ job.op = task[t].op
      BY <2>4, <3>1, ToMountMoves DEF Elsewhere
    <3> QED BY <1>4, <2>6, <3>1, <3>2
  <2> QED BY <2>1, <2>2, <2>5, <2>6
<1>10. CASE AutoDone(t)
  BY <1>4, <1>10 DEF AutoDone
<1>11. CASE LoadResource(t)
  <2>1. PICK built : built = Built(task[t].name, task[t].conn, NoSecret)
    OBVIOUS
  <2>2. PICK job : job = [task[t] EXCEPT !.pc = "activate", !.backend = built]
    OBVIOUS
  <2>3. Becomes(t, job)
    BY <1>11, <2>1, <2>2 DEF LoadResource
  <2>4. job.pc \in Elsewhere /\ job.op = task[t].op
    BY <1>1, <2>2 DEF Job, Elsewhere
  <2> QED BY <1>4, <2>3, <2>4
<1> QED BY <1>3, <1>5, <1>6, <1>7, <1>8, <1>9, <1>10, <1>11
        DEF Unmount, LoadFails, Activate, ActivateFails

LEMMA PromptFlags ==
    ASSUME JobsInv, FlagInv, NEW t \in Task, PromptPlan(t) \/ PromptKeychain(t) \/ PromptDisk(t)
    PROVE  FlagInv'
<1>1. /\ task[t] \in Job /\ task[t] # Idle /\ Does(task[t]) /\ TrueTask(t)
      /\ task[t].pc \in {"prompt", "keep", "keep on disk"} /\ task[t].name \in Name
  <2>1. \E s \in {"prompt", "keep", "keep on disk"} : At(t, s)
    BY DEF PromptPlan, PromptKeychain, PromptDisk
  <2>2. {"prompt", "keep", "keep on disk"} \subseteq Steps
    BY DEF Steps, Ops
  <2>3. task[t] \in Job /\ task[t] # Idle /\ Does(task[t])
    BY <2>1, <2>2, Working, NotIdle DEF At
  <2> QED BY <2>1, <2>3 DEF FlagInv, At, Job
<1>2. CASE PromptPlan(t)
  <2>1. UNCHANGED <<file, keychain>> /\ task[t].form.secret # NoSecret
    BY <1>1, <1>2 DEF PromptPlan, stores, TrueTask
  <2>2. CASE Return(t)
    BY <1>1, <2>1, <2>2, ReturnFlags
  <2>3. ASSUME NEW n, NEW c, NEW secret, Becomes(t, ToMount(task[t], n, c, secret, "keep")) PROVE FlagInv'
    <3>1. PICK job : job = ToMount(task[t], n, c, secret, "keep")
      OBVIOUS
    <3>2. job.pc = "keep" /\ job.op = task[t].op /\ job.form = task[t].form
      BY <1>1, <3>1 DEF ToMount, Job
    <3>3. task'[t] = job
      BY <2>3, <3>1 DEF Becomes, JobsInv
    <3>4. TrueTask(t)'
      BY <2>1, <3>2, <3>3 DEF TrueTask, At
    <3> QED BY <1>1, <2>1, <2>3, <3>1, <3>2, <3>4, StepFlags
  <2> QED BY <1>2, <2>2, <2>3 DEF PromptPlan
<1>3. ASSUME NEW s \in {"keep on disk", "load"}, Goto(t, s), UNCHANGED file,
             \A n \in Name : keychain[n] # NoSecret => keychain'[n] # NoSecret
      PROVE  FlagInv'
  <2>1. PICK job : job = [task[t] EXCEPT !.pc = s]
    OBVIOUS
  <2>2. Becomes(t, job)
    BY <1>3, <2>1 DEF Goto
  <2>3. job.pc = s /\ job.op = task[t].op
    BY <1>1, <2>1 DEF Job
  <2>4. task'[t] = job
    BY <2>2 DEF Becomes, JobsInv
  <2>5. TrueTask(t)'
    BY <2>3, <2>4 DEF TrueTask, At
  <2> QED BY <1>1, <1>3, <2>2, <2>3, <2>5, StepFlags
<1>4. CASE PromptKeychain(t)
  <2>1. task[t].form.secret # NoSecret
    BY <1>1, <1>4 DEF PromptKeychain, TrueTask
  <2>2. \A n \in Name : keychain[n] # NoSecret => keychain'[n] # NoSecret
    BY <1>4, <2>1 DEF PromptKeychain, StoreInKeychain, JobsInv, TypeOK
  <2> QED BY <1>3, <1>4, <2>2 DEF PromptKeychain
<1>5. CASE PromptDisk(t)
  BY <1>3, <1>5 DEF PromptDisk
<1> QED BY <1>2, <1>4, <1>5

(* fskitd restarted, or the application gone. *)
LEMMA EndFlags ==
    ASSUME JobsInv, FlagInv, Kill \/ \E t \in Task : Restart(t) \/ QuitDone(t)
    PROVE  FlagInv'
<1>1. UNCHANGED <<file, keychain>>
  BY DEF Kill, Restart, QuitDone, stores
<1>2. ASSUME Dies, NEW u \in Task
      PROVE  task'[u] = Idle \/ (task'[u].pc \in Elsewhere /\ ~Writing(u)')
  <2>1. CASE task[u] # Idle /\ task[u].pc \in {"load", "activate"}
    <3>1. task[u] \in Job
      BY <2>1 DEF JobsInv, TypeOK
    <3>2. PICK job : job = [task[u] EXCEPT !.op = "mount", !.todo = {}]
      OBVIOUS
    <3>3. task'[u] = job
      BY <1>2, <2>1, <3>2 DEF Dies, Dead
    <3>4. job.op = "mount" /\ job.pc = task[u].pc
      BY <3>1, <3>2 DEF Job
    <3> QED BY <2>1, <3>3, <3>4 DEF Writing, Writers, Elsewhere
  <2> QED BY <1>2, <2>1 DEF Dies, Dead
<1>3. CASE Dies
  BY <1>1, <1>2, <1>3, ElsewhereFlags
<1>4. ASSUME NEW t \in Task, Restart(t) PROVE FlagInv'
  <2>1. task[t] \in Job /\ task[t] # Idle
    <3>1. At(t, "restart") /\ "restart" \in Steps
      BY <1>4 DEF Restart, Steps, Ops
    <3> QED BY <3>1, Working, NotIdle DEF At
  <2>2. CASE Return(t)
    BY <1>1, <2>1, <2>2, ReturnFlags
  <2>3. ASSUME NEW job \in Job
        PROVE  Returned(job) = Idle \/ (Returned(job).pc \in Elsewhere /\ Returned(job).op = job.op)
    <3>1. PICK next : next = [job EXCEPT !.pc = "next"]
      OBVIOUS
    <3>2. next.pc = "next" /\ next.op = job.op
      BY <3>1 DEF Job
    <3> QED BY <3>1, <3>2 DEF Returned, Elsewhere
  <2>4. ASSUME ~Return(t), NEW u \in Task
        PROVE  \/ task'[u] = task[u] \/ task'[u] = Idle
               \/ /\ task'[u].pc \in Elsewhere
                  /\ Writing(u)' => Writing(u)
    <3>1. CASE u = t \/ task[u].pc \in {"load", "activate"}
      <4>1. task'[u] = Returned(task[u])
        BY <1>4, <2>4, <3>1 DEF Restart
      <4>2. task[u] \in Job /\ task[u] # Idle
        <5>1. {"load", "activate"} \subseteq Steps
          BY DEF Steps
        <5> QED BY <2>1, <3>1, <5>1, NotIdle DEF JobsInv, TypeOK
      <4> QED BY <2>3, <4>1, <4>2 DEF Writing
    <3>2. CASE ~(u = t \/ task[u].pc \in {"load", "activate"})
      BY <1>4, <2>4, <3>2 DEF Restart
    <3> QED BY <3>1, <3>2
  <2> QED BY <1>1, <2>2, <2>4, ElsewhereFlags
<1> QED BY <1>3, <1>4 DEF Kill, QuitDone

LEMMA CallFlags ==
    ASSUME Serial, JobsInv, FlagInv,
           NEW t \in Task, NEW op \in Ops, NEW n \in Name, NEW f \in Form \cup {NoSecret},
           Call(t, op, n, f)
    PROVE  FlagInv'
<1>1. PICK job : job = Called(op, n, f)
  OBVIOUS
<1>2. job.pc = op /\ job.op = op /\ job.form = f
  BY <1>1 DEF Called
<1>3. task'[t] = job /\ \A u \in Task \ {t} : task'[u] = task[u]
  BY <1>1 DEF Call, Becomes, JobsInv
<1>4. UNCHANGED <<file, keychain>> /\ task[t] = Idle
  BY DEF Call, stores
<1>5. \A list : TrueList(list) => TrueList(list)'
  BY <1>4 DEF TrueList
<1>6. TrueList(Load)'
  BY <1>4 DEF FlagInv, TrueList, Load, WithDefaults
<1>7. op \in Writers => \A u \in Task \ {t} : ~Writing(u)
  BY DEF Call, Apart, Writing
<1>8. OneWriter'
  BY <1>2, <1>3, <1>7 DEF FlagInv, OneWriter, Writing
<1>9. ASSUME NEW u \in Task, task'[u] # Idle PROVE TrueTask(u)'
  <2>1. CASE u = t
    <3>1. op = "prompt" => f.secret # NoSecret
      BY DEF Call, Offered
    <3> QED BY <1>2, <1>3, <2>1, <3>1 DEF TrueTask, At, Ops, Writers
  <2>2. CASE u # t
    <3>1. /\ task'[u] = task[u] /\ TrueTask(u)
          /\ \A list : list = task[u].list /\ TrueList(task[u].list) => TrueList(list)'
      BY <1>3, <1>5, <1>9, <2>2 DEF FlagInv
    <3> QED BY <1>4, <3>1 DEF TrueTask, At
  <2> QED BY <2>1, <2>2
<1> QED BY <1>6, <1>8, <1>9 DEF FlagInv

LEMMA NextFlags == ASSUME Serial PROVE JobsInv /\ FlagInv /\ [Next]_vars => FlagInv'
<1> SUFFICES ASSUME JobsInv, FlagInv, [Next]_vars PROVE FlagInv'
  OBVIOUS
<1>1. ASSUME NEW t \in Task, Operate(t) PROVE FlagInv'
  BY <1>1, SaveFlags, WriteFlags, DeleteFlags, ForgetFlags, MountFlags, PromptFlags, EndFlags DEF Operate
<1>2. CASE UNCHANGED vars
  <2>1. UNCHANGED <<file, keychain, task>>
    BY <1>2 DEF vars, stores
  <2> QED BY <2>1, ElsewhereFlags
<1> QED BY <1>1, <1>2, CallFlags, EndFlags DEF Next

(* Where one form at a time saves or deletes, the registry's Keychain flag *)
(* is true after any failed step of a save, a delete or a prompt, and      *)
(* after the application's death between any two.                          *)
THEOREM FlagIsTrue == ASSUME Serial PROVE Spec => []KeychainFlagIsTrue
<1>1. Init => FlagInv
  BY DEF Init, FlagInv, TrueList, Load, Torn, WithDefaults, OneWriter, Writing
<1>2. FlagInv => KeychainFlagIsTrue
  BY DEF FlagInv, TrueList, KeychainFlagIsTrue
<1>3. JobsInv /\ FlagInv /\ [Next]_vars => FlagInv'
  BY NextFlags
<1> QED BY <1>1, <1>2, <1>3, InitJobs, NextJobs, PTL DEF Spec

-----------------------------------------------------------------------------
(* What a step does, for the proofs that need no more of it.               *)

(* A mount its connection may be found by. *)
Kept(p, n) == Serves(p, n) /\ ~table[p].stray

(* Where a job goes with its connection, list and place as they were. *)
Onward ==
    {<<"store", "store on disk">>, <<"store on disk", "list">>, <<"write", "fill">>, <<"fill", "forget">>,
     <<"unmount first", "write">>, <<"forget", "forget on disk">>, <<"keep", "keep on disk">>,
     <<"keep on disk", "load">>, <<"load", "activate">>}

Same(job, new) == new.op = job.op /\ new.form = job.form

Named(job, new) == Same(job, new) /\ new.name = job.name

Carries(job, new) == Named(job, new) /\ new.list = job.list /\ new.place = job.place /\ new.conn = job.conn

GoesOn(job, new) ==
    /\ Carries(job, new)
    /\ \/ <<job.pc, new.pc>> \in Onward
       \/ job.op \in {"auto", "quit"} /\ new.pc = "next"

Checks(job, new) ==
    /\ job.pc \in {"create", "edit"} /\ new.pc \in {"store", "list"}
    /\ Named(job, new) /\ new.conn = FromForm(job.form)

Enters(job, new) ==
    /\ job.pc = "list" /\ new.pc = "write" /\ Named(job, new)
    /\ new.list = [n \in DOMAIN Load \cup {job.name} |-> IF n = job.name THEN job.conn ELSE Load[n]]

LooksUp(job, new) ==
    /\ job.pc = "delete" /\ Named(job, new)
    /\ new.list = [n \in DOMAIN Load \ {job.name} |-> Load[n]]
    /\ new.pc \in {"unmount first", "write"}
    /\ new.pc = "unmount first" => job.name \in DOMAIN Load /\ new.place = Load[job.name].point
    /\ new.pc = "write" /\ job.name \in DOMAIN Load =>
           \/ table[Load[job.name].point] = NoMount
           \/ \A p \in Place, n \in Name : n = job.name => ~Kept(p, n)'

Plans(job, new) ==
    /\ <<job.pc, new.pc>> \in {<<"mount", "load">>, <<"prompt", "keep">>} /\ Named(job, new)
    /\ job.name \in DOMAIN Load /\ new.place = Load[job.name].point

Snapshots(job, new) ==
    job.pc = "auto" /\ new.pc = "next" /\ Named(job, new) /\ new.list = Load

Takes(job, new) ==
    /\ job.op = "auto" /\ job.pc = "next" /\ new.pc = "load" /\ Same(job, new)
    /\ new.list = job.list /\ new.name \in DOMAIN job.list /\ new.place = job.list[new.name].point

Turns(job, new) ==
    \/ new = Idle
    \/ GoesOn(job, new) \/ Checks(job, new) \/ Enters(job, new) \/ LooksUp(job, new)
    \/ Plans(job, new) \/ Snapshots(job, new) \/ Takes(job, new)

LEMMA Replaced ==
    ASSUME JobsInv, NEW t \in Task, NEW job, Becomes(t, job)
    PROVE  task'[t] = job /\ \A u \in Task \ {t} : task'[u] = task[u]
BY DEF Becomes, JobsInv

LEMMA GoesTo ==
    ASSUME JobsInv, NEW t \in Task, task[t] \in Job, NEW s, Goto(t, s)
    PROVE  Carries(task[t], task'[t]) /\ task'[t].pc = s
<1>1. PICK job : job = [task[t] EXCEPT !.pc = s]
  OBVIOUS
<1>2. Becomes(t, job)
  BY <1>1 DEF Goto
<1>3. Carries(task[t], job) /\ job.pc = s
  BY <1>1 DEF Carries, Named, Same, Job
<1> QED BY <1>2, <1>3, Replaced

LEMMA ReturnsTo ==
    ASSUME JobsInv, NEW t \in Task, task[t] \in Job, Return(t)
    PROVE  Turns(task[t], task'[t])
<1>1. task'[t] = Returned(task[t])
  BY Replaced DEF Return
<1>2. CASE task[t].op = "auto"
  <2>1. PICK job : job = [task[t] EXCEPT !.pc = "next"]
    OBVIOUS
  <2>2. Carries(task[t], job) /\ job.pc = "next"
    BY <2>1 DEF Carries, Named, Same, Job
  <2> QED BY <1>1, <1>2, <2>1, <2>2 DEF Returned, Turns, GoesOn
<1> QED BY <1>1, <1>2 DEF Returned, Turns

(* The job of the task that takes the step. *)
LEMMA SaveTurns ==
    ASSUME JobsInv, NEW t \in Task, task[t] \in Job,
           SaveCheck(t) \/ SaveKeychain(t) \/ SaveDisk(t) \/ SaveList(t)
    PROVE  Turns(task[t], task'[t])
<1> DEFINE j == task[t]
<1>1. CASE Return(t)
  BY <1>1, ReturnsTo
<1>2. ASSUME NEW s \in {"store on disk", "list"}, Goto(t, s),
             <<task[t].pc, s>> \in Onward
      PROVE  Turns(task[t], task'[t])
  BY <1>2, GoesTo DEF Turns, GoesOn
<1>3. CASE SaveCheck(t) /\ ~Return(t)
  <2>1. PICK secret, job : /\ job = [j EXCEPT !.secret = secret, !.conn = FromForm(j.form),
                                             !.pc = IF j.form.s3 THEN "store" ELSE "list"]
                           /\ Becomes(t, job)
    BY <1>3 DEF SaveCheck
  <2>2. Named(j, job) /\ job.conn = FromForm(j.form) /\ job.pc \in {"store", "list"}
    BY <2>1 DEF Named, Same, Job
  <2>3. j.pc \in {"create", "edit"}
    BY <1>3 DEF SaveCheck, At
  <2> QED BY <2>1, <2>2, <2>3, Replaced DEF Turns, Checks
<1>4. CASE SaveKeychain(t)
  <2>1. j.pc = "store" /\ <<"store", "store on disk">> \in Onward
    BY <1>4 DEF SaveKeychain, At, Onward
  <2> QED BY <1>1, <1>2, <1>4, <2>1 DEF SaveKeychain
<1>5. CASE SaveDisk(t)
  <2>1. j.pc = "store on disk" /\ <<"store on disk", "list">> \in Onward
    BY <1>5 DEF SaveDisk, At, Onward
  <2> QED BY <1>1, <1>2, <1>5, <2>1 DEF SaveDisk
<1>6. CASE SaveList(t) /\ ~Return(t)
  <2>1. PICK list : list = [n \in DOMAIN Load \cup {j.name} |-> IF n = j.name THEN j.conn ELSE Load[n]]
    OBVIOUS
  <2>2. PICK job : job = [j EXCEPT !.pc = "write", !.list = list] /\ Becomes(t, job)
    BY <1>6, <2>1 DEF SaveList
  <2>3. Named(j, job) /\ job.list = list /\ job.pc = "write"
    BY <2>2 DEF Named, Same, Job
  <2>4. j.pc = "list"
    BY <1>6 DEF SaveList, At
  <2> QED BY <2>1, <2>2, <2>3, <2>4, Replaced DEF Turns, Enters
<1> QED BY <1>1, <1>3, <1>4, <1>5, <1>6

LEMMA WriteTurns ==
    ASSUME JobsInv, NEW t \in Task, task[t] \in Job, Write(t) \/ Fill(t)
    PROVE  Turns(task[t], task'[t])
<1>1. CASE Return(t)
  BY <1>1, ReturnsTo
<1>2. CASE Write(t) /\ Goto(t, "fill")
  <2>1. <<task[t].pc, "fill">> \in Onward
    BY <1>2 DEF Write, At, Onward
  <2> QED BY <1>2, <2>1, GoesTo DEF Turns, GoesOn
<1>3. CASE Fill(t) /\ Goto(t, "forget")
  <2>1. <<task[t].pc, "forget">> \in Onward
    BY <1>3 DEF Fill, At, Onward
  <2> QED BY <1>3, <2>1, GoesTo DEF Turns, GoesOn
<1> QED BY <1>1, <1>2, <1>3 DEF Write, Fill

LEMMA NoneKept ==
    ASSUME TypeOK, NEW m, NEW places, table' = Astray(m, places), NEW p \in Place, Kept(p, m)'
    PROVE  p \notin places
<1>1. table'[p] # NoMount /\ table'[p].name = m /\ ~table'[p].stray
  BY DEF Kept, Serves
<1>2. table[p] # NoMount /\ table[p].name = m
  BY <1>1, AstrayServes
<1>3. table'[p].stray <=> (table[p].stray \/ (p \in places /\ table[p].name = m))
  BY <1>2, AstrayServes
<1> QED BY <1>1, <1>2, <1>3

LEMMA DeleteTurns ==
    ASSUME JobsInv, NEW t \in Task, task[t] \in Job,
           DeleteLook(t) \/ DeleteUnmount(t) \/ DeleteKeychain(t) \/ DeleteDisk(t)
    PROVE  Turns(task[t], task'[t])
<1> DEFINE j == task[t]
           n == j.name
<1>1. CASE Return(t)
  BY <1>1, ReturnsTo
<1>2. CASE DeleteUnmount(t) /\ Goto(t, "write")
  <2>1. <<task[t].pc, "write">> \in Onward
    BY <1>2 DEF DeleteUnmount, At, Onward
  <2> QED BY <1>2, <2>1, GoesTo DEF Turns, GoesOn
<1>3. CASE DeleteKeychain(t)
  <2>1. <<task[t].pc, "forget on disk">> \in Onward /\ Goto(t, "forget on disk")
    BY <1>3 DEF DeleteKeychain, At, Onward
  <2> QED BY <2>1, GoesTo DEF Turns, GoesOn
<1>4. CASE DeleteLook(t)
  <2>0. PICK seen \in MountsSeen :
            /\ Becomes(t, [[j EXCEPT !.list = [m \in DOMAIN Load \ {n} |-> Load[m]],
                                     !.place = IF n \in DOMAIN Load THEN Load[n].point ELSE n]
                              EXCEPT !.pc = IF n \in DOMAIN Load
                                               /\ (IF n \in DOMAIN Load THEN Load[n].point ELSE n) \in seen
                                            THEN "unmount first" ELSE "write"])
            /\ table' = IF seen = {} THEN Astray(n, Place) ELSE table
    BY <1>4 DEF DeleteLook
  <2>1. PICK list, place, s :
            /\ list = [m \in DOMAIN Load \ {n} |-> Load[m]]
            /\ place = IF n \in DOMAIN Load THEN Load[n].point ELSE n
            /\ s = IF n \in DOMAIN Load /\ place \in seen THEN "unmount first" ELSE "write"
    OBVIOUS
  <2>2. PICK job : job = [[j EXCEPT !.list = list, !.place = place] EXCEPT !.pc = s]
    OBVIOUS
  <2>3. Becomes(t, job)
    BY <2>0, <2>1, <2>2
  <2>4. Named(j, job) /\ job.list = list /\ job.place = place /\ job.pc = s
    BY <2>2 DEF Named, Same, Job
  <2>5. j.pc = "delete"
    BY <1>4 DEF DeleteLook, At
  <2>6. /\ s \in {"unmount first", "write"}
        /\ s = "unmount first" => n \in DOMAIN Load /\ place = Load[n].point
        /\ s = "write" /\ n \in DOMAIN Load => place \notin seen
    BY <2>1
  <2>8. ASSUME s = "write", n \in DOMAIN Load
        PROVE  table[Load[n].point] = NoMount \/ \A p \in Place, m \in Name : m = n => ~Kept(p, m)'
    <3>1. CASE seen = {}
      <4>1. table' = Astray(n, Place) /\ TypeOK
        BY <2>0, <3>1 DEF JobsInv
      <4>2. ASSUME NEW p \in Place, NEW m \in Name, m = n, Kept(p, m)' PROVE FALSE
        <5>1. table' = Astray(m, Place)
          BY <4>1, <4>2
        <5> QED BY <4>1, <4>2, <5>1, NoneKept
      <4> QED BY <4>2
    <3>2. CASE seen # {}
      <4>1. seen = {p \in Place : table[p] # NoMount} /\ place \in Place
        BY <2>1, <2>8, <3>2, Loaded, Listed DEF MountsSeen, JobsInv, Connection
      <4> QED BY <2>1, <2>6, <2>8, <4>1
    <3> QED BY <3>1, <3>2
  <2>7. LooksUp(j, job)
    BY <2>1, <2>4, <2>5, <2>6, <2>8 DEF LooksUp
  <2> QED BY <2>3, <2>7, Replaced DEF Turns
<1> QED BY <1>1, <1>2, <1>3, <1>4 DEF DeleteUnmount, DeleteDisk

LEMMA ToMountIs ==
    ASSUME NEW job \in Job, NEW n, NEW c, NEW secret, NEW s, NEW new, new = ToMount(job, n, c, secret, s)
    PROVE  Same(job, new) /\ new.pc = s /\ new.name = n /\ new.place = c.point /\ new.list = job.list
BY DEF ToMount, Same, Job

LEMMA PlanTurns ==
    ASSUME JobsInv, NEW t \in Task, task[t] \in Job,
           MountPlan(t) \/ PromptPlan(t) \/ PromptKeychain(t) \/ PromptDisk(t)
    PROVE  Turns(task[t], task'[t])
<1> DEFINE j == task[t]
           n == j.name
<1>1. CASE Return(t)
  BY <1>1, ReturnsTo
<1>2. ASSUME NEW s, NEW secret, n \in DOMAIN Load, <<j.pc, s>> \in {<<"mount", "load">>, <<"prompt", "keep">>},
             Becomes(t, ToMount(j, n, Load[n], secret, s))
      PROVE  Turns(task[t], task'[t])
  <2>1. PICK job : job = ToMount(j, n, Load[n], secret, s) /\ Becomes(t, job)
    BY <1>2
  <2>2. Plans(j, job)
    BY <1>2, <2>1, ToMountIs DEF Plans, Named
  <2> QED BY <2>1, <2>2, Replaced DEF Turns
<1>3. CASE MountPlan(t) /\ ~Return(t)
  BY <1>2, <1>3 DEF MountPlan, At
<1>4. CASE PromptPlan(t) /\ ~Return(t)
  BY <1>2, <1>4 DEF PromptPlan, At
<1>5. CASE PromptKeychain(t)
  <2>1. <<task[t].pc, "keep on disk">> \in Onward /\ Goto(t, "keep on disk")
    BY <1>5 DEF PromptKeychain, At, Onward
  <2> QED BY <2>1, GoesTo DEF Turns, GoesOn
<1>6. CASE PromptDisk(t)
  <2>1. <<task[t].pc, "load">> \in Onward /\ Goto(t, "load")
    BY <1>6 DEF PromptDisk, At, Onward
  <2> QED BY <2>1, GoesTo DEF Turns, GoesOn
<1> QED BY <1>1, <1>3, <1>4, <1>5, <1>6

LEMMA LaunchTurns ==
    ASSUME JobsInv, NEW t \in Task, task[t] \in Job, Does(task[t]),
           \/ AutoMount(t) \/ AutoNext(t) \/ AutoDone(t) \/ Quit(t) \/ QuitNext(t)
    PROVE  Turns(task[t], task'[t])
<1> DEFINE j == task[t]
<1>1. CASE AutoMount(t)
  <2>1. PICK todo : Becomes(t, [task[t] EXCEPT !.pc = "next", !.list = Load, !.todo = todo])
    BY <1>1 DEF AutoMount
  <2>2. PICK job : job = [j EXCEPT !.pc = "next", !.list = Load, !.todo = todo]
    OBVIOUS
  <2>3. Becomes(t, job) /\ j.pc = "auto"
    BY <1>1, <2>1, <2>2 DEF AutoMount, At
  <2>4. Snapshots(j, job)
    BY <2>2, <2>3 DEF Snapshots, Named, Same, Job
  <2> QED BY <2>3, <2>4, Replaced DEF Turns
<1>2. CASE AutoNext(t)
  <2>1. PICK n \in j.todo :
            LET rest == [j EXCEPT !.todo = @ \ {n}]
            IN  \/ \E secret : Becomes(t, ToMount(rest, n, j.list[n], secret, "load"))
                \/ Becomes(t, rest)
    BY <1>2 DEF AutoNext
  <2>2. PICK rest : rest = [j EXCEPT !.todo = @ \ {n}]
    OBVIOUS
  <2>3. j.op = "auto" /\ j.pc = "next" /\ j.todo \subseteq DOMAIN j.list
    BY <1>2 DEF AutoNext, At, Does
  <2>4. rest \in Job /\ Carries(j, rest) /\ rest.pc = "next"
    BY <2>2, <2>3 DEF Job, Carries, Named, Same
  <2>5. CASE Becomes(t, rest)
    BY <2>3, <2>4, <2>5, Replaced DEF Turns, GoesOn
  <2>6. ASSUME NEW secret, Becomes(t, ToMount(rest, n, j.list[n], secret, "load"))
        PROVE  Turns(j, task'[t])
    <3>1. PICK job : job = ToMount(rest, n, j.list[n], secret, "load") /\ Becomes(t, job)
      BY <2>6
    <3>2. Same(rest, job) /\ job.pc = "load" /\ job.name = n /\ job.place = j.list[n].point /\ job.list = rest.list
      BY <2>4, <3>1, ToMountIs
    <3>3. Takes(j, job)
      BY <2>1, <2>3, <2>4, <3>2 DEF Takes, Carries, Named, Same
    <3> QED BY <3>1, <3>3, Replaced DEF Turns
  <2> QED BY <2>1, <2>2, <2>5, <2>6
<1>3. CASE AutoDone(t)
  BY <1>3, Replaced DEF AutoDone, Turns
<1>4. CASE Quit(t)
  <2>0. PICK seen : Becomes(t, [j EXCEPT !.pc = "next", !.todo = seen])
    BY <1>4 DEF Quit
  <2>1. PICK job : job = [j EXCEPT !.pc = "next", !.todo = seen]
    OBVIOUS
  <2>2. Becomes(t, job) /\ j.pc = "quit"
    BY <1>4, <2>0, <2>1 DEF Quit, At
  <2>3. Carries(j, job) /\ job.pc = "next" /\ j.op = "quit"
    BY <2>1, <2>2 DEF Carries, Named, Same, Job, Does, Ops
  <2> QED BY <2>2, <2>3, Replaced DEF Turns, GoesOn
<1>5. CASE QuitNext(t)
  <2>1. PICK p : Becomes(t, [j EXCEPT !.todo = @ \ {p}])
    BY <1>5 DEF QuitNext
  <2>2. PICK job : job = [j EXCEPT !.todo = @ \ {p}]
    OBVIOUS
  <2>3. Carries(j, job) /\ job.pc = "next" /\ j.op = "quit"
    BY <1>5, <2>2 DEF QuitNext, At, Carries, Named, Same, Job
  <2> QED BY <2>1, <2>2, <2>3, Replaced DEF Turns, GoesOn
<1> QED BY <1>1, <1>2, <1>3, <1>4, <1>5

LEMMA ServeTurns ==
    ASSUME JobsInv, NEW t \in Task, task[t] \in Job,
           \/ Unmount(t) \/ Restart(t) \/ LoadResource(t) \/ LoadFails(t) \/ Activate(t) \/ ActivateFails(t)
    PROVE  Turns(task[t], task'[t])
<1>1. CASE Return(t)
  BY <1>1, ReturnsTo
<1>2. CASE Restart(t) /\ ~Return(t)
  <2>1. task'[t] = Returned(task[t])
    BY <1>2 DEF Restart
  <2>2. CASE task[t].op = "auto"
    <3>1. PICK job : job = [task[t] EXCEPT !.pc = "next"]
      OBVIOUS
    <3>2. Carries(task[t], job) /\ job.pc = "next"
      BY <3>1 DEF Carries, Named, Same, Job
    <3> QED BY <2>1, <2>2, <3>1, <3>2 DEF Returned, Turns, GoesOn
  <2> QED BY <2>1, <2>2 DEF Returned, Turns
<1>3. CASE LoadResource(t)
  <2>1. PICK built : built = Built(task[t].name, task[t].conn, NoSecret)
    OBVIOUS
  <2>2. PICK job : job = [task[t] EXCEPT !.pc = "activate", !.backend = built]
    OBVIOUS
  <2>3. Becomes(t, job) /\ <<task[t].pc, "activate">> \in Onward
    BY <1>3, <2>1, <2>2 DEF LoadResource, At, Onward
  <2>4. Carries(task[t], job) /\ job.pc = "activate"
    BY <2>2 DEF Carries, Named, Same, Job
  <2> QED BY <2>3, <2>4, Replaced DEF Turns, GoesOn
<1> QED BY <1>1, <1>2, <1>3 DEF Unmount, LoadFails, Activate, ActivateFails

(* The registry, the stores and the mounts; what a delete could not remove *)
(* is noted.                                                               *)
Touches(t) ==
    LET j == task[t] IN
    /\ \/ UNCHANGED file
       \/ j.pc = "write" /\ file' = Torn
       \/ j.pc = "fill" /\ file' = [readable |-> TRUE, list |-> j.list]
    /\ \A n \in Name : keychain'[n] = keychain[n] \/ (j.pc \in {"store", "keep", "forget"} /\ n = j.name)
    /\ \A n \in Name : disk'[n] = disk[n]
                       \/ (j.pc \in {"store on disk", "keep on disk", "forget on disk"} /\ n = j.name)
    /\ \A p \in Place, n \in Name :
           Kept(p, n)' => Kept(p, n) \/ (j.pc = "activate" /\ p = j.place /\ j.name = n)
    /\ \A n \in deleted' : n \in deleted \/ (j.pc = "forget on disk" /\ n = j.name)
    /\ \A n \in Name : /\ <<n, "keychain">> \in left' \/ <<n, "keychain">> \notin left
                                                       \/ (j.pc = "forget" /\ n = j.name)
                       /\ <<n, "disk">> \in left' \/ <<n, "disk">> \notin left
                                                   \/ (j.pc = "forget on disk" /\ n = j.name)
    /\ j.pc = "fill" => task'[t] = Idle \/ file' = [readable |-> TRUE, list |-> j.list]
    /\ j.pc = "fill" /\ j.op # "delete" =>
           /\ task'[t] = Idle
           /\ file' = file \/ \A p \in Place, n \in Name : n = j.name /\ Kept(p, n)' => p = j.list[n].point
    /\ j.pc = "unmount first" => task'[t] = Idle \/ table'[j.place] = NoMount
    /\ j.pc = "forget" => (keychain'[j.name] # NoSecret => <<j.name, "keychain">> \in left')
    /\ j.pc = "forget on disk" =>
           /\ task'[t] = Idle
           /\ disk'[j.name] # NoSecret => <<j.name, "disk">> \in left'

Plain(t) == task[t].pc \notin {"fill", "unmount first", "forget", "forget on disk"}

LEMMA NothingTouched ==
    ASSUME NEW t \in Task, UNCHANGED <<file, stores, table, deleted, left>>, Plain(t)
    PROVE  Touches(t)
BY DEF Touches, Plain, stores, Kept, Serves

(* Mounts that are still there or gone, or go astray. *)
LEMMA KeptStays ==
    ASSUME NEW p \in Place, NEW n,
           \/ table'[p] = table[p] \/ table'[p] = NoMount
           \/ TypeOK /\ \E m, places : table' = Astray(m, places)
    PROVE  Kept(p, n)' => Kept(p, n)
<1>1. CASE table'[p] = table[p] \/ table'[p] = NoMount
  BY <1>1 DEF Kept, Serves
<1>2. ASSUME TypeOK, NEW m, NEW places, table' = Astray(m, places) PROVE Kept(p, n)' => Kept(p, n)
  BY <1>2, AstrayServes DEF Kept, Serves
<1> QED BY <1>1, <1>2

LEMMA ReturnsIdle ==
    ASSUME JobsInv, NEW t \in Task, task[t].op # "auto", Return(t)
    PROVE  task'[t] = Idle
BY Replaced DEF Return, Returned

LEMMA StepTouches == ASSUME JobsInv, NEW t \in Task, Operate(t) PROVE Touches(t)
<1> DEFINE j == task[t]
           n == j.name
<1>1. CASE SaveCheck(t) \/ SaveList(t) \/ Quit(t) \/ QuitDone(t) \/ MountPlan(t)
           \/ PromptPlan(t) \/ AutoMount(t) \/ AutoNext(t) \/ AutoDone(t)
  <2>1. UNCHANGED <<file, stores, table, deleted, left>>
    BY <1>1 DEF SaveCheck, SaveList, Quit, QuitDone, MountPlan, PromptPlan, AutoMount, AutoNext,
                AutoDone, system
  <2>2. Plain(t)
    BY <1>1 DEF SaveCheck, SaveList, Quit, QuitDone, MountPlan, PromptPlan, AutoMount, AutoNext,
                AutoDone, At, Plain
  <2> QED BY <2>1, <2>2, NothingTouched
<1>2. CASE LoadResource(t) \/ LoadFails(t) \/ ActivateFails(t)
  <2>1. UNCHANGED <<file, stores, table, deleted, left>>
    BY <1>2 DEF LoadResource, LoadFails, ActivateFails
  <2>2. Plain(t)
    BY <1>2 DEF LoadResource, LoadFails, ActivateFails, At, Plain
  <2> QED BY <2>1, <2>2, NothingTouched
<1>3. ASSUME j.pc \in Steps PROVE j \in Job /\ Does(j) /\ n \in Name /\ j.place \in Place
  BY <1>3, Working DEF At, Job
<1>4. CASE SaveKeychain(t) \/ PromptKeychain(t)
  <2>1. /\ j.pc \in {"store", "keep"} /\ UNCHANGED <<file, disk, table, deleted, left>>
        /\ keychain' = keychain \/ \E s : keychain' = [keychain EXCEPT ![n] = s]
    BY <1>4 DEF SaveKeychain, PromptKeychain, At, system, StoreInKeychain
  <2>2. \A m \in Name : keychain'[m] = keychain[m] \/ m = n
    BY <2>1 DEF JobsInv, TypeOK
  <2> QED BY <2>1, <2>2 DEF Touches, Kept, Serves
<1>5. CASE SaveDisk(t) \/ PromptDisk(t)
  <2>1. /\ j.pc \in {"store on disk", "keep on disk"} /\ UNCHANGED <<file, keychain, table, deleted, left>>
        /\ disk' = disk \/ \E s : disk' = [disk EXCEPT ![n] = s]
    BY <1>5 DEF SaveDisk, PromptDisk, At, system, StoreOnDisk
  <2>2. \A m \in Name : disk'[m] = disk[m] \/ m = n
    BY <2>1 DEF JobsInv, TypeOK
  <2> QED BY <2>1, <2>2 DEF Touches, Kept, Serves
<1>6. CASE DeleteKeychain(t)
  <2>1. j.pc = "forget" /\ UNCHANGED <<file, disk, table, deleted>>
    BY <1>6 DEF DeleteKeychain, At, system
  <2>2. n \in Name
    BY <1>3, <2>1 DEF Steps
  <2>3. \/ keychain'[n] = NoSecret /\ left' = left \ {<<n, "keychain">>}
        \/ left' = left \cup {<<n, "keychain">>}
    BY <1>6, <2>2 DEF DeleteKeychain, StoreInKeychain, Forgotten, NotForgotten, JobsInv, TypeOK
  <2>4. \A m \in Name : keychain'[m] = keychain[m] \/ m = n
    BY <1>6, <2>2 DEF DeleteKeychain, StoreInKeychain, JobsInv, TypeOK
  <2>5. keychain'[n] # NoSecret => <<n, "keychain">> \in left'
    BY <2>3
  <2>6. \A m \in Name : /\ <<m, "keychain">> \in left' \/ <<m, "keychain">> \notin left \/ m = n
                        /\ <<m, "disk">> \in left' \/ <<m, "disk">> \notin left
    BY <2>3
  <2> QED BY <2>1, <2>4, <2>5, <2>6 DEF Touches, Kept, Serves
<1>7. CASE DeleteDisk(t)
  <2>1. /\ j.pc = "forget on disk" /\ UNCHANGED <<file, keychain, table>>
        /\ deleted' = deleted \cup ({n} \ {Memory})
    BY <1>7 DEF DeleteDisk, At, system
  <2>2. n \in Name /\ j.op = "delete"
    BY <1>3, <2>1 DEF Steps, Does
  <2>3. \/ disk'[n] = NoSecret /\ left' = left \ {<<n, "disk">>}
        \/ left' = left \cup {<<n, "disk">>}
    BY <1>7, <2>2 DEF DeleteDisk, StoreOnDisk, Forgotten, NotForgotten, JobsInv, TypeOK
  <2>4. \A m \in Name : disk'[m] = disk[m] \/ m = n
    BY <1>7, <2>2 DEF DeleteDisk, StoreOnDisk, JobsInv, TypeOK
  <2>5. disk'[n] # NoSecret => <<n, "disk">> \in left'
    BY <2>3
  <2>6. \A m \in Name : /\ <<m, "disk">> \in left' \/ <<m, "disk">> \notin left \/ m = n
                        /\ <<m, "keychain">> \in left' \/ <<m, "keychain">> \notin left
    BY <2>3
  <2>7. task'[t] = Idle
    BY <1>7, <2>2, ReturnsIdle DEF DeleteDisk
  <2> QED BY <2>1, <2>4, <2>5, <2>6, <2>7 DEF Touches, Kept, Serves
<1>8. CASE Write(t)
  <2>1. j.pc = "write" /\ UNCHANGED <<stores, table, deleted, left>> /\ (file' = file \/ file' = Torn)
    BY <1>8 DEF Write, At, system
  <2> QED BY <2>1 DEF Touches, stores, Kept, Serves
<1>9. CASE Fill(t)
  <2>1. /\ j.pc = "fill" /\ UNCHANGED <<stores, deleted, left>>
        /\ \/ Return(t) /\ file' = file /\ table' = table
           \/ /\ file' = [readable |-> TRUE, list |-> j.list]
              /\ IF j.op = "delete" THEN table' = table
                 ELSE Return(t) /\ table' = Astray(n, Place \ {j.list[n].point})
    BY <1>9 DEF Fill, At
  <2>2. j.op # "auto"
    BY <1>3, <2>1 DEF Steps, Does, Writers
  <2>3. Return(t) => task'[t] = Idle
    BY <2>2, ReturnsIdle
  <2>4. \A p \in Place, m \in Name : Kept(p, m)' => Kept(p, m)
    BY <2>1, KeptStays DEF JobsInv
  <2>5. ASSUME table' = Astray(n, Place \ {j.list[n].point}),
               NEW p \in Place, NEW m \in Name, m = n, Kept(p, m)'
        PROVE  p = j.list[m].point
    <3>1. PICK places : places = Place \ {j.list[n].point}
      OBVIOUS
    <3>2. table' = Astray(m, places) /\ TypeOK
      BY <2>5, <3>1 DEF JobsInv
    <3>3. p \notin places
      BY <2>5, <3>2, NoneKept
    <3> QED BY <2>5, <3>1, <3>3
  <2>6. j.op # "delete" => /\ task'[t] = Idle
                           /\ file' = file \/ \A p \in Place, m \in Name :
                                                 m = n /\ Kept(p, m)' => p = j.list[m].point
    BY <2>1, <2>3, <2>5
  <2>7. task'[t] = Idle \/ file' = [readable |-> TRUE, list |-> j.list]
    BY <2>1, <2>3
  <2>8. file' = file \/ file' = [readable |-> TRUE, list |-> j.list]
    BY <2>1
  <2> QED BY <2>1, <2>4, <2>6, <2>7, <2>8 DEF Touches, stores
<1>10. ASSUME NEW q \in Place, Unmounted(q)
       PROVE  table'[q] = NoMount /\ \A p \in Place : table'[p] = table[p] \/ table'[p] = NoMount
  BY <1>10 DEF Unmounted, JobsInv, TypeOK
<1>11. CASE Unmount(t) \/ QuitNext(t) \/ Restart(t)
  <2>1. \A p \in Place : table'[p] = table[p] \/ table'[p] = NoMount
    <3>1. CASE UNCHANGED system
      BY <3>1 DEF system
    <3>2. CASE Unmount(t) /\ ~UNCHANGED system
      <4>1. n \in Name
        BY <1>3, <3>2 DEF Unmount, At, Steps, Ops
      <4>2. (IF n \in DOMAIN Load THEN Load[n].point ELSE n) \in Place
        BY <4>1, Loaded, Listed DEF JobsInv, Connection, Place
      <4> QED BY <1>10, <3>2, <4>2 DEF Unmount
    <3>3. CASE QuitNext(t) /\ ~UNCHANGED system
      <4>1. j.todo \subseteq Place
        BY <1>3, <3>3 DEF QuitNext, At, Steps, Job
      <4> QED BY <1>10, <3>3, <4>1 DEF QuitNext
    <3>4. CASE Restart(t) /\ ~UNCHANGED system
      BY <3>4 DEF Restart
    <3> QED BY <1>11, <3>1, <3>2, <3>3, <3>4
  <2>2. UNCHANGED <<file, stores, deleted, left>> /\ j.pc \in {"unmount", "next", "restart"}
    BY <1>11 DEF Unmount, QuitNext, Restart, At
  <2>3. \A p \in Place, m \in Name : Kept(p, m)' => Kept(p, m)
    BY <2>1, KeptStays
  <2> QED BY <2>2, <2>3 DEF Touches, stores
<1>12. CASE DeleteUnmount(t)
  <2>1. j.pc = "unmount first" /\ UNCHANGED <<file, stores, deleted, left>>
    BY <1>12 DEF DeleteUnmount, At
  <2>2. j.place \in Place /\ j.op # "auto"
    BY <1>3, <2>1 DEF Steps, Does
  <2>3. (table' = table /\ Return(t)) \/ Unmounted(j.place)
    BY <1>12 DEF DeleteUnmount, system
  <2>4. task'[t] = Idle \/ table'[j.place] = NoMount
    BY <1>10, <2>2, <2>3, ReturnsIdle
  <2>5. \A p \in Place : table'[p] = table[p] \/ table'[p] = NoMount
    BY <1>10, <2>2, <2>3
  <2>6. \A p \in Place, m \in Name : Kept(p, m)' => Kept(p, m)
    BY <2>5, KeptStays
  <2> QED BY <2>1, <2>4, <2>6 DEF Touches, stores
<1>13. CASE Activate(t)
  <2>1. j.pc = "activate" /\ UNCHANGED <<file, stores, deleted, left>>
    BY <1>13 DEF Activate, At
  <2>2. j.place \in Place
    BY <1>3, <2>1 DEF Steps
  <2>3. \A p \in Place : table'[p] = table[p] \/ (p = j.place /\ table'[p].name = n)
    BY <1>13, <2>2 DEF Activate, JobsInv, TypeOK
  <2>4. \A p \in Place, m \in Name : Kept(p, m)' => Kept(p, m) \/ (p = j.place /\ n = m)
    BY <2>3 DEF Kept, Serves
  <2> QED BY <2>1, <2>4 DEF Touches, stores
<1>14. CASE DeleteLook(t)
  <2>1. j.pc = "delete" /\ UNCHANGED <<file, stores, deleted, left>>
    BY <1>14 DEF DeleteLook, At
  <2>2. table' = table \/ table' = Astray(n, Place)
    BY <1>14 DEF DeleteLook
  <2>3. \A p \in Place, m \in Name : Kept(p, m)' => Kept(p, m)
    BY <2>2, KeptStays DEF JobsInv
  <2> QED BY <2>1, <2>3 DEF Touches, stores
<1> QED BY <1>1, <1>2, <1>4, <1>5, <1>6, <1>7, <1>8, <1>9, <1>11, <1>12, <1>13, <1>14 DEF Operate

(* The other tasks: a restart or a death ends a task or cuts it short, but *)
(* for a mount that was asked for.                                         *)
Stops(job, new) ==
    \/ new = Idle
    \/ job.op = "auto" /\ new.pc = "next" /\ Carries(job, new)

Survives(job, new) ==
    /\ job.pc \in {"load", "activate"} /\ new.pc = job.pc /\ new.op = "mount"
    /\ new.name = job.name /\ new.place = job.place

LEMMA JobsReturned ==
    ASSUME NEW job \in Job PROVE Stops(job, Returned(job))
<1>1. PICK new : new = [job EXCEPT !.pc = "next"]
  OBVIOUS
<1>2. Carries(job, new) /\ new.pc = "next"
  BY <1>1 DEF Carries, Named, Same, Job
<1> QED BY <1>1, <1>2 DEF Returned, Stops

LEMMA Deaths ==
    ASSUME JobsInv, Dies, NEW u \in Task
    PROVE  task'[u] = Idle \/ (task[u] # Idle /\ Survives(task[u], task'[u]))
<1>1. CASE task[u] # Idle /\ task[u].pc \in {"load", "activate"}
  <2>1. task[u] \in Job
    BY <1>1 DEF JobsInv, TypeOK
  <2>2. PICK job : job = [task[u] EXCEPT !.op = "mount", !.todo = {}]
    OBVIOUS
  <2>3. task'[u] = job
    BY <1>1, <2>2 DEF Dies, Dead
  <2> QED BY <1>1, <2>1, <2>2, <2>3 DEF Survives, Job
<1> QED BY <1>1 DEF Dies, Dead

LEMMA Operating ==
    ASSUME JobsInv, NEW t \in Task, Operate(t)
    PROVE  task[t] \in Job /\ task[t] # Idle /\ Does(task[t])
<1>1. \E s \in Steps : At(t, s)
  BY DEF Operate, SaveCheck, SaveKeychain, SaveDisk, SaveList, Write, Fill, Unmount, Restart, Quit, QuitNext,
         QuitDone, DeleteLook, DeleteUnmount, DeleteKeychain, DeleteDisk, MountPlan, PromptPlan,
         PromptKeychain, PromptDisk, AutoMount, AutoNext, AutoDone, LoadResource, LoadFails, Activate,
         ActivateFails, Steps, Ops, Writers
<1> QED BY <1>1, Working, NotIdle DEF At

LEMMA TasksTurn ==
    ASSUME JobsInv, NEW t \in Task, Operate(t), NEW u \in Task
    PROVE  \/ u # t /\ task'[u] = task[u]
           \/ task[u] # Idle /\ u = t /\ Turns(task[u], task'[u])
           \/ task[u] # Idle /\ (Stops(task[u], task'[u]) \/ Survives(task[u], task'[u]))
           \/ task'[u] = Idle
<1>1. task[t] \in Job /\ task[t] # Idle /\ Does(task[t])
  BY Operating
<1>2. CASE QuitDone(t)
  BY <1>2, Deaths DEF QuitDone
<1>3. CASE Restart(t) /\ ~Return(t) /\ u # t
  <2>1. CASE task[u].pc \in {"load", "activate"}
    <3>1. {"load", "activate"} \subseteq Steps
      BY DEF Steps
    <3>2. task[u] # Idle /\ task[u] \in Job
      BY <2>1, <3>1, NotIdle DEF JobsInv, TypeOK
    <3>3. task'[u] = Returned(task[u])
      BY <1>3, <2>1 DEF Restart
    <3> QED BY <3>2, <3>3, JobsReturned
  <2>2. CASE task[u].pc \notin {"load", "activate"}
    BY <1>3, <2>2 DEF Restart
  <2> QED BY <2>1, <2>2
<1>4. CASE u = t /\ ~QuitDone(t)
  BY <1>1, <1>4, SaveTurns, WriteTurns, DeleteTurns, PlanTurns, LaunchTurns, ServeTurns DEF Operate
<1>5. CASE u # t /\ ~QuitDone(t) /\ (Restart(t) => Return(t))
  <2>1. \E job : Becomes(t, job)
    BY <1>5 DEF Operate, SaveCheck, SaveKeychain, SaveDisk, SaveList, Write, Fill, Unmount, Restart, Quit, QuitNext,
           DeleteLook, DeleteUnmount, DeleteKeychain, DeleteDisk, MountPlan, PromptPlan,
           PromptKeychain, PromptDisk, AutoMount, AutoNext, AutoDone, LoadResource, LoadFails, Activate,
           ActivateFails, Goto, Return
  <2> QED BY <1>5, <2>1, Replaced
<1> QED BY <1>2, <1>3, <1>4, <1>5

-----------------------------------------------------------------------------
(* What is mounted, listed and deleted.                                    *)

(* Nothing else writes the registry while one task saves or deletes, and   *)
(* nothing works on that task's connection.                                *)
Exclusive ==
    \A t, u \in Task : t # u /\ Writing(t) /\ task[u] # Idle =>
        task[u].op \notin Writers \cup All /\ task[u].name # task[t].name

(* Folders.  What can be found of a connection's mounts is in the folder   *)
(* the registry lists, and so is what is being mounted.                    *)
MountSteps == {"keep", "keep on disk", "load", "activate"}

Mounts(t, n) == task[t] # Idle /\ task[t].name = n /\ task[t].pc \in MountSteps

Home(list, n) ==
    n \in DOMAIN list =>
        /\ \A p \in Place : Kept(p, n) => p = list[n].point
        /\ \A t \in Task : Mounts(t, n) => task[t].place = list[n].point

Agrees(list, n) == n \in DOMAIN list /\ n \in DOMAIN Load => list[n] = Load[n]

(* A list that is about to be written, but for the connection it is about. *)
Rewrites(t, n) == task[t] # Idle /\ task[t].pc \in {"unmount first", "write", "fill"} /\ task[t].name # n

HomeInv ==
    /\ \A n \in Name \ {Memory} : Home(Load, n)
    /\ \A t \in Task, n \in Name \ {Memory} :
           Rewrites(t, n) => Agrees(task[t].list, n) /\ Home(task[t].list, n)
    /\ \A t \in Task : task[t] # Idle /\ task[t].op = "auto" => task[t].list \in {NoneListed, Load}

WriterSteps ==
    Writers \cup {"store", "store on disk", "list", "write", "fill", "unmount first",
                  "forget", "forget on disk"}

(* What a delete could not remove is noted. *)
InKeychain(n) == keychain[n] # NoSecret => <<n, "keychain">> \in left
OnDisk(n) == disk[n] # NoSecret => <<n, "disk">> \in left

(* How far a delete has come. *)
Deleting(job) ==
    LET n == job.name IN
    /\ job.pc = "delete" => n \in DOMAIN Load
    /\ job.pc = "unmount first" => n \in DOMAIN Load /\ job.place = Load[n].point
    /\ job.pc \in {"unmount first", "write", "fill"} => n \notin DOMAIN job.list
    /\ job.pc \in {"write", "fill", "forget", "forget on disk"} => \A p \in Place : ~Kept(p, n)
    /\ job.pc \in {"forget", "forget on disk"} => n \notin DOMAIN Load
    /\ job.pc = "forget on disk" => InKeychain(n)

(* What a task does brings a deleted connection back in no way. *)
Leaves(job, n) ==
    /\ job.name = n => job.pc \in {"mount", "prompt", "unmount", "next"}
    /\ job.pc \in {"unmount first", "write", "fill"} \/ job.op = "auto" => n \notin DOMAIN job.list

Gone(n) ==
    /\ n \notin DOMAIN Load /\ InKeychain(n) /\ OnDisk(n)
    /\ \A p \in Place : ~Kept(p, n)
    /\ \A t \in Task : task[t] # Idle => Leaves(task[t], n)

GoneInv ==
    /\ Exclusive
    /\ \A t \in Task : Writing(t) => task[t].pc \in WriterSteps
    /\ \A t \in Task : task[t] # Idle /\ task[t].op = "delete" /\ task[t].name # Memory => Deleting(task[t])
    /\ \A n \in deleted \ {Memory} : Gone(n)

-----------------------------------------------------------------------------
(* Folders stay right. *)

LEMMA InitHomes == Init => HomeInv
BY DEF Init, HomeInv, Home, Load, Torn, WithDefaults, Rewrites

(* A job keeps its operation, and its connection but for auto-mount. *)
LEMMA JobKept ==
    ASSUME NEW job, NEW new, new # Idle, Turns(job, new) \/ Stops(job, new) \/ Survives(job, new)
    PROVE  /\ new.op = job.op \/ new.op = "mount"
           /\ new.name = job.name \/ job.op = "auto"
BY DEF Turns, Stops, Survives, GoesOn, Checks, Enters, LooksUp, Plans, Snapshots, Takes, Carries, Named, Same

(* A mount goes on where it was, or starts where the registry says. *)
LEMMA MountTurn ==
    ASSUME NEW job, job.op = "auto" => job.list \in {NoneListed, Load},
           NEW new, new # Idle, new.pc \in MountSteps,
           Turns(job, new) \/ Stops(job, new) \/ Survives(job, new)
    PROVE  \/ job.pc \in MountSteps /\ new.name = job.name /\ new.place = job.place
           \/ new.name \in DOMAIN Load /\ new.place = Load[new.name].point
<1>1. CASE GoesOn(job, new)
  BY <1>1 DEF GoesOn, Onward, Carries, Named, MountSteps
<1>2. CASE Plans(job, new)
  BY <1>2 DEF Plans, Named
<1>3. CASE Takes(job, new)
  <2>1. DOMAIN NoneListed = {}
    BY DEF NoneListed
  <2>2. job.list = Load
    BY <1>3, <2>1 DEF Takes
  <2> QED BY <1>3, <2>2 DEF Takes
<1>4. CASE Survives(job, new)
  BY <1>4 DEF Survives
<1>5. ~Checks(job, new) /\ ~Enters(job, new) /\ ~LooksUp(job, new) /\ ~Snapshots(job, new) /\ ~Stops(job, new)
  BY DEF Checks, Enters, LooksUp, Snapshots, Stops, MountSteps
<1> QED BY <1>1, <1>2, <1>3, <1>4, <1>5 DEF Turns

(* A step adds no mount elsewhere than a list that agrees with the         *)
(* registry has it.                                                        *)
LEMMA HomeKept ==
    ASSUME JobsInv, HomeInv, NEW t \in Task, Operate(t), NEW list, NEW n \in Name \ {Memory},
           Home(list, n), Agrees(list, n)
    PROVE  Home(list, n)'
<1> SUFFICES ASSUME n \in DOMAIN list
             PROVE  /\ \A p \in Place : Kept(p, n)' => p = list[n].point
                    /\ \A u \in Task : Mounts(u, n)' => task'[u].place = list[n].point
  BY DEF Home
<1>1. Touches(t) /\ task[t] # Idle
  BY StepTouches, Operating
<1>2. ASSUME NEW p \in Place, Kept(p, n)' PROVE p = list[n].point
  <2>1. Kept(p, n) \/ (Mounts(t, n) /\ p = task[t].place)
    BY <1>1, <1>2 DEF Touches, Mounts, MountSteps
  <2> QED BY <2>1 DEF Home
<1>3. ASSUME NEW u \in Task, Mounts(u, n)' PROVE task'[u].place = list[n].point
  <2>1. task'[u] # Idle /\ task'[u].name = n /\ task'[u].pc \in MountSteps
    BY <1>3 DEF Mounts
  <2>2. CASE task'[u] = task[u]
    BY <1>3, <2>1, <2>2 DEF Home, Mounts
  <2>3. CASE task'[u] # task[u]
    <3>1. task[u] # Idle /\ (Turns(task[u], task'[u]) \/ Stops(task[u], task'[u]) \/ Survives(task[u], task'[u]))
      BY <2>1, <2>3, TasksTurn
    <3>2. task[u].op = "auto" => task[u].list \in {NoneListed, Load}
      BY <3>1 DEF HomeInv
    <3>3. \/ task[u].pc \in MountSteps /\ task[u].name = n /\ task'[u].place = task[u].place
          \/ n \in DOMAIN Load /\ task'[u].place = Load[n].point
      BY <2>1, <3>1, <3>2, MountTurn
    <3> QED BY <3>1, <3>3 DEF Home, Mounts, Agrees
  <2> QED BY <2>2, <2>3
<1> QED BY <1>2, <1>3

(* The registry that is read back. *)
LEMMA LoadHomes ==
    ASSUME JobsInv, HomeInv, GoneInv, NEW t \in Task, Operate(t), NEW n \in Name \ {Memory}
    PROVE  Home(Load, n)'
<1> DEFINE j == task[t]
<1>1. Touches(t) /\ j # Idle /\ Does(j)
  BY StepTouches, Operating
<1>2. CASE file' = file
  <2>1. PICK list : list = Load
    OBVIOUS
  <2>2. Load' = list
    BY <1>2, <2>1 DEF Load
  <2>3. Home(list, n)'
    BY <2>1, HomeKept DEF HomeInv, Agrees
  <2> QED BY <2>2, <2>3 DEF Home
<1>3. CASE file' = Torn
  <2>1. Load' = WithDefaults
    BY <1>3 DEF Load, Torn
  <2> QED BY <2>1 DEF Home, WithDefaults
<1>4. CASE j.pc = "fill" /\ file' = [readable |-> TRUE, list |-> j.list] /\ file' # file
  <2>1. PICK list : list = j.list
    OBVIOUS
  <2>2. Load' = list
    BY <1>4, <2>1 DEF Load
  <2>3. j.op \in Writers
    BY <1>1, <1>4 DEF Does
  <2>4. CASE n # j.name
    <3>1. Agrees(list, n) /\ Home(list, n)
      BY <1>1, <1>4, <2>1, <2>4 DEF HomeInv, Rewrites
    <3>2. Home(list, n)'
      BY <3>1, HomeKept
    <3> QED BY <2>2, <3>2 DEF Home
  <2>5. CASE n = j.name /\ j.op = "delete"
    <3>1. n \notin DOMAIN list
      BY <1>1, <1>4, <2>1, <2>5 DEF GoneInv, Deleting
    <3> QED BY <2>2, <3>1 DEF Home
  <2>6. CASE n = j.name /\ j.op # "delete"
    <3>1. task'[t] = Idle /\ \A p \in Place : Kept(p, n)' => p = list[n].point
      BY <1>1, <1>4, <2>1, <2>6 DEF Touches
    <3>2. ASSUME NEW u \in Task, Mounts(u, n)' PROVE FALSE
      <4>1. task'[u] # Idle /\ task'[u].name = n /\ u # t
        BY <3>1, <3>2 DEF Mounts
      <4>2. \/ task'[u] = task[u]
            \/ task[u] # Idle /\ (Turns(task[u], task'[u]) \/ Stops(task[u], task'[u]) \/ Survives(task[u], task'[u]))
        BY <4>1, TasksTurn
      <4>3. task[u] # Idle /\ (task[u].name = n \/ task[u].op = "auto")
        BY <4>1, <4>2, JobKept
      <4>4. task[u].op \notin All /\ task[u].name # n
        BY <1>1, <2>3, <2>6, <4>1, <4>3 DEF GoneInv, Exclusive, Writing
      <4> QED BY <4>3, <4>4 DEF All
    <3> QED BY <2>2, <3>1, <3>2 DEF Home
  <2> QED BY <2>3, <2>4, <2>5, <2>6
<1> QED BY <1>1, <1>2, <1>3, <1>4 DEF Touches

(* The lists that are to be written. *)
LEMMA ListHomes ==
    ASSUME JobsInv, HomeInv, GoneInv, NEW t \in Task, Operate(t), NEW u \in Task,
           NEW n \in Name \ {Memory}, Rewrites(u, n)'
    PROVE  Agrees(task[u].list, n)' /\ Home(task[u].list, n)'
<1> DEFINE j == task[t]
<1>1. Touches(t) /\ j # Idle /\ Does(j)
  BY StepTouches, Operating
<1>2. task'[u] # Idle /\ task'[u].pc \in {"unmount first", "write", "fill"} /\ task'[u].name # n
  BY DEF Rewrites
<1>3. PICK list : list = task'[u].list
  OBVIOUS
<1> SUFFICES Agrees(list, n)' /\ Home(list, n)'
  BY <1>3 DEF Agrees, Home
<1>4. ASSUME Agrees(list, n), file' = file \/ file' = Torn PROVE Agrees(list, n)'
  <2>1. Load' = Load \/ Load' = WithDefaults
    BY <1>4 DEF Load, Torn
  <2> QED BY <1>4, <2>1 DEF Agrees, WithDefaults
<1>5. CASE u # t /\ task'[u] = task[u]
  <2>1. Rewrites(u, n) /\ list = task[u].list /\ Does(task[u])
    BY <1>2, <1>3, <1>5 DEF Rewrites, JobsInv, GoodJob
  <2>2. Writing(u)
    BY <2>1 DEF Rewrites, Does, Writing, Writers
  <2>3. j.op \notin Writers
    BY <1>1, <1>5, <2>2 DEF GoneInv, Exclusive
  <2>4. file' = file
    BY <1>1, <2>3 DEF Touches, Does
  <2>5. Agrees(list, n) /\ Home(list, n)
    BY <2>1 DEF HomeInv
  <2> QED BY <1>4, <2>4, <2>5, HomeKept
<1>6. CASE u = t /\ GoesOn(j, task'[t])
  <2>1. Carries(j, task'[t]) /\ j.pc \in {"unmount first", "write"}
    BY <1>2, <1>6 DEF GoesOn, Onward
  <2>2. Agrees(list, n) /\ Home(list, n)
    BY <1>1, <1>2, <1>3, <1>6, <2>1 DEF Carries, Named, HomeInv, Rewrites
  <2>3. file' = file \/ file' = Torn
    BY <1>1, <2>1 DEF Touches
  <2> QED BY <1>4, <2>2, <2>3, HomeKept
<1>7. CASE u = t /\ (Enters(j, task'[t]) \/ LooksUp(j, task'[t]))
  <2>1. j.pc \in {"list", "delete"} /\ j.name = task'[t].name
    BY <1>7 DEF Enters, LooksUp, Named
  <2>2. n \in DOMAIN list => n \in DOMAIN Load /\ list[n] = Load[n]
    BY <1>2, <1>3, <1>7, <2>1 DEF Enters, LooksUp
  <2>3. Load' = Load
    BY <1>1, <2>1 DEF Touches, Load
  <2>4. Home(Load, n)'
    BY LoadHomes
  <2> QED BY <2>2, <2>3, <2>4 DEF Agrees, Home
<1>8. ASSUME ~(u # t /\ task'[u] = task[u])
      PROVE  u = t /\ (GoesOn(j, task'[t]) \/ Enters(j, task'[t]) \/ LooksUp(j, task'[t]))
  <2>1. ~Stops(task[u], task'[u]) /\ ~Survives(task[u], task'[u])
    BY <1>2 DEF Stops, Survives
  <2>2. u = t /\ Turns(j, task'[t])
    BY <1>2, <1>8, <2>1, TasksTurn
  <2>3. ~Checks(j, task'[t]) /\ ~Plans(j, task'[t]) /\ ~Snapshots(j, task'[t]) /\ ~Takes(j, task'[t])
    BY <1>2, <2>2 DEF Checks, Plans, Snapshots, Takes
  <2> QED BY <1>2, <2>2, <2>3 DEF Turns
<1> QED BY <1>5, <1>6, <1>7, <1>8

(* The snapshots of auto-mounts: nothing is written meanwhile. *)
LEMMA SnapshotHomes ==
    ASSUME JobsInv, HomeInv, GoneInv, NEW t \in Task, Operate(t), NEW u \in Task,
           task'[u] # Idle, task'[u].op = "auto"
    PROVE  task'[u].list \in {NoneListed, Load'}
<1> DEFINE j == task[t]
<1>1. Touches(t) /\ j # Idle /\ Does(j)
  BY StepTouches, Operating
<1>2. \/ u # t /\ task'[u] = task[u]
      \/ task[u] # Idle /\ u = t /\ Turns(task[u], task'[u])
      \/ task[u] # Idle /\ (Stops(task[u], task'[u]) \/ Survives(task[u], task'[u]))
  BY TasksTurn
<1>3. ~Survives(task[u], task'[u])
  BY DEF Survives
<1>4. task[u] # Idle /\ task[u].op = "auto"
  BY <1>2, <1>3, JobKept
<1>5. task[u].list \in {NoneListed, Load}
  BY <1>4 DEF HomeInv
<1>6. Load' = Load
  <2>1. j.op \notin Writers
    BY <1>1, <1>4 DEF GoneInv, Exclusive, Writing, Writers, All
  <2> QED BY <1>1, <2>1 DEF Touches, Does, Load
<1>7. task'[u].list \in {task[u].list, Load}
  <2>1. Turns(task[u], task'[u]) => task'[u].list \in {task[u].list, Load}
    <3>1. Does(task[u])
      BY <1>4 DEF JobsInv, GoodJob
    <3>2. ~Checks(task[u], task'[u]) /\ ~Enters(task[u], task'[u]) /\ ~LooksUp(task[u], task'[u])
          /\ ~Plans(task[u], task'[u])
      BY <1>4, <3>1 DEF Checks, Enters, LooksUp, Plans, Does, Ops, Writers
    <3> QED BY <3>2 DEF Turns, GoesOn, Carries, Snapshots, Takes
  <2>2. Stops(task[u], task'[u]) => task'[u].list = task[u].list
    BY DEF Stops, Carries
  <2> QED BY <1>2, <1>3, <2>1, <2>2
<1> QED BY <1>5, <1>6, <1>7

LEMMA StepHomes == JobsInv /\ HomeInv /\ GoneInv /\ [Next]_vars => HomeInv'
<1> SUFFICES ASSUME JobsInv, HomeInv, GoneInv, [Next]_vars PROVE HomeInv'
  OBVIOUS
<1>1. ASSUME NEW t \in Task, Operate(t) PROVE HomeInv'
  BY <1>1, LoadHomes, ListHomes, SnapshotHomes DEF HomeInv
<1>2. ASSUME UNCHANGED <<file, table>>,
             \A u \in Task : \/ task'[u] = task[u] \/ task'[u] = Idle
                             \/ task'[u].pc \in Ops /\ task'[u].list = NoneListed
                             \/ task[u] # Idle /\ Survives(task[u], task'[u])
      PROVE  HomeInv'
  <2>1. Load' = Load /\ \A p \in Place, n \in Name : Kept(p, n)' = Kept(p, n)
    BY <1>2 DEF Load, Kept, Serves
  <2>2. ASSUME NEW u \in Task, NEW n \in Name, Mounts(u, n)'
        PROVE  Mounts(u, n) /\ task'[u].place = task[u].place
    <3>1. task'[u].pc \notin Ops
      BY <2>2 DEF Mounts, MountSteps, Ops, Writers
    <3> QED BY <1>2, <2>2, <3>1 DEF Mounts, Survives, MountSteps
  <2>3. ASSUME NEW list, NEW n \in Name \ {Memory}, Home(list, n) PROVE Home(list, n)'
    BY <2>1, <2>2, <2>3 DEF Home
  <2>4. ASSUME NEW n \in Name \ {Memory} PROVE Home(Load, n)'
    <3>1. PICK list : list = Load
      OBVIOUS
    <3>2. Home(list, n)'
      BY <2>3, <3>1 DEF HomeInv
    <3> QED BY <2>1, <3>1, <3>2 DEF Home
  <2>5. ASSUME NEW u \in Task, NEW n \in Name \ {Memory}, Rewrites(u, n)'
        PROVE  Agrees(task[u].list, n)' /\ Home(task[u].list, n)'
    <3>1. task'[u].pc \in {"unmount first", "write", "fill"} /\ task'[u] # Idle
      BY <2>5 DEF Rewrites
    <3>2. task'[u] = task[u]
      BY <1>2, <3>1 DEF Survives, Ops, Writers
    <3>3. PICK list : list = task[u].list
      OBVIOUS
    <3>4. Agrees(list, n) /\ Home(list, n)
      BY <2>5, <3>2, <3>3 DEF HomeInv, Rewrites
    <3>5. Agrees(list, n)' /\ Home(list, n)'
      BY <2>1, <2>3, <3>4 DEF Agrees
    <3> QED BY <3>2, <3>3, <3>5 DEF Agrees, Home
  <2>6. ASSUME NEW u \in Task, task'[u] # Idle, task'[u].op = "auto"
        PROVE  task'[u].list \in {NoneListed, Load'}
    BY <1>2, <2>1, <2>6 DEF HomeInv, Survives
  <2> QED BY <2>4, <2>5, <2>6 DEF HomeInv
<1>3. ASSUME NEW t \in Task, NEW op \in Ops, NEW n \in Name, NEW f \in Form \cup {NoSecret}, Call(t, op, n, f)
      PROVE  HomeInv'
  <2>1. PICK job : job = Called(op, n, f)
    OBVIOUS
  <2>2. job.pc \in Ops /\ job.list = NoneListed
    BY <2>1 DEF Called
  <2>3. task'[t] = job /\ \A u \in Task \ {t} : task'[u] = task[u]
    BY <1>3, <2>1, Replaced DEF Call
  <2>4. \A u \in Task : task'[u] = task[u] \/ (task'[u].pc \in Ops /\ task'[u].list = NoneListed)
    BY <2>2, <2>3
  <2> QED BY <1>2, <1>3, <2>4 DEF Call, system
<1>4. CASE Kill
  <2>1. \A u \in Task : task'[u] = Idle \/ (task[u] # Idle /\ Survives(task[u], task'[u]))
    BY <1>4, Deaths DEF Kill
  <2> QED BY <1>2, <1>4, <2>1 DEF Kill, system
<1>5. CASE UNCHANGED vars
  BY <1>2, <1>5 DEF vars, system
<1> QED BY <1>1, <1>3, <1>4, <1>5 DEF Next

-----------------------------------------------------------------------------
(* A deleted connection is gone.                                           *)

LEMMA InitGone == Init => GoneInv
BY DEF Init, GoneInv, Exclusive, Writing

LEMMA StaysExclusive ==
    ASSUME Exclusive,
           \A u \in Task : task'[u] # Idle =>
               /\ task[u] # Idle
               /\ task'[u].op = task[u].op \/ task'[u].op = "mount"
               /\ task'[u].name = task[u].name \/ task[u].op = "auto"
    PROVE  Exclusive'
<1> SUFFICES ASSUME NEW t \in Task, NEW u \in Task, t # u, Writing(t)', task'[u] # Idle
             PROVE  task'[u].op \notin Writers \cup All /\ task'[u].name # task'[t].name
  BY DEF Exclusive
<1>1. task'[t] # Idle /\ task'[t].op \in Writers
  BY DEF Writing
<1>2. "mount" \notin Writers \cup All /\ "auto" \in All /\ "auto" \notin Writers
  BY DEF Writers, All
<1>3. Writing(t) /\ task'[t].name = task[t].name
  BY <1>1, <1>2 DEF Writing
<1>4. task[u].op \notin Writers \cup All /\ task[u].name # task[t].name
  BY <1>3 DEF Exclusive
<1> QED BY <1>2, <1>3, <1>4

LEMMA WritersTurn ==
    ASSUME NEW job, NEW new, new # Idle, Does(job), job.op \in Writers, job.pc \in WriterSteps,
           Turns(job, new) \/ Stops(job, new)
    PROVE  new.pc \in WriterSteps
<1>1. CASE GoesOn(job, new)
  BY <1>1 DEF GoesOn, Onward, WriterSteps, Writers
<1>2. CASE Checks(job, new) \/ Enters(job, new) \/ LooksUp(job, new)
  BY <1>2 DEF Checks, Enters, LooksUp, WriterSteps
<1>3. ~Plans(job, new) /\ ~Snapshots(job, new) /\ ~Takes(job, new) /\ ~(job.op = "auto")
  BY DEF Plans, Snapshots, Takes, WriterSteps, Writers
<1> QED BY <1>1, <1>2, <1>3 DEF Turns, Stops

(* Its own step brings a delete on. *)
LEMMA DeleteTurn ==
    ASSUME JobsInv, HomeInv, GoneInv, NEW t \in Task, Operate(t), Turns(task[t], task'[t]),
           task'[t] # Idle, task'[t].op = "delete", NEW n, n = task'[t].name, n # Memory
    PROVE  Deleting(task[t])'
<1> DEFINE j == task[t]
           new == task'[t]
<1>1. j \in Job /\ j # Idle /\ Does(j) /\ Touches(t)
  BY Operating, StepTouches
<1>2. j.op = "delete" /\ j.name = n /\ n \in Name
  <2>1. j.op = "delete"
    <3>1. ~Plans(j, new) => new.op = j.op
      BY DEF Turns, GoesOn, Checks, Enters, LooksUp, Snapshots, Takes, Carries, Named, Same
    <3>2. Plans(j, new) => new.op = j.op
      BY DEF Plans, Named, Same
    <3> QED BY <3>1, <3>2
  <2> QED BY <1>1, <2>1, JobKept DEF Job
<1>3. Deleting(j) /\ j.pc \in WriterSteps
  BY <1>1, <1>2 DEF GoneInv, Writing, Writers
<1>4. ~Checks(j, new) /\ ~Enters(j, new) /\ ~Plans(j, new) /\ ~Snapshots(j, new) /\ ~Takes(j, new)
  BY <1>1, <1>2, <1>3 DEF Checks, Enters, Plans, Snapshots, Takes, Does, Ops, Writers, WriterSteps
<1>5. ASSUME \A p \in Place : ~Kept(p, n), j.pc # "activate" PROVE \A p \in Place : ~Kept(p, n)'
  BY <1>1, <1>2, <1>5 DEF Touches
<1>6. ASSUME NEW q, n \in DOMAIN Load, q = Load[n].point, table[q] = NoMount \/ table'[q] = NoMount,
             j.pc # "activate"
      PROVE  \A p \in Place : ~Kept(p, n)'
  <2> SUFFICES ASSUME NEW p \in Place, Kept(p, n)' PROVE FALSE
    OBVIOUS
  <2>1. Kept(p, n)
    BY <1>1, <1>2, <1>6 DEF Touches
  <2>2. p = q
    BY <1>2, <1>6, <2>1 DEF HomeInv, Home
  <2> QED BY <1>6, <2>1, <2>2 DEF Kept, Serves
<1>7. CASE LooksUp(j, new)
  <2>1. j.pc = "delete" /\ n \in DOMAIN Load /\ new.pc \in {"unmount first", "write"}
    BY <1>2, <1>3, <1>7 DEF LooksUp, Deleting
  <2>2. n \notin DOMAIN new.list /\ (new.pc = "unmount first" => new.place = Load[n].point)
    BY <1>2, <1>7 DEF LooksUp
  <2>3. Load' = Load
    BY <1>1, <2>1 DEF Touches, Load
  <2>4. ASSUME new.pc = "write" PROVE \A p \in Place : ~Kept(p, n)'
    <3>1. table[Load[n].point] = NoMount \/ \A p \in Place, m \in Name : m = n => ~Kept(p, m)'
      BY <1>2, <1>7, <2>1, <2>4 DEF LooksUp
    <3>2. CASE table[Load[n].point] = NoMount
      <4>1. PICK q : q = Load[n].point
        OBVIOUS
      <4> QED BY <1>6, <2>1, <3>2, <4>1
    <3> QED BY <1>2, <3>1, <3>2
  <2> QED BY <2>1, <2>2, <2>3, <2>4 DEF Deleting
<1>8. CASE GoesOn(j, new)
  <2>1. Carries(j, new) /\ <<j.pc, new.pc>> \in Onward
    BY <1>2, <1>8 DEF GoesOn
  <2>2. new.list = j.list /\ new.place = j.place
    BY <2>1 DEF Carries
  <2>3. CASE j.pc = "unmount first" /\ new.pc = "write"
    <3>1. n \notin DOMAIN new.list
      BY <1>2, <1>3, <2>2, <2>3 DEF Deleting
    <3>2. PICK q : q = j.place
      OBVIOUS
    <3>3. n \in DOMAIN Load /\ q = Load[n].point
      BY <1>2, <1>3, <2>3, <3>2 DEF Deleting
    <3>4. table'[q] = NoMount
      BY <1>1, <2>3, <3>2 DEF Touches
    <3>5. \A p \in Place : ~Kept(p, n)'
      BY <1>6, <2>3, <3>3, <3>4
    <3> QED BY <2>3, <3>1, <3>5 DEF Deleting
  <2>4. CASE j.pc = "write" /\ new.pc = "fill"
    <3>1. n \notin DOMAIN new.list /\ \A p \in Place : ~Kept(p, n)
      BY <1>2, <1>3, <2>2, <2>4 DEF Deleting
    <3>2. \A p \in Place : ~Kept(p, n)'
      BY <1>5, <2>4, <3>1
    <3> QED BY <2>4, <3>1, <3>2 DEF Deleting
  <2>5. CASE j.pc = "fill" /\ new.pc = "forget"
    <3>1. n \notin DOMAIN j.list /\ \A p \in Place : ~Kept(p, n)
      BY <1>2, <1>3, <2>5 DEF Deleting
    <3>2. Load' = j.list
      BY <1>1, <2>5 DEF Touches, Load
    <3>3. \A p \in Place : ~Kept(p, n)'
      BY <1>5, <2>5, <3>1
    <3> QED BY <2>5, <3>1, <3>2, <3>3 DEF Deleting
  <2>6. CASE j.pc = "forget" /\ new.pc = "forget on disk"
    <3>1. n \notin DOMAIN Load /\ \A p \in Place : ~Kept(p, n)
      BY <1>2, <1>3, <2>6 DEF Deleting
    <3>2. InKeychain(n)' /\ Load' = Load
      BY <1>1, <1>2, <2>6 DEF Touches, Load, InKeychain
    <3>3. \A p \in Place : ~Kept(p, n)'
      BY <1>5, <2>6, <3>1
    <3> QED BY <2>6, <3>1, <3>2, <3>3 DEF Deleting
  <2>7. j.pc \notin {"store", "store on disk", "keep", "keep on disk", "load"}
    BY <1>1, <1>2, <1>3 DEF Does, WriterSteps, Writers
  <2> QED BY <2>1, <2>3, <2>4, <2>5, <2>6, <2>7 DEF Onward
<1> QED BY <1>4, <1>7, <1>8 DEF Turns

(* No other task gets in its way. *)
LEMMA DeleteUndisturbed ==
    ASSUME JobsInv, GoneInv, NEW t \in Task, Operate(t), NEW u \in Task \ {t}, task'[u] = task[u],
           task[u] # Idle, task[u].op = "delete", NEW n, n = task[u].name, n # Memory
    PROVE  Deleting(task[u])'
<1> DEFINE j == task[t]
<1>1. /\ j \in Job /\ j # Idle /\ Does(j) /\ Touches(t) /\ task[u] \in Job /\ n \in Name
      /\ Deleting(task[u]) /\ Writing(u)
  BY Operating, StepTouches DEF GoneInv, JobsInv, TypeOK, Writing, Writers, Job
<1>2. j.op \notin Writers /\ j.name # n
  BY <1>1 DEF GoneInv, Exclusive
<1>3. j.pc \notin {"write", "fill"}
  BY <1>1, <1>2 DEF Does
<1>4. Load' = Load
  BY <1>1, <1>3 DEF Touches, Load
<1>5. InKeychain(n) => InKeychain(n)'
  BY <1>1, <1>2 DEF Touches, InKeychain
<1>6. (\A p \in Place : ~Kept(p, n)) => \A p \in Place : ~Kept(p, n)'
  BY <1>1, <1>2 DEF Touches
<1> QED BY <1>1, <1>4, <1>5, <1>6 DEF Deleting

(* A deleted connection stays away. *)
LEMMA AwayTurn ==
    ASSUME NEW job, Does(job), NEW new, new # Idle, Turns(job, new), NEW n, Leaves(job, n), n \notin DOMAIN Load
    PROVE  Leaves(new, n)
<1>1. CASE GoesOn(job, new)
  BY <1>1 DEF GoesOn, Onward, Carries, Named, Same, Leaves
<1>2. CASE Checks(job, new)
  BY <1>2 DEF Checks, Named, Same, Leaves, Does, Ops, Writers
<1>3. CASE Enters(job, new)
  BY <1>3 DEF Enters, Named, Same, Leaves
<1>4. CASE LooksUp(job, new)
  BY <1>4 DEF LooksUp, Named, Same, Leaves, Does, Ops, Writers
<1>5. CASE Plans(job, new)
  BY <1>5 DEF Plans, Named, Same, Leaves, Does, Ops, Writers
<1>6. CASE Snapshots(job, new)
  BY <1>6 DEF Snapshots, Named, Same, Leaves
<1>7. CASE Takes(job, new)
  BY <1>7 DEF Takes, Same, Leaves
<1> QED BY <1>1, <1>2, <1>3, <1>4, <1>5, <1>6, <1>7 DEF Turns

LEMMA AwayCutShort ==
    ASSUME NEW job, NEW new, new # Idle, Stops(job, new) \/ Survives(job, new), NEW n, Leaves(job, n)
    PROVE  Leaves(new, n)
<1>1. CASE Stops(job, new)
  BY <1>1 DEF Stops, Carries, Named, Same, Leaves
<1>2. CASE Survives(job, new)
  BY <1>2 DEF Survives, Leaves
<1> QED BY <1>1, <1>2

LEMMA GoneStays ==
    ASSUME JobsInv, NEW t \in Task, Operate(t), NEW n \in Name \ {Memory}, Gone(n)
    PROVE  Gone(n)'
<1> DEFINE j == task[t]
<1>1. j \in Job /\ j # Idle /\ Does(j) /\ Touches(t) /\ Leaves(j, n)
  BY Operating, StepTouches DEF Gone
<1>2. n \notin DOMAIN Load'
  <2>1. file' = file \/ file' = Torn \/ (j.pc = "fill" /\ file' = [readable |-> TRUE, list |-> j.list])
    BY <1>1 DEF Touches
  <2>2. Load' = Load \/ Load' = WithDefaults \/ (j.pc = "fill" /\ Load' = j.list)
    BY <2>1 DEF Load, Torn
  <2> QED BY <1>1, <2>2 DEF Gone, Leaves, WithDefaults
<1>3. j.name = n => j.pc \in {"mount", "prompt", "unmount", "next"}
  BY <1>1 DEF Leaves
<1>4. InKeychain(n)' /\ OnDisk(n)' /\ \A p \in Place : ~Kept(p, n)'
  BY <1>1, <1>3 DEF Touches, Gone, InKeychain, OnDisk
<1>5. ASSUME NEW u \in Task, task'[u] # Idle PROVE Leaves(task'[u], n)
  <2>1. \/ task'[u] = task[u]
        \/ task[u] # Idle /\ (Turns(task[u], task'[u]) \/ Stops(task[u], task'[u]) \/ Survives(task[u], task'[u]))
    BY <1>5, TasksTurn
  <2>2. task[u] # Idle /\ Does(task[u]) /\ Leaves(task[u], n)
    BY <1>5, <2>1 DEF Gone, JobsInv, GoodJob
  <2> QED BY <1>5, <2>1, <2>2, AwayTurn, AwayCutShort DEF Gone
<1>6. \A job : Leaves(job, n)' = Leaves(job, n)
  BY DEF Leaves
<1> QED BY <1>2, <1>4, <1>5, <1>6 DEF Gone

(* At the end of its delete it is. *)
LEMMA GoneAtLast ==
    ASSUME JobsInv, JobsInv', GoneInv, NEW t \in Task, Operate(t), task[t].pc = "forget on disk",
           NEW n, n = task[t].name, n # Memory
    PROVE  Gone(n)'
<1> DEFINE j == task[t]
<1>1. /\ j \in Job /\ j # Idle /\ Does(j) /\ Touches(t) /\ n \in Name /\ j.op = "delete"
      /\ Deleting(j) /\ Writing(t)
  BY Operating, StepTouches DEF GoneInv, Does, Writing, Writers, Job
<1>2. /\ n \notin DOMAIN Load /\ InKeychain(n) /\ \A p \in Place : ~Kept(p, n)
  BY <1>1 DEF Deleting
<1>3. Load' = Load /\ InKeychain(n)' /\ OnDisk(n)' /\ task'[t] = Idle
  BY <1>1, <1>2 DEF Touches, Load, InKeychain, OnDisk
<1>4. \A p \in Place : ~Kept(p, n)'
  BY <1>1, <1>2 DEF Touches
<1>5. ASSUME NEW u \in Task, task'[u] # Idle PROVE Leaves(task'[u], n)
  <2>1. u # t
    BY <1>3, <1>5
  <2>2. \/ task'[u] = task[u]
        \/ task[u] # Idle /\ (Turns(task[u], task'[u]) \/ Stops(task[u], task'[u]) \/ Survives(task[u], task'[u]))
    BY <1>5, <2>1, TasksTurn
  <2>3. task[u].op \notin Writers \cup All /\ task[u].name # n
    BY <1>1, <1>5, <2>1, <2>2 DEF GoneInv, Exclusive
  <2>4. task'[u].op \notin Writers \cup All /\ task'[u].name # n
    <3>1. task'[u].op = task[u].op \/ task'[u].op = "mount"
      BY <1>5, <2>2, JobKept
    <3>2. task'[u].name = task[u].name
      BY <1>5, <2>2, <2>3, JobKept DEF All
    <3> QED BY <2>3, <3>1, <3>2 DEF Writers, All
  <2>5. Does(task'[u])
    BY <1>5 DEF JobsInv, GoodJob
  <2> QED BY <2>4, <2>5 DEF Leaves, Does, Writers, All
<1>6. \A job : Leaves(job, n)' = Leaves(job, n)
  BY DEF Leaves
<1>7. n \notin DOMAIN Load'
  BY <1>2, <1>3
<1> QED BY <1>3, <1>4, <1>5, <1>6, <1>7 DEF Gone

(* A step of a task. *)
LEMMA OperateGone ==
    ASSUME JobsInv, JobsInv', HomeInv, GoneInv, NEW t \in Task, Operate(t)
    PROVE  GoneInv'
<1>1. Touches(t) /\ task[t] # Idle /\ Does(task[t])
  BY StepTouches, Operating
<1>2. ASSUME NEW u \in Task, task'[u] # Idle
      PROVE  \/ u # t /\ task'[u] = task[u]
             \/ /\ task[u] # Idle /\ Does(task[u])
                /\ (u = t /\ Turns(task[u], task'[u])) \/ Stops(task[u], task'[u]) \/ Survives(task[u], task'[u])
  BY <1>2, TasksTurn DEF JobsInv, GoodJob
<1>3. Exclusive'
  <2>1. ASSUME NEW u \in Task, task'[u] # Idle
        PROVE  /\ task[u] # Idle
               /\ task'[u].op = task[u].op \/ task'[u].op = "mount"
               /\ task'[u].name = task[u].name \/ task[u].op = "auto"
    BY <1>2, <2>1, JobKept
  <2> QED BY <2>1, StaysExclusive DEF GoneInv
<1>4. ASSUME NEW u \in Task, task'[u] # Idle, task'[u].op \in Writers, ~(u # t /\ task'[u] = task[u])
      PROVE  /\ Does(task[u]) /\ Writing(u) /\ task[u].op = task'[u].op
             /\ (u = t /\ Turns(task[u], task'[u])) \/ Stops(task[u], task'[u])
  <2>1. ~Survives(task[u], task'[u])
    BY <1>4 DEF Survives, Writers
  <2>2. /\ task[u] # Idle /\ Does(task[u])
        /\ (u = t /\ Turns(task[u], task'[u])) \/ Stops(task[u], task'[u])
    BY <1>2, <1>4, <2>1
  <2>3. task'[u].op = task[u].op \/ task'[u].op = "mount"
    BY <1>4, <2>2, JobKept
  <2>4. task'[u].op = task[u].op
    BY <1>4, <2>3 DEF Writers
  <2> QED BY <1>4, <2>2, <2>4 DEF Writing
<1>5. ASSUME NEW u \in Task, Writing(u)' PROVE task'[u].pc \in WriterSteps
  <2>1. task'[u] # Idle /\ task'[u].op \in Writers
    BY <1>5 DEF Writing
  <2>2. CASE u # t /\ task'[u] = task[u]
    BY <2>1, <2>2 DEF GoneInv, Writing
  <2>3. CASE ~(u # t /\ task'[u] = task[u])
    BY <1>4, <2>1, <2>3, WritersTurn DEF GoneInv, Writing
  <2> QED BY <2>2, <2>3
<1>6. ASSUME NEW u \in Task, task'[u] # Idle, task'[u].op = "delete", task'[u].name # Memory
      PROVE  Deleting(task[u])'
  <2>1. PICK n : n = task'[u].name
    OBVIOUS
  <2>2. CASE u # t /\ task'[u] = task[u]
    BY <1>6, <2>1, <2>2, DeleteUndisturbed
  <2>3. CASE ~(u # t /\ task'[u] = task[u])
    <3>1. task[u].op = "delete" /\ ((u = t /\ Turns(task[u], task'[u])) \/ Stops(task[u], task'[u]))
      BY <1>4, <1>6, <2>3 DEF Writers
    <3>2. ~Stops(task[u], task'[u])
      BY <1>6, <3>1 DEF Stops
    <3> QED BY <1>6, <2>1, <3>1, <3>2, DeleteTurn
  <2> QED BY <2>2, <2>3
<1>7. ASSUME NEW n \in deleted' \ {Memory} PROVE Gone(n)'
  <2>1. n \in Name
    BY DEF JobsInv, TypeOK
  <2>2. CASE n \in deleted
    BY <2>1, <2>2, GoneStays DEF GoneInv
  <2>3. CASE n \notin deleted
    <3>1. task[t].pc = "forget on disk" /\ n = task[t].name
      BY <1>1, <2>3 DEF Touches
    <3> QED BY <3>1, GoneAtLast
  <2> QED BY <2>2, <2>3
<1> QED BY <1>3, <1>5, <1>6, <1>7 DEF GoneInv

(* Nothing is called that would work on the connection of a save or a      *)
(* delete, and nothing but a save brings back a deleted one.               *)
LEMMA CallGone ==
    ASSUME Serial, JobsInv, GoneInv, NEW t \in Task, NEW op \in Ops, NEW n \in Name,
           NEW f \in Form \cup {NoSecret}, Call(t, op, n, f)
    PROVE  GoneInv'
<1>1. PICK job : job = Called(op, n, f)
  OBVIOUS
<1>2. job.pc = op /\ job.op = op /\ job.name = n /\ DOMAIN job.list = {}
  BY <1>1 DEF Called, NoneListed
<1>3. task[t] = Idle /\ task'[t] = job /\ \A u \in Task \ {t} : task'[u] = task[u]
  BY <1>1, Replaced DEF Call
<1>4. UNCHANGED <<Load, keychain, disk, table>>
  BY DEF Call, stores, system, Load
<1>5. ASSUME NEW u \in Task \ {t}, task[u] # Idle, op \in Writers \/ task[u].op \in Writers
      PROVE  /\ ~(op \in Writers /\ task[u].op \in Writers)
             /\ op \notin All /\ task[u].op \notin All /\ n # task[u].name
  <2>1. /\ WorksOn(op, n) \cap WorksOn(task[u].op, task[u].name) = {}
        /\ ~(op \in Writers /\ task[u].op \in Writers)
    BY <1>5 DEF Call, Apart
  <2>2. task[u].name \in Name
    BY <1>5 DEF JobsInv, TypeOK, Job
  <2> QED BY <2>1, <2>2 DEF WorksOn
<1>6. Exclusive'
  <2> SUFFICES ASSUME NEW u \in Task, NEW v \in Task, u # v, Writing(u)', task'[v] # Idle
               PROVE  task'[v].op \notin Writers \cup All /\ task'[v].name # task'[u].name
    BY DEF Exclusive
  <2>1. task'[u] # Idle /\ task'[u].op \in Writers
    BY DEF Writing
  <2>2. CASE u = t
    BY <1>2, <1>3, <1>5, <2>1, <2>2
  <2>3. CASE v = t
    BY <1>2, <1>3, <1>5, <2>1, <2>3
  <2>4. CASE u # t /\ v # t
    BY <1>3, <2>1, <2>4 DEF GoneInv, Exclusive, Writing
  <2> QED BY <2>2, <2>3, <2>4
<1>7. ASSUME NEW u \in Task, Writing(u)' PROVE task'[u].pc \in WriterSteps
  BY <1>2, <1>3, <1>7 DEF GoneInv, Writing, WriterSteps
<1>8. ASSUME NEW u \in Task, task'[u] # Idle, task'[u].op = "delete", task'[u].name # Memory
      PROVE  Deleting(task[u])'
  <2>1. CASE u = t
    <3>1. op = "delete" /\ n \in DOMAIN Load'
      BY <1>2, <1>3, <1>4, <1>8, <2>1 DEF Call, Offered
    <3> QED BY <1>2, <1>3, <2>1, <3>1 DEF Deleting
  <2>2. CASE u # t
    <3>1. task'[u] = task[u] /\ Deleting(task[u])
      BY <1>3, <1>8, <2>2 DEF GoneInv
    <3>2. op \notin {"create", "edit"}
      BY <1>3, <1>5, <1>8, <2>2, <3>1 DEF Writers
    <3>3. UNCHANGED left
      BY <3>2 DEF Call
    <3> QED BY <1>4, <3>1, <3>3 DEF Deleting, Kept, Serves, InKeychain
  <2> QED BY <2>1, <2>2
<1>9. ASSUME NEW m \in deleted' \ {Memory} PROVE Gone(m)'
  <2>1. Gone(m) /\ m \in Name
    BY DEF Call, GoneInv, JobsInv, TypeOK
  <2>5. InKeychain(m)' /\ OnDisk(m)'
    <3>1. op \in {"create", "edit"} => m # n
      BY <1>9 DEF Call
    <3>2. ASSUME NEW where PROVE <<m, where>> \in left => <<m, where>> \in left'
      BY <3>1 DEF Call
    <3> QED BY <1>4, <2>1, <3>2 DEF Gone, InKeychain, OnDisk
  <2>2. ASSUME m = n PROVE op \in {"mount", "prompt", "unmount"}
    <3>1. op \notin {"create", "edit"}
      BY <1>9, <2>2 DEF Call
    <3>2. op # "delete" /\ op \notin All
      BY <1>9, <2>1, <2>2 DEF Call, Offered, Gone
    <3> QED BY <3>1, <3>2 DEF Ops, Writers, All
  <2>3. op \notin {"unmount first", "write", "fill"}
    BY DEF Ops, Writers
  <2>4. ASSUME NEW u \in Task, task'[u] # Idle PROVE Leaves(task[u], m)'
    BY <1>2, <1>3, <2>1, <2>2, <2>3, <2>4 DEF Gone, Leaves
  <2> QED BY <1>4, <2>1, <2>4, <2>5 DEF Gone, Kept, Serves
<1> QED BY <1>6, <1>7, <1>8, <1>9 DEF GoneInv

LEMMA DeathGone == ASSUME JobsInv, GoneInv, Kill PROVE GoneInv'
<1>1. /\ UNCHANGED <<Load, keychain, disk, table, deleted, left>>
      /\ \A u \in Task : task'[u] = Idle \/ (task[u] # Idle /\ Survives(task[u], task'[u]))
  BY Deaths DEF Kill, stores, system, Load
<1>2. ASSUME NEW u \in Task, task'[u] # Idle PROVE task'[u].op = "mount"
  BY <1>1, <1>2 DEF Survives
<1>3. Exclusive' /\ \A u \in Task : ~Writing(u)'
  BY <1>2 DEF Exclusive, Writing, Writers
<1>4. ASSUME NEW n \in deleted' \ {Memory} PROVE Gone(n)'
  <2>1. Gone(n)
    BY <1>1, <1>4 DEF GoneInv
  <2>2. ASSUME NEW u \in Task, task'[u] # Idle PROVE Leaves(task[u], n)'
    <3>1. Leaves(task'[u], n)
      BY <1>1, <2>1, <2>2, AwayCutShort DEF Gone
    <3> QED BY <3>1 DEF Leaves
  <2> QED BY <1>1, <2>1, <2>2 DEF Gone, Kept, Serves, InKeychain, OnDisk
<1> QED BY <1>2, <1>3, <1>4 DEF GoneInv

LEMMA StepGone ==
    ASSUME Serial PROVE JobsInv /\ HomeInv /\ GoneInv /\ [Next]_vars => GoneInv'
<1> SUFFICES ASSUME JobsInv, HomeInv, GoneInv, [Next]_vars PROVE GoneInv'
  OBVIOUS
<1>1. ASSUME NEW t \in Task, Operate(t) PROVE GoneInv'
  BY <1>1, NextJobs, OperateGone
<1>2. CASE UNCHANGED vars
  <2>1. UNCHANGED <<task, deleted, left, Load, keychain, disk, table>>
    BY <1>2 DEF vars, stores, system, Load
  <2>2. Exclusive' /\ \A n : Gone(n) => Gone(n)'
    BY <2>1 DEF GoneInv, Exclusive, Writing, Gone, Kept, Serves, InKeychain, OnDisk, Leaves
  <2> QED BY <2>1, <2>2 DEF GoneInv, Writing, Deleting, Kept, Serves, InKeychain
<1> QED BY <1>1, <1>2, CallGone, DeathGone DEF Next

(* Once a delete was answered Ok, and until the connection is saved again, *)
(* its secret is only in a store that refused to delete it, and a mount    *)
(* only where an edit had moved the folder away or the mounts could not be *)
(* listed, where one form saves or deletes at a time, apart from what      *)
(* works on the same connection: through failed steps of saves and deletes,*)
(* deaths of the application at any time and all that goes on for others.  *)
THEOREM DeletedStaysGone == ASSUME Serial PROVE Spec => []DeletedIsGone
<1>1. JobsInv /\ GoneInv => DeletedIsGone
  <2> SUFFICES ASSUME JobsInv, GoneInv, NEW n \in deleted PROVE
          /\ keychain[n] # NoSecret => <<n, "keychain">> \in left
          /\ disk[n] # NoSecret => <<n, "disk">> \in left
          /\ \A p \in Place : table[p] # NoMount /\ table[p].name = n => table[p].stray
    BY DEF DeletedIsGone
  <2>1. Gone(n)
    BY DEF JobsInv, TypeOK, GoneInv
  <2> QED BY <2>1 DEF Gone, InKeychain, OnDisk, Kept, Serves
<1>2. JobsInv /\ HomeInv /\ GoneInv /\ [Next]_vars => HomeInv' /\ GoneInv'
  BY StepHomes, StepGone
<1> QED BY <1>1, <1>2, InitJobs, NextJobs, InitHomes, InitGone, PTL DEF Spec
=============================================================================
