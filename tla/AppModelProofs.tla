--------------------------- MODULE AppModelProofs ---------------------------
(***************************************************************************)
(* What AppModel promises of the launch and of the rows, for any           *)
(* connections, any number of the user's tasks and any bound on them.      *)
(***************************************************************************)
EXTENDS AppModel, TLAPS

-----------------------------------------------------------------------------
(* Types. *)

LEMMA InitTyping == Init => TypeOK
<1> SUFFICES ASSUME Init PROVE TypeOK
  OBVIOUS
<1>1. listed \subseteq Conn /\ secret \subseteq Conn /\ mounted \subseteq Conn
  BY WorldsAssumption DEF Init
<1>2. (CHOOSE c \in Conn : TRUE) \in Conn
  BY ConnAssumption
<1>3. conn \in [Actor -> Conn]
  BY <1>2 DEF Init
<1>4. pc \in [Actor -> Steps] /\ check \in [Actor -> Health \cup {"none", "asked", "probing"}]
  BY DEF Init, Steps, Ops, Health
<1>5. list \in [Actor -> [Row -> (SUBSET Conn) \cup {Unread, Shown}]]
  BY DEF Init, NoList
<1>6. rows \in [Row -> SUBSET Conn] /\ by \in [Row -> Actor]
  BY DEF Init, Actor
<1>7. /\ enabled \in BOOLEAN /\ report \in Health /\ youngest \in Actor
      /\ todo \subseteq Conn /\ failed \subseteq Conn /\ prompts \subseteq Conn
      /\ unannounced \subseteq Row /\ touched \subseteq Conn
  BY DEF Init, Health, Actor
<1>8. clicks \in 0..MaxClicks
  <2>1. clicks = 0
    BY DEF Init
  <2> QED BY <2>1, ClicksAssumption
<1> QED BY <1>8, <1>1, <1>3, <1>4, <1>5, <1>6, <1>7 DEF TypeOK

(* The steps of a refresh. *)
LEMMA RefreshTyping ==
    ASSUME TypeOK, NEW a \in Actor, Answers(a) \/ Probed(a) \/ RefreshNext(a) PROVE TypeOK'
<1> USE DEF world, refreshes, launch, history, Ops
<1>1. CASE Answers(a) \/ Probed(a)
  BY <1>1 DEF TypeOK, Answers, Probed, Health
<1>2. CASE TimesOut(a)
  BY <1>2 DEF TypeOK, TimesOut, Health
<1>3. CASE Report(a)
  BY <1>3 DEF TypeOK, Report, Steps
<1>4. CASE RefreshConnections(a)
  BY <1>4 DEF TypeOK, RefreshConnections, Begin, Goto, Steps
<1>5. CASE Refreshed(a)
  BY <1>5 DEF TypeOK, Refreshed, Goto, Steps
<1>6. ASSUME NEW r \in Row, Read(a, r) PROVE TypeOK'
  BY <1>6 DEF TypeOK, Read, World
<1>7. ASSUME NEW r \in Row, Show(a, r) PROVE TypeOK'
  BY <1>7 DEF TypeOK, Show
<1> QED BY <1>1, <1>2, <1>3, <1>4, <1>5, <1>6, <1>7 DEF RefreshNext

(* What the user starts. *)
LEMMA UserTyping ==
    ASSUME TypeOK, NEW u \in User, UserNext(u) PROVE TypeOK'
<1> USE DEF world, refreshes, launch, history, Ops
<1> u \in Actor
  BY DEF Actor
<1>1. CASE OpenMenu(u)
  BY <1>1, ClicksAssumption DEF TypeOK, OpenMenu, Starts, Begin, Goto, Steps
<1>2. CASE Recheck(u)
  BY <1>2, ClicksAssumption DEF TypeOK, Recheck, Starts, Goto, Steps
<1>3. ASSUME NEW op \in Ops, NEW c \in Conn, Click(u, op, c) PROVE TypeOK'
  BY <1>3, ClicksAssumption DEF TypeOK, Click, Starts, Goto, Steps
<1>4. CASE Throws(u)
  BY <1>4 DEF TypeOK, Throws, Goto, Steps
<1>5. CASE Mount(u)
  <2>1. conn[u] \in Conn
    BY DEF TypeOK
  <2>2. mounted' \subseteq Conn /\ prompts' \subseteq Conn
    BY <1>5, <2>1 DEF TypeOK, Mount
  <2>3. pc' \in [Actor -> Steps]
    BY <1>5 DEF TypeOK, Mount, Goto, Steps
  <2> QED BY <1>5, <2>2, <2>3 DEF TypeOK, Mount
<1>6. CASE Unmount(u)
  BY <1>6 DEF TypeOK, Unmount, Goto, Steps
<1>7. CASE Save(u)
  BY <1>7 DEF TypeOK, Save, Goto, Steps
<1>8. CASE Delete(u)
  BY <1>8 DEF TypeOK, Delete, Goto, Steps, Row
<1>9. CASE Submit(u)
  <2>1. conn[u] \in Conn
    BY DEF TypeOK
  <2>2. mounted' \subseteq Conn /\ prompts' \subseteq Conn /\ secret' \subseteq Conn
    BY <1>9, <2>1 DEF TypeOK, Submit
  <2>3. pc' \in [Actor -> Steps]
    BY <1>9 DEF TypeOK, Submit, Goto, Steps
  <2> QED BY <1>9, <2>2, <2>3 DEF TypeOK, Submit
<1> QED BY <1>1, <1>2, <1>3, <1>4, <1>5, <1>6, <1>7, <1>8, <1>9 DEF UserNext

(* The launch. *)
LEMMA LaunchTyping == ASSUME TypeOK, LaunchNext PROVE TypeOK'
<1> USE DEF world, refreshes, launch, history, Ops
<1> Launch \in Actor
  BY DEF Actor
<1>1. CASE AutoMount
  BY <1>1 DEF TypeOK, AutoMount, Goto, Steps
<1>2. CASE MountsTried
  BY <1>2 DEF TypeOK, MountsTried, Goto, Steps
<1>3. CASE Retry
  BY <1>3 DEF TypeOK, Retry, Goto, Steps
<1>4. CASE RestartAndRetry
  BY <1>4 DEF TypeOK, RestartAndRetry, Goto, Steps
<1>5. CASE Dismiss
  BY <1>5 DEF TypeOK, Dismiss
<1>6. CASE PromptForSecrets
  BY <1>6 DEF TypeOK, PromptForSecrets, Goto, Steps
<1>7. ASSUME NEW c \in Conn, AutoMountNext(c) PROVE TypeOK'
  BY <1>7 DEF TypeOK, AutoMountNext
<1>8. ASSUME NEW c \in Conn, RetryNext(c) PROVE TypeOK'
  BY <1>8 DEF TypeOK, RetryNext
<1> QED BY <1>1, <1>2, <1>3, <1>4, <1>5, <1>6, <1>7, <1>8 DEF LaunchNext

LEMMA NextTyping == TypeOK /\ [Next]_vars => TypeOK'
<1> SUFFICES ASSUME TypeOK, [Next]_vars PROVE TypeOK'
  OBVIOUS
<1>1. CASE Enable
  BY <1>1 DEF TypeOK, Enable, world, refreshes, launch, history
<1>2. CASE UNCHANGED vars
  BY <1>2 DEF TypeOK, vars, world, refreshes, launch, history
<1> QED BY <1>1, <1>2, RefreshTyping, UserTyping, LaunchTyping DEF Next

(* Every variable of the host application keeps its type, for any          *)
(* connections and any number of tasks (xcode/host/App.swift).             *)
THEOREM Typing == Spec => []TypeOK
BY InitTyping, NextTyping, PTL DEF Spec

-----------------------------------------------------------------------------
(* The launch. *)

(* From its first mounts to its end the launch has each flagged connection *)
(* mounted, failed, still to mount or without a secret, unless the user    *)
(* has dealt with it.                                                      *)
Trying == {"mounting", "retrying", "refresh", "listing", "alert"}

NoneForgotten ==
    pc[Launch] \in Trying =>
        \A c \in (OnLaunch \cap listed) \ touched : c \in mounted \cup failed \cup todo \/ c \notin secret

LaunchInv ==
    /\ NoneForgotten
    /\ pc[Launch] \in {"refresh", "listing", "alert"} => todo = {}
    /\ pc[Launch] # "menu"
    /\ \A u \in User : pc[u] \in Ops => conn[u] \in touched

LEMMA InitLaunch == Init => LaunchInv
<1> SUFFICES ASSUME Init PROVE LaunchInv
  OBVIOUS
<1>1. pc = [a \in Actor |-> IF a = Launch THEN "check" ELSE "idle"]
  BY DEF Init
<1>2. pc[Launch] = "check" /\ \A u \in User : pc[u] = "idle"
  BY <1>1, UserAssumption DEF Actor
<1> QED BY <1>2 DEF LaunchInv, NoneForgotten, Trying, Ops

(* Refreshes change nothing the invariant speaks of but the launch's step. *)
LEMMA RefreshLaunch ==
    ASSUME TypeOK, LaunchInv, NEW a \in Actor, Answers(a) \/ Probed(a) \/ RefreshNext(a) PROVE LaunchInv'
<1> USE DEF world, launch, history, Ops, LaunchInv, NoneForgotten, Trying
<1>1. CASE Answers(a) \/ Probed(a) \/ TimesOut(a) \/ \E r \in Row : Read(a, r) \/ Show(a, r)
  BY <1>1 DEF Answers, Probed, TimesOut, Read, Show
<1>2. CASE Report(a)
  BY <1>2, UserAssumption DEF TypeOK, Report, Actor
<1>3. CASE RefreshConnections(a)
  BY <1>3, UserAssumption DEF TypeOK, RefreshConnections, Goto, Actor
<1>4. CASE Refreshed(a)
  BY <1>4, UserAssumption DEF TypeOK, Refreshed, Goto, Actor
<1> QED BY <1>1, <1>2, <1>3, <1>4 DEF RefreshNext

(* What the user starts works on the connection he has thereby dealt with. *)
LEMMA UserLaunch ==
    ASSUME TypeOK, LaunchInv, NEW u \in User, UserNext(u) PROVE LaunchInv'
<1> USE DEF world, launch, history, Ops, LaunchInv, NoneForgotten, Trying
<1> u \in Actor /\ u # Launch /\ Launch \in Actor /\ User \subseteq Actor
  BY UserAssumption DEF Actor
<1>1. CASE OpenMenu(u)
  BY <1>1 DEF TypeOK, OpenMenu, Starts, Goto
<1>2. CASE Recheck(u)
  BY <1>2 DEF TypeOK, Recheck, Starts, Goto
<1>3. ASSUME NEW op \in Ops, NEW c \in Conn, Click(u, op, c) PROVE LaunchInv'
  BY <1>3 DEF TypeOK, Click, Starts, Goto
<1>4. CASE Throws(u)
  BY <1>4 DEF TypeOK, Throws, Goto
<1>5. CASE Mount(u)
  BY <1>5 DEF TypeOK, Mount, Goto
<1>6. CASE Unmount(u)
  BY <1>6 DEF TypeOK, Unmount, Goto
<1>7. CASE Save(u)
  BY <1>7 DEF TypeOK, Save, Goto
<1>8. CASE Delete(u)
  BY <1>8 DEF TypeOK, Delete, Goto
<1>9. CASE Submit(u)
  BY <1>9 DEF TypeOK, Submit, Goto
<1> QED BY <1>1, <1>2, <1>3, <1>4, <1>5, <1>6, <1>7, <1>8, <1>9 DEF UserNext

LEMMA LaunchLaunch == ASSUME TypeOK, LaunchInv, LaunchNext PROVE LaunchInv'
<1> USE DEF world, launch, history, Ops, LaunchInv, NoneForgotten, Trying
<1> Launch \in Actor /\ Launch \notin User /\ User \subseteq Actor
  BY UserAssumption DEF Actor
<1>1. CASE AutoMount
  BY <1>1 DEF TypeOK, AutoMount, Goto
<1>2. CASE MountsTried
  BY <1>2 DEF TypeOK, MountsTried, Goto
<1>3. CASE Retry
  BY <1>3 DEF TypeOK, Retry, Goto
<1>4. CASE RestartAndRetry
  BY <1>4 DEF TypeOK, RestartAndRetry, Goto
<1>5. CASE Dismiss
  BY <1>5 DEF TypeOK, Dismiss
<1>6. CASE PromptForSecrets
  BY <1>6 DEF TypeOK, PromptForSecrets, Goto
<1>7. ASSUME NEW c \in Conn, AutoMountNext(c) PROVE LaunchInv'
  BY <1>7 DEF TypeOK, AutoMountNext
<1>8. ASSUME NEW c \in Conn, RetryNext(c) PROVE LaunchInv'
  BY <1>8 DEF TypeOK, RetryNext
<1> QED BY <1>1, <1>2, <1>3, <1>4, <1>5, <1>6, <1>7, <1>8 DEF LaunchNext

LEMMA NextLaunch == TypeOK /\ LaunchInv /\ [Next]_vars => LaunchInv'
<1> SUFFICES ASSUME TypeOK, LaunchInv, [Next]_vars PROVE LaunchInv'
  OBVIOUS
<1>1. CASE Enable
  BY <1>1 DEF Enable, world, launch, history, LaunchInv, NoneForgotten
<1>2. CASE UNCHANGED vars
  BY <1>2 DEF vars, world, launch, history, LaunchInv, NoneForgotten
<1> QED BY <1>1, <1>2, RefreshLaunch, UserLaunch, LaunchLaunch DEF Next

(* When the launch sequence ends every connection flagged for it is        *)
(* mounted or prompted for, or the user has dealt with it, whatever he did *)
(* meanwhile and however often he retried (App.swift,                      *)
(* handleAutoMountFailures).                                               *)
THEOREM NoneLeftBehind == Spec => LaunchLeavesNoneBehind
<1>1. ASSUME LaunchInv, PromptForSecrets
      PROVE  (OnLaunch \cap listed) \ touched \subseteq mounted' \cup prompts'
  BY <1>1 DEF LaunchInv, NoneForgotten, Trying, PromptForSecrets, world
<1>2. LaunchInv /\ [Next]_vars => 
          [PromptForSecrets => (OnLaunch \cap listed) \ touched \subseteq mounted' \cup prompts']_vars
  BY <1>1
<1> QED BY <1>2, InitTyping, NextTyping, InitLaunch, NextLaunch, PTL DEF Spec, LaunchLeavesNoneBehind

-----------------------------------------------------------------------------
(* The rows. *)

(* A task is on its way to a refresh. *)
Due == \E a \in Actor : pc[a] \in {"refresh", "mounting", "retrying", "auto"}

(* The youngest refresh has yet to read a row, or has read what there is,  *)
(* or has shown it. *)
Fresh(r) ==
    \/ list[youngest][r] = Unread
    \/ list[youngest][r] = World(r)
    \/ list[youngest][r] = Shown /\ (by[r] = youngest => rows[r] = World(r))

RowsInv ==
    /\ Due \/ \A r \in Row \ unannounced : Fresh(r)
    /\ \A a \in Actor, r \in Row : list[a][r] # Shown => pc[a] \in {"menu", "listing"}
    /\ check[Launch] # "none" => pc[Launch] = "check"

LEMMA InitRows == Init => RowsInv
<1> SUFFICES ASSUME Init PROVE RowsInv
  OBVIOUS
<1> Launch \in Actor
  BY DEF Actor
<1>1. unannounced = Row
  BY DEF Init
<1>2. \A a \in Actor, r \in Row : list[a][r] = Shown
  BY DEF Init, NoList
<1>3. pc[Launch] = "check"
  BY DEF Init
<1> QED BY <1>1, <1>2, <1>3 DEF RowsInv

(* The steps of a refresh. *)
LEMMA RefreshRows ==
    ASSUME TypeOK, RowsInv, NEW a \in Actor, Answers(a) \/ Probed(a) \/ RefreshNext(a) PROVE RowsInv'
<1> USE DEF world, launch, history
<1> Launch \in Actor /\ youngest \in Actor
  BY DEF Actor, TypeOK
<1>1. CASE Answers(a) \/ Probed(a) \/ TimesOut(a)
  BY <1>1 DEF TypeOK, Answers, Probed, TimesOut, RowsInv, Due, Fresh, World
<1>2. CASE Report(a)
  BY <1>2 DEF TypeOK, Report, RowsInv, Due, Fresh, World, Health
<1>3. CASE RefreshConnections(a)
  BY <1>3 DEF TypeOK, RefreshConnections, Begin, Goto, RowsInv, Due, Fresh, World
<1>4. CASE Refreshed(a)
  BY <1>4 DEF TypeOK, Refreshed, Goto, RowsInv, Due, Fresh, World, refreshes, NoList
<1>5. ASSUME NEW r \in Row, Read(a, r) PROVE RowsInv'
  BY <1>5, ReadAssumption DEF TypeOK, Read, RowsInv, Due, Fresh, World
<1>6. ASSUME NEW r \in Row, Show(a, r) PROVE RowsInv'
  BY <1>6 DEF TypeOK, Show, RowsInv, Due, Fresh, World
<1> QED BY <1>1, <1>2, <1>3, <1>4, <1>5, <1>6 DEF RefreshNext

(* What the user starts. *)
LEMMA UserRows ==
    ASSUME TypeOK, RowsInv, NEW u \in User, UserNext(u) PROVE RowsInv'
<1> USE DEF world, launch, history, refreshes, Ops
<1> u \in Actor /\ u # Launch /\ Launch \in Actor /\ youngest \in Actor
  BY UserAssumption DEF Actor, TypeOK
<1>1. CASE OpenMenu(u)
  BY <1>1 DEF TypeOK, OpenMenu, Starts, Begin, Goto, RowsInv, Due, Fresh, World
<1>2. CASE Recheck(u)
  BY <1>2 DEF TypeOK, Recheck, Starts, Goto, RowsInv, Due, Fresh, World
<1>3. ASSUME NEW op \in Ops, NEW c \in Conn, Click(u, op, c) PROVE RowsInv'
  BY <1>3 DEF TypeOK, Click, Starts, Goto, RowsInv, Due, Fresh, World
<1>4. CASE Throws(u)
  BY <1>4 DEF TypeOK, Throws, Goto, RowsInv, Due, Fresh, World
<1>5. CASE Mount(u)
  BY <1>5 DEF TypeOK, Mount, Goto, RowsInv, Due, Fresh, World
<1>6. CASE Unmount(u)
  BY <1>6 DEF TypeOK, Unmount, Goto, RowsInv, Due, Fresh, World
<1>7. CASE Save(u)
  BY <1>7 DEF TypeOK, Save, Goto, RowsInv, Due, Fresh, World
<1>8. CASE Delete(u)
  BY <1>8 DEF TypeOK, Delete, Goto, RowsInv, Due, Fresh, World, Row
<1>9. CASE Submit(u)
  BY <1>9 DEF TypeOK, Submit, Goto, RowsInv, Due, Fresh, World
<1> QED BY <1>1, <1>2, <1>3, <1>4, <1>5, <1>6, <1>7, <1>8, <1>9 DEF UserNext

(* The launch changes mounts only on its way to a refresh. *)
LEMMA LaunchRows == ASSUME TypeOK, RowsInv, LaunchNext PROVE RowsInv'
<1> USE DEF world, launch, history, refreshes
<1> Launch \in Actor /\ youngest \in Actor
  BY DEF Actor, TypeOK
<1>1. CASE AutoMount
  BY <1>1 DEF TypeOK, AutoMount, Goto, RowsInv, Due
<1>2. CASE MountsTried
  BY <1>2 DEF TypeOK, MountsTried, Goto, RowsInv, Due
<1>3. CASE Retry
  BY <1>3 DEF TypeOK, Retry, Goto, RowsInv, Due
<1>4. CASE RestartAndRetry
  BY <1>4 DEF TypeOK, RestartAndRetry, Goto, RowsInv, Due
<1>5. CASE Dismiss
  BY <1>5 DEF TypeOK, Dismiss, RowsInv, Due, Fresh, World
<1>6. CASE PromptForSecrets
  BY <1>6 DEF TypeOK, PromptForSecrets, Goto, RowsInv, Due, Fresh, World
<1>7. ASSUME NEW c \in Conn, AutoMountNext(c) PROVE RowsInv'
  BY <1>7 DEF TypeOK, AutoMountNext, RowsInv, Due
<1>8. ASSUME NEW c \in Conn, RetryNext(c) PROVE RowsInv'
  BY <1>8 DEF TypeOK, RetryNext, RowsInv, Due
<1> QED BY <1>1, <1>2, <1>3, <1>4, <1>5, <1>6, <1>7, <1>8 DEF LaunchNext

LEMMA NextRows == TypeOK /\ RowsInv /\ [Next]_vars => RowsInv'
<1> SUFFICES ASSUME TypeOK, RowsInv, [Next]_vars PROVE RowsInv'
  OBVIOUS
<1>1. CASE Enable
  BY <1>1 DEF Enable, world, launch, history, refreshes, RowsInv, Due, Fresh, World
<1>2. CASE UNCHANGED vars
  BY <1>2 DEF vars, world, launch, history, refreshes, RowsInv, Due, Fresh, World
<1> QED BY <1>1, <1>2, RefreshRows, UserRows, LaunchRows DEF Next

(* When all is quiet a row that is out of date was last assigned by a      *)
(* refresh that is not the youngest, or changed without one (App.swift,    *)
(* refreshConnections): no interleaving of refreshes with mounts, saves    *)
(* and deletes leaves a row stale in another way.                          *)
THEOREM OnlyOvertaken == Spec => []OnlyOvertakenRowsAreStale
<1>1. TypeOK /\ RowsInv => OnlyOvertakenRowsAreStale
  <2> SUFFICES ASSUME TypeOK, RowsInv, Quiet, NEW r \in Row, r \notin unannounced, by[r] = youngest
               PROVE  rows[r] = World(r)
    BY DEF OnlyOvertakenRowsAreStale
  <2>1. ~Due /\ pc[youngest] \notin {"menu", "listing"}
    BY DEF TypeOK, Quiet, Due
  <2>2. Fresh(r) /\ list[youngest][r] = Shown
    BY <2>1 DEF TypeOK, RowsInv
  <2>3. Shown # Unread /\ Shown # World(r)
    BY ReadAssumption DEF TypeOK, World
  <2> QED BY <2>2, <2>3 DEF Fresh
<1> QED BY <1>1, InitTyping, NextTyping, InitRows, NextRows, PTL DEF Spec
=============================================================================
