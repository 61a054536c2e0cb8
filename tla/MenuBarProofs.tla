----------------------------- MODULE MenuBarProofs -----------------------------
(***************************************************************************)
(* Proofs about the two modules of the menu-bar client: MenuBar, for any   *)
(* number of tasks, revisions and failures, and HoverCard, for any time to *)
(* live, limit and number of timers.                                       *)
(***************************************************************************)
EXTENDS MenuBar, HoverCard, ClientReloadProofs

-----------------------------------------------------------------------------
(* The reloads.                                                            *)

\* What makes the flags true: a task that is idle carries no trigger, one that pings is a
\* restart, and there is one rescan and one restart at most, unless two have overlapped.
OneOfEach ==
    /\ \A t \in Tasks : task[t].at = "idle" => task[t].trigger = "none"
    /\ \A t \in Tasks : task[t].at = "ping" => task[t].trigger = "restart"
    /\ \A t, u \in Tasks :
          task[t].trigger = task[u].trigger /\ task[t].trigger \in {"scan", "restart"} \ doubled
              => t = u

\* The flags, said of the triggers alone.
Has(operation) == \E t \in Tasks : task[t].trigger = operation

Flags ==
    /\ isScanning => Has("scan")
    /\ isRestarting => Has("restart")
    /\ Has("scan") /\ "scan" \notin doubled => isScanning
    /\ Has("restart") /\ "restart" \notin doubled => isRestarting

MenuBarInv == MenuBarTypeOK /\ OneOfEach /\ Flags

\* Only a task that runs has a trigger.
LEMMA BusyHas == OneOfEach => \A o \in {"scan", "restart"} : Busy(o) <=> Has(o)
BY DEF OneOfEach, Busy, Has, Running

LEMMA FlagsSuffice == OneOfEach => (Flags <=> FlagsTellTheTruth)
BY BusyHas DEF Flags, FlagsTellTheTruth

LEMMA InitMenuBar == Init => MenuBarInv
<1> SUFFICES ASSUME Init PROVE MenuBarInv
  OBVIOUS
<1>1. MenuBarTypeOK
  <2>1. ReloadTypeOK
    BY InitReload DEF Init
  <2> QED BY <2>1 DEF Init, MenuBarTypeOK
<1>2. \A t \in Tasks : task[t].at = "idle" /\ task[t].trigger = "none"
  BY IdleType DEF Init, ReloadInit
<1>3. OneOfEach
  BY <1>2 DEF OneOfEach
<1>4. Flags
  BY <1>2 DEF Flags, Has, Init
<1> QED BY <1>1, <1>3, <1>4 DEF MenuBarInv

\* The variables of the menu bar itself.
UITypeOK ==
    /\ isPanelOpen \in BOOLEAN /\ isScanning \in BOOLEAN /\ isRestarting \in BOOLEAN
    /\ clicked \in [UITasks -> {"none", "check", "scan", "restart"}]
    /\ doubled \subseteq {"scan", "restart"}

LEMMA Types ==
    /\ MenuBarTypeOK <=> ReloadTypeOK /\ UITypeOK
    /\ MenuBarTypeOK' <=> ReloadTypeOK' /\ UITypeOK'
<1>1. MenuBarTypeOK <=> ReloadTypeOK /\ UITypeOK
  BY Zenon DEF MenuBarTypeOK, UITypeOK
<1>2. MenuBarTypeOK' <=> ReloadTypeOK' /\ UITypeOK'
  BY Zenon DEF MenuBarTypeOK, UITypeOK
<1> QED BY <1>1, <1>2

\* A task begins with a trigger: if a running task has it too, it is doubled from then on.
LEMMA BeginFlags ==
    ASSUME MenuBarInv, UITypeOK',
           NEW t \in Tasks, NEW at \in At \ {"idle"}, NEW trigger \in Triggers,
           NEW withList \in BOOLEAN, BeginAt(t, at, trigger, withList), UNCHANGED connectionError,
           at = "ping" => trigger = "restart",
           doubled \subseteq doubled',
           trigger \in {"scan", "restart"} /\ Busy(trigger) => trigger \in doubled',
           isScanning' = (isScanning \/ trigger = "scan"),
           isRestarting' = (isRestarting \/ trigger = "restart")
    PROVE  MenuBarInv'
<1>1. /\ ReloadTypeOK'
      /\ task[t].at = "idle" /\ task'[t].at = at /\ task'[t].trigger = trigger
      /\ \A u \in Tasks \ {t} : /\ task'[u].at = task[u].at
                                /\ task'[u].trigger = task[u].trigger
  <2>1. at \in At /\ ReloadTypeOK
    BY Types DEF MenuBarInv
  <2> QED BY <2>1, BeginType
<1>2. task[t].trigger = "none"
  BY <1>1 DEF MenuBarInv, OneOfEach
<1>3. OneOfEach'
  <2>1. \A u \in Tasks : /\ task'[u].at = "idle" => task'[u].trigger = "none"
                         /\ task'[u].at = "ping" => task'[u].trigger = "restart"
    BY <1>1 DEF MenuBarInv, OneOfEach
  <2>2. \A u \in Tasks \ {t} :
            task[u].trigger = trigger => trigger \notin {"scan", "restart"} \ doubled'
    BY BusyHas DEF MenuBarInv, Has
  <2>3. ASSUME NEW u \in Tasks, NEW v \in Tasks, NEW o \in {"scan", "restart"} \ doubled',
               task'[u].trigger = o, task'[v].trigger = o
        PROVE  u = v
    <3>1. CASE u = t \/ v = t
      BY <1>1, <2>2, <2>3, <3>1
    <3>2. CASE u # t /\ v # t
      <4>1. task[u].trigger = o /\ task[v].trigger = o /\ o \notin doubled
        BY <1>1, <2>3, <3>2
      <4> QED BY <4>1 DEF MenuBarInv, OneOfEach
    <3> QED BY <3>1, <3>2
  <2> QED BY <2>1, <2>3 DEF OneOfEach
<1>4. Flags'
  <2>1. \A o \in {"scan", "restart"} : Has(o)' <=> Has(o) \/ trigger = o
    BY <1>1, <1>2 DEF Has
  <2> QED BY <2>1 DEF MenuBarInv, Flags
<1> QED BY <1>1, <1>3, <1>4, Types DEF MenuBarInv

\* A task that ends, or goes on with the trigger it has.
LEMMA EndFlags ==
    ASSUME MenuBarInv, NEW t \in Tasks,
           \A u \in Tasks \ {t} : task'[u] = task[u],
           task'[t].at # "ping",
           \/ task'[t].at = "idle" /\ task'[t].trigger = "none"
           \/ task'[t].at # "idle" /\ task'[t].trigger = task[t].trigger,
           task[t].at # "idle",
           ResetFlags(t)
    PROVE  /\ OneOfEach' /\ Flags'
           /\ isScanning' \in BOOLEAN /\ isRestarting' \in BOOLEAN
           /\ doubled' \subseteq {"scan", "restart"}
<1>1. Ends(t) <=> task'[t].at = "idle"
  BY DEF Ends, Running
<1>2. /\ isScanning' = (isScanning /\ ~(Ends(t) /\ task[t].trigger = "scan"))
      /\ isRestarting' = (isRestarting /\ ~(Ends(t) /\ task[t].trigger = "restart"))
      /\ doubled' = {o \in doubled : Busy(o)'}
  BY DEF ResetFlags
<1>3. doubled' \subseteq {"scan", "restart"} /\ isScanning' \in BOOLEAN /\ isRestarting' \in BOOLEAN
  BY <1>2, Types DEF MenuBarInv, UITypeOK
<1>4. ASSUME NEW o \in {"scan", "restart"} PROVE Has(o)' <=> Busy(o)'
  <2>1. \A u \in Tasks : task'[u].at = "idle" => task'[u].trigger = "none"
    BY DEF MenuBarInv, OneOfEach
  <2> QED BY <2>1 DEF Has, Busy, Running
<1>5. \A u \in Tasks : \/ task'[u].trigger = task[u].trigger
                       \/ u = t /\ task'[u].trigger = "none"
  OBVIOUS
<1>6. OneOfEach'
  <2>1. \A u \in Tasks : /\ task'[u].at = "idle" => task'[u].trigger = "none"
                         /\ task'[u].at = "ping" => task'[u].trigger = "restart"
    BY DEF MenuBarInv, OneOfEach
  <2>2. ASSUME NEW u \in Tasks, NEW v \in Tasks, NEW o \in {"scan", "restart"} \ doubled',
               task'[u].trigger = o, task'[v].trigger = o
        PROVE  u = v
    <3>1. Busy(o)'
      BY <1>4, <2>2 DEF Has
    <3>2. o \notin doubled
      BY <1>2, <2>2, <3>1
    <3>3. task[u].trigger = o /\ task[v].trigger = o
      BY <1>5, <2>2
    <3> QED BY <3>2, <3>3 DEF MenuBarInv, OneOfEach
  <2> QED BY <2>1, <2>2 DEF OneOfEach
<1>7. ASSUME NEW o \in {"scan", "restart"}
      PROVE  /\ Has(o)' => Has(o)
             /\ Has(o) => Has(o)' \/ (Ends(t) /\ task[t].trigger = o)
             /\ o \notin doubled /\ Ends(t) /\ task[t].trigger = o => ~Has(o)'
             /\ o \in doubled /\ Has(o)' => o \in doubled'
  <2>1. Has(o)' => Has(o)
    BY <1>5 DEF Has
  <2>2. Has(o) => Has(o)' \/ (Ends(t) /\ task[t].trigger = o)
    BY <1>1 DEF Has
  <2>3. o \notin doubled /\ Ends(t) /\ task[t].trigger = o => ~Has(o)'
    BY <1>1, <1>5 DEF Has, MenuBarInv, OneOfEach
  <2>4. o \in doubled /\ Has(o)' => o \in doubled'
    BY <1>2, <1>4
  <2> QED BY <2>1, <2>2, <2>3, <2>4
<1>8. Flags'
  <2>1. /\ isScanning' => Has("scan")'
        /\ Has("scan")' /\ "scan" \notin doubled' => isScanning'
    BY <1>2, <1>7 DEF MenuBarInv, Flags
  <2>2. /\ isRestarting' => Has("restart")'
        /\ Has("restart")' /\ "restart" \notin doubled' => isRestarting'
    BY <1>2, <1>7 DEF MenuBarInv, Flags
  <2> QED BY <2>1, <2>2 DEF Flags
<1> QED BY <1>3, <1>6, <1>8

\* A step of the user leaves the reloads alone, and keeps the types.
LEMMA UserKeeps ==
    ASSUME UITypeOK, User
    PROVE  UITypeOK' /\ UNCHANGED <<reloadVars, flagVars>>
<1>1. CASE PanelClosed
  BY <1>1 DEF PanelClosed, UITypeOK, flagVars
<1>2. ASSUME NEW t \in UITasks, NEW o \in {"check", "scan", "restart"}, Make(t, o),
             isPanelOpen' \in BOOLEAN
      PROVE  UITypeOK' /\ UNCHANGED <<reloadVars, flagVars>>
  BY <1>2 DEF Make, UITypeOK, flagVars
<1>3. ASSUME NEW t \in UITasks,
             PanelOpened(t) \/ ClickRefresh(t) \/ ClickRescan(t) \/ ClickRestart(t)
      PROVE  UITypeOK' /\ UNCHANGED <<reloadVars, flagVars>>
  <2>1. isPanelOpen' \in BOOLEAN
    BY <1>3 DEF PanelOpened, ClickRefresh, ClickRescan, ClickRestart, UITypeOK
  <2> QED BY <1>2, <1>3, <2>1 DEF PanelOpened, ClickRefresh, ClickRescan, ClickRestart
<1> QED BY <1>1, <1>3 DEF User

\* A task that was made begins.
LEMMA TakesKeeps ==
    ASSUME UITypeOK, NEW t \in UITasks, NEW o \in {"check", "scan", "restart"}, Takes(t, o)
    PROVE  /\ clicked' \in [UITasks -> {"none", "check", "scan", "restart"}]
           /\ doubled' \subseteq {"scan", "restart"} /\ doubled \subseteq doubled'
           /\ o \in {"scan", "restart"} /\ Busy(o) => o \in doubled'
           /\ UNCHANGED <<connectionError, isPanelOpen>>
BY DEF Takes, UITypeOK

LEMMA MenuBarInductive == MenuBarInv /\ [Next]_vars => MenuBarInv'
<1> SUFFICES ASSUME MenuBarInv, [Next]_vars PROVE MenuBarInv'
  OBVIOUS
<1>a. ReloadTypeOK /\ UITypeOK /\ OneOfEach /\ Flags
  BY Types DEF MenuBarInv
<1>1. CASE Service
  <2>1. /\ ReloadTypeOK'
        /\ \A t \in Tasks : task'[t].at = task[t].at /\ task'[t].trigger = task[t].trigger
    BY <1>1, <1>a, ServiceType DEF Service
  <2>2. UNCHANGED <<isPanelOpen, clicked, isScanning, isRestarting, doubled>>
    BY <1>1 DEF Service, uiVars, flagVars
  <2>3. MenuBarTypeOK'
    BY <1>a, <2>1, <2>2, Types DEF UITypeOK
  <2>4. OneOfEach' /\ Flags'
    BY <1>a, <2>1, <2>2 DEF OneOfEach, Flags, Has
  <2> QED BY <2>3, <2>4 DEF MenuBarInv
<1>2. ASSUME UNCHANGED <<reloadVars, flagVars>>, UITypeOK' PROVE MenuBarInv'
  <2>1. UNCHANGED <<board, task, summary, repos, connectionError, faults>>
    BY <1>2 DEF reloadVars
  <2>2. UNCHANGED <<isScanning, isRestarting, doubled>>
    BY <1>2 DEF flagVars
  <2>3. ReloadTypeOK'
    BY <1>a, <2>1 DEF ReloadTypeOK
  <2>4. OneOfEach' /\ Flags'
    BY <1>a, <2>1, <2>2 DEF OneOfEach, Flags, Has
  <2> QED BY <1>2, <2>3, <2>4, Types DEF MenuBarInv
<1>3. CASE User
  BY <1>2, <1>3, <1>a, UserKeeps
<1>4. ASSUME NEW t \in Tasks, NEW trigger \in {"none", "check", "scan"}, NEW withList \in BOOLEAN,
             Begin(t, trigger, withList), UITypeOK', UNCHANGED <<connectionError, isRestarting>>,
             doubled \subseteq doubled', trigger = "scan" /\ Busy(trigger) => trigger \in doubled',
             isScanning' = (isScanning \/ trigger = "scan")
      PROVE  MenuBarInv'
  <2>1. PICK at \in {"summary", "post"} : BeginAt(t, at, trigger, withList)
    BY <1>4 DEF Begin
  <2>2. at \in At \ {"idle"} /\ at # "ping" /\ trigger \in Triggers /\ trigger # "restart"
    BY DEF At, Triggers
  <2>3. isRestarting' = (isRestarting \/ trigger = "restart")
    BY <1>4, <1>a, <2>2 DEF UITypeOK
  <2> QED BY <1>4, <2>1, <2>2, <2>3, BeginFlags
<1>5. ASSUME NEW t \in UITasks, Refresh(t) PROVE MenuBarInv'
  <2>1. /\ Takes(t, "check") /\ Begin(t, "check", TRUE) /\ t \in Tasks
        /\ UNCHANGED <<isScanning, isRestarting>>
    BY <1>5 DEF Refresh, UITasks
  <2>2. /\ UITypeOK' /\ doubled \subseteq doubled' /\ UNCHANGED connectionError
        /\ isScanning' = (isScanning \/ "check" = "scan")
    BY <1>a, <2>1, TakesKeeps DEF UITypeOK
  <2> QED BY <1>4, <2>1, <2>2
<1>6. ASSUME NEW t \in UITasks, Rescan(t) PROVE MenuBarInv'
  <2>1. /\ Takes(t, "scan") /\ Begin(t, "scan", TRUE) /\ t \in Tasks
        /\ isScanning' = TRUE /\ UNCHANGED isRestarting
    BY <1>6 DEF Rescan, UITasks
  <2>2. /\ UITypeOK' /\ doubled \subseteq doubled' /\ UNCHANGED connectionError
        /\ Busy("scan") => "scan" \in doubled'
    BY <1>a, <2>1, TakesKeeps DEF UITypeOK
  <2> QED BY <1>4, <2>1, <2>2
<1>7. ASSUME NEW t \in UITasks, RestartService(t) PROVE MenuBarInv'
  <2>1. /\ Takes(t, "restart") /\ BeginAt(t, "ping", "restart", FALSE) /\ t \in Tasks
        /\ isRestarting' = TRUE /\ UNCHANGED isScanning
    BY <1>7 DEF RestartService, UITasks
  <2>2. /\ UITypeOK' /\ doubled \subseteq doubled' /\ UNCHANGED connectionError
        /\ Busy("restart") => "restart" \in doubled'
        /\ isScanning' = (isScanning \/ "restart" = "scan")
    BY <1>a, <2>1, TakesKeeps DEF UITypeOK
  <2>3. "ping" \in At \ {"idle"} /\ "restart" \in Triggers
    BY DEF At, Triggers
  <2> QED BY <2>1, <2>2, <2>3, BeginFlags
<1>8. CASE PollReload
  <2>1. /\ Begin(Poll, "none", isPanelOpen) /\ UNCHANGED connectionError
        /\ UNCHANGED <<isPanelOpen, clicked, isScanning, isRestarting, doubled>>
    BY <1>8 DEF PollReload, uiVars, flagVars
  <2>2. Poll \in Tasks /\ isPanelOpen \in BOOLEAN /\ UITypeOK'
    BY <1>a, <2>1, MenuBarAssumption DEF MenuBarAssumption, UITypeOK
  <2>3. isScanning' = (isScanning \/ "none" = "scan")
    BY <1>a, <2>1 DEF UITypeOK
  <2> QED BY <1>4, <2>1, <2>2, <2>3
<1>9. ASSUME NEW t \in Tasks, Deliver(t) PROVE MenuBarInv'
  <2>1. /\ ReloadTypeOK'
        /\ task[t].at \in At \ {"idle", "ping"}
        /\ GoesOn(t) \/ task'[t] = Idle
        /\ \A u \in Tasks \ {t} : task'[u] = task[u]
    BY <1>9, <1>a, DeliverType DEF Deliver
  <2>2. /\ task'[t].at # "ping" /\ task[t].at # "idle"
        /\ \/ task'[t].at = "idle" /\ task'[t].trigger = "none"
           \/ task'[t].at # "idle" /\ task'[t].trigger = task[t].trigger
    BY <2>1, IdleType DEF GoesOn, At
  <2>3. ResetFlags(t) /\ UNCHANGED <<isPanelOpen, clicked>>
    BY <1>9 DEF Deliver, uiVars
  <2>4. /\ OneOfEach' /\ Flags'
        /\ isScanning' \in BOOLEAN /\ isRestarting' \in BOOLEAN
        /\ doubled' \subseteq {"scan", "restart"}
    BY <2>1, <2>2, <2>3, EndFlags
  <2>5. UITypeOK'
    BY <1>a, <2>3, <2>4 DEF UITypeOK
  <2> QED BY <2>1, <2>4, <2>5, Types DEF MenuBarInv
<1>10. ASSUME NEW t \in Tasks, PingOk(t) PROVE MenuBarInv'
  <2> DEFINE new == [task[t] EXCEPT !.at = "summary", !.list = isPanelOpen]
  <2>1. /\ new \in Reload /\ new.at = "summary" /\ new.trigger = task[t].trigger
        /\ task' = [task EXCEPT ![t] = new]
        /\ task \in [Tasks -> Reload] /\ task[t].at # "idle"
    <3>1. task \in [Tasks -> Reload] /\ isPanelOpen \in BOOLEAN
      BY <1>a DEF ReloadTypeOK, UITypeOK
    <3>2. task' = [task EXCEPT ![t] = new] /\ task[t].at # "idle"
      BY <1>10, <3>1 DEF PingOk
    <3>3. task[t] \in Reload
      BY <3>1
    <3>4. /\ new \in Reload /\ new.at = "summary" /\ new.trigger = task[t].trigger
      BY <3>1, <3>3 DEF Reload
    <3> QED BY <3>1, <3>2, <3>4
  <2> HIDE DEF new
  <2>2. /\ task' \in [Tasks -> Reload]
        /\ task'[t] = new /\ \A u \in Tasks \ {t} : task'[u] = task[u]
    BY <2>1
  <2>3. UNCHANGED <<isPanelOpen, clicked, isScanning, isRestarting, doubled>>
    BY <1>10 DEF PingOk, uiVars, flagVars
  <2>4. \A u \in Tasks : /\ task'[u].trigger = task[u].trigger
                         /\ task'[u].at = task[u].at \/ (u = t /\ task'[u].at = "summary")
    BY <2>1, <2>2
  <2>5. OneOfEach' /\ Flags'
    BY <1>a, <2>1, <2>3, <2>4 DEF OneOfEach, Flags, Has
  <2>6. ReloadTypeOK' /\ UITypeOK'
    BY <1>10, <1>a, <2>2, <2>3 DEF PingOk, ReloadTypeOK, UITypeOK
  <2> QED BY <2>5, <2>6, Types DEF MenuBarInv
<1>11. ASSUME NEW t \in Tasks, GiveUp(t) PROVE MenuBarInv'
  <2>1. /\ task' = [task EXCEPT ![t] = Idle] /\ task \in [Tasks -> Reload]
        /\ UNCHANGED <<board, summary, repos, isPanelOpen, clicked>>
        /\ connectionError' = TRUE /\ ResetFlags(t) /\ task[t].at = "ping"
    BY <1>11, <1>a DEF GiveUp, ReloadTypeOK, uiVars
  <2>2. /\ task' \in [Tasks -> Reload]
        /\ task'[t] = Idle /\ \A u \in Tasks \ {t} : task'[u] = task[u]
    BY <2>1, IdleType
  <2>3. /\ OneOfEach' /\ Flags'
        /\ isScanning' \in BOOLEAN /\ isRestarting' \in BOOLEAN
        /\ doubled' \subseteq {"scan", "restart"}
    BY <2>1, <2>2, IdleType, EndFlags
  <2>4. faults' \in 0 .. MaxFaults
    BY <1>11, <1>a, ClientReloadAssumption DEF GiveUp, ClientReloadAssumption, ReloadTypeOK
  <2>5. ReloadTypeOK' /\ UITypeOK'
    BY <1>a, <2>1, <2>2, <2>3, <2>4 DEF ReloadTypeOK, UITypeOK
  <2> QED BY <2>3, <2>5, Types DEF MenuBarInv
<1>12. CASE UNCHANGED vars
  BY <1>2, <1>12, <1>a DEF vars, uiVars, flagVars, UITypeOK
<1> QED BY <1>1, <1>3, <1>5, <1>6, <1>7, <1>8, <1>9, <1>10, <1>11, <1>12 DEF Next

LEMMA MenuBarInvariant == Spec => []MenuBarInv
BY InitMenuBar, MenuBarInductive, PTL DEF Spec

\* The variables of the macOS client keep their types.
THEOREM MenuBarTypeCorrect == Spec => []MenuBarTypeOK
<1>1. MenuBarInv => MenuBarTypeOK
  BY DEF MenuBarInv
<1> QED BY <1>1, MenuBarInvariant, PTL

\* The flag isScanning, or isRestarting, is set only while a rescan, or a restart, is under
\* way, and it is missing then only if two have overlapped: however many reloads overlap and
\* however many clicks are still to begin, none ends or fails without resetting its flag, and
\* nothing else resets it.
THEOREM FlagsAreTrue == Spec => []FlagsTellTheTruth
<1>1. MenuBarInv => FlagsTellTheTruth
  BY FlagsSuffice DEF MenuBarInv
<1> QED BY <1>1, MenuBarInvariant, PTL

-----------------------------------------------------------------------------
(* A reload that has the client to itself.                                 *)

LEMMA AloneInductive ==
    ASSUME MenuBarInv, AloneInv, [Next]_vars
    PROVE  AloneInv' /\ FreshEnd
<1>a. ReloadTypeOK
  BY DEF MenuBarInv, MenuBarTypeOK
<1>u. UITypeOK
  BY Types DEF MenuBarInv
<1>b. ASSUME \A t \in Tasks : Running(t) => task'[t].at # "idle" PROVE FreshEnd
  BY <1>b DEF FreshEnd, Ends
<1>1. CASE Service
  <2>1. \A t \in Tasks : task'[t].at = task[t].at
    BY <1>1, <1>a, ServiceType DEF Service
  <2> QED BY <1>1, <1>a, <1>b, <2>1, ServiceInStep DEF Service, Running
<1>2. CASE User \/ UNCHANGED vars
  <2>1. UNCHANGED reloadVars
    BY <1>2, <1>u, UserKeeps DEF vars
  <2> QED BY <1>b, <2>1 DEF reloadVars, AloneInv, InStep, Running
<1>3. ASSUME NEW t \in Tasks, NEW at \in {"ping", "post", "summary"}, NEW trigger \in Triggers,
             NEW withList \in BOOLEAN, BeginAt(t, at, trigger, withList),
             at = "summary" => trigger = "none", UNCHANGED connectionError
      PROVE  AloneInv' /\ FreshEnd
  <2>1. AloneInv'
    BY <1>3, <1>a, BeginInStep
  <2>2. at \in At
    BY DEF At
  <2>3. \A u \in Tasks : Running(u) => task'[u].at # "idle"
    BY <1>3, <1>a, <2>2, BeginType DEF Running
  <2> QED BY <1>b, <2>1, <2>3
<1>4. ASSUME NEW t \in Tasks, NEW trigger \in {"none", "check", "scan"}, NEW withList \in BOOLEAN,
             Begin(t, trigger, withList), UNCHANGED connectionError
      PROVE  AloneInv' /\ FreshEnd
  <2>1. trigger \in Triggers
    BY DEF Triggers
  <2>2. CASE trigger = "none"
    BY <1>3, <1>4, <2>1, <2>2 DEF Begin
  <2>3. CASE trigger # "none"
    BY <1>3, <1>4, <2>1, <2>3 DEF Begin
  <2> QED BY <2>2, <2>3
<1>5. CASE PollReload
  BY <1>4, <1>5, <1>u, MenuBarAssumption DEF PollReload, MenuBarAssumption, UITypeOK
<1>6. ASSUME NEW t \in UITasks, Refresh(t) \/ Rescan(t)
      PROVE  AloneInv' /\ FreshEnd
  BY <1>4, <1>6 DEF Refresh, Rescan, Takes, UITasks
<1>7. ASSUME NEW t \in UITasks, RestartService(t) PROVE AloneInv' /\ FreshEnd
  <2>1. "restart" \in Triggers
    BY DEF Triggers
  <2> QED BY <1>3, <1>7, <2>1 DEF RestartService, Takes, UITasks
<1>8. ASSUME NEW t \in Tasks, Deliver(t) PROVE AloneInv' /\ FreshEnd
  <2>1. Receive(t) \/ ReceiveConfig(t) \/ Fail(t)
    BY <1>8 DEF Deliver
  <2>2. \A u \in Tasks \ {t} : ~Ends(u)
    BY <1>a, <2>1, DeliverType DEF Ends, Running
  <2> QED BY <1>a, <2>1, <2>2, DeliverInStep DEF FreshEnd
<1>9. ASSUME NEW t \in Tasks, PingOk(t) PROVE AloneInv' /\ FreshEnd
  <2>1. /\ task' = [task EXCEPT ![t].at = "summary", ![t].list = isPanelOpen]
        /\ UNCHANGED <<board, summary, repos>> /\ task[t].at = "ping"
        /\ task \in [Tasks -> Reload]
    BY <1>9, <1>a DEF PingOk, ReloadTypeOK
  <2>2. /\ task'[t].at = "summary" /\ task'[t].trigger = task[t].trigger
        /\ task'[t].reply = task[t].reply /\ task'[t].alone = task[t].alone
        /\ \A u \in Tasks \ {t} : task'[u] = task[u]
    BY <2>1 DEF Reload
  <2>3. task[t].trigger = "restart" /\ Running(t)
    BY <2>1 DEF MenuBarInv, OneOfEach, Running
  <2>4. \A u \in Tasks \ {t} : ~task[u].alone
    BY <2>3 DEF AloneInv
  <2>5. task[t].alone => InStep(t)'
    BY <2>1, <2>2, <2>3 DEF AloneInv, InStep
  <2>6. AloneInv'
    BY <2>2, <2>4, <2>5 DEF AloneInv, Running
  <2> QED BY <1>b, <2>2, <2>6 DEF Running
<1>10. ASSUME NEW t \in Tasks, GiveUp(t) PROVE AloneInv' /\ FreshEnd
  <2>1. /\ task' = [task EXCEPT ![t] = Idle] /\ connectionError' /\ task[t].at = "ping"
        /\ task \in [Tasks -> Reload]
    BY <1>10, <1>a DEF GiveUp, ReloadTypeOK
  <2>2. ~task'[t].alone /\ \A u \in Tasks \ {t} : task'[u] = task[u]
    BY <2>1 DEF Idle
  <2>3. \A u \in Tasks \ {t} : ~task[u].alone
    BY <2>1 DEF AloneInv, Running
  <2> QED BY <2>1, <2>2, <2>3 DEF AloneInv, FreshEnd
<1> QED BY <1>1, <1>2, <1>5, <1>6, <1>7, <1>8, <1>9, <1>10 DEF Next

\* A reload that nobody overlaps shows all that was stored when its trigger was answered, for
\* any number of tasks, revisions and failures, with a list no older than the badge.
THEOREM AloneShowsWhatWasAsked == Spec => AloneIsFresh
<1>1. Init => AloneInv
  BY DEF Init, ReloadInit, Idle, AloneInv
<1>2. MenuBarInv /\ AloneInv /\ [Next]_vars => AloneInv'
  BY AloneInductive
<1>3. MenuBarInv /\ AloneInv /\ [Next]_vars => [FreshEnd]_reloadVars
  BY AloneInductive
<1> QED BY <1>1, <1>2, <1>3, MenuBarInvariant, PTL DEF Spec, AloneIsFresh, FreshEnd

-----------------------------------------------------------------------------
(* Replies that have been overtaken.                                       *)

PingsUnanswered == \A t \in Tasks : task[t].at = "ping" => task[t].reply = None

SettleInv == NoneNewer /\ PingsUnanswered

LEMMA SettleInductive ==
    ASSUME MenuBarInv, SettleInv, [Next]_vars
    PROVE  SettleInv' /\ SettleStep
<1>a. ReloadTypeOK /\ NoneNewer /\ task \in [Tasks -> Reload]
  BY DEF MenuBarInv, MenuBarTypeOK, ReloadTypeOK, SettleInv
<1>u. UITypeOK
  BY Types DEF MenuBarInv
<1>1. CASE Service
  <2>1. Save \/ \E t \in Tasks : Answer(t)
    BY <1>1 DEF Service
  <2>2. NoneNewer' /\ SettleStep
    BY <1>a, <2>1, ServiceSettles
  <2>3. CASE Save
    BY <2>2, <2>3 DEF Save, SettleInv, PingsUnanswered
  <2>4. ASSUME NEW u \in Tasks, Answer(u) PROVE SettleInv'
    <3>1. task' = [task EXCEPT ![u] = Answered(u)] /\ task[u].at # "ping"
      BY <1>a, <2>4, AnswerTask
    <3>2. Answered(u).at = task[u].at
      BY <1>a DEF Answered, Reload
    <3> QED BY <1>a, <2>2, <3>1, <3>2 DEF SettleInv, PingsUnanswered
  <2> QED BY <2>1, <2>2, <2>3, <2>4
<1>2. CASE User \/ UNCHANGED vars
  <2>1. UNCHANGED <<board, summary, repos, task>>
    BY <1>2, <1>u, UserKeeps DEF vars, reloadVars
  <2> QED BY <1>a, <2>1, StutterSettles DEF SettleInv, PingsUnanswered
<1>3. ASSUME NEW t \in Tasks, NEW at \in {"ping", "post", "summary"}, NEW trigger \in Triggers,
             NEW withList \in BOOLEAN, BeginAt(t, at, trigger, withList),
             UNCHANGED connectionError
      PROVE  SettleInv' /\ SettleStep
  <2>1. at \in At
    BY DEF At
  <2>2. /\ task[t].at = "idle" /\ task'[t].reply = None
        /\ \A u \in Tasks \ {t} : task'[u].at = task[u].at /\ task'[u].reply = task[u].reply
        /\ UNCHANGED <<board, summary, repos>>
    BY <1>3, <1>a, <2>1, BeginType
  <2>3. NoneNewer' /\ SettleStep
    BY <1>a, <2>2, AsideSettles
  <2> QED BY <2>2, <2>3 DEF SettleInv, PingsUnanswered
<1>4. ASSUME NEW t \in Tasks, NEW trigger \in {"none", "check", "scan"}, NEW withList \in BOOLEAN,
             Begin(t, trigger, withList), UNCHANGED connectionError
      PROVE  SettleInv' /\ SettleStep
  <2>1. trigger \in Triggers
    BY DEF Triggers
  <2>2. PICK at \in {"post", "summary"} : BeginAt(t, at, trigger, withList)
    BY <1>4 DEF Begin
  <2> QED BY <1>3, <1>4, <2>1, <2>2
<1>5. CASE PollReload
  BY <1>4, <1>5, <1>u, MenuBarAssumption DEF PollReload, MenuBarAssumption, UITypeOK
<1>6. ASSUME NEW t \in UITasks, Refresh(t) \/ Rescan(t)
      PROVE  SettleInv' /\ SettleStep
  BY <1>4, <1>6 DEF Refresh, Rescan, Takes, UITasks
<1>7. ASSUME NEW t \in UITasks, RestartService(t) PROVE SettleInv' /\ SettleStep
  <2>1. "restart" \in Triggers
    BY DEF Triggers
  <2> QED BY <1>3, <1>7, <2>1 DEF RestartService, Takes, UITasks
<1>8. ASSUME NEW t \in Tasks, Deliver(t) PROVE SettleInv' /\ SettleStep
  <2>1. Receive(t) \/ ReceiveConfig(t) \/ Fail(t)
    BY <1>8 DEF Deliver
  <2>2. NoneNewer' /\ SettleStep
    BY <1>a, <2>1, DeliverSettles
  <2>3. task'[t].at # "ping" /\ \A u \in Tasks \ {t} : task'[u] = task[u]
    BY <1>a, <2>1, DeliverType, IdleType DEF GoesOn
  <2> QED BY <2>2, <2>3 DEF SettleInv, PingsUnanswered
<1>9. ASSUME NEW t \in Tasks, PingOk(t) \/ GiveUp(t) PROVE SettleInv' /\ SettleStep
  <2>1. /\ task[t].at = "ping" /\ task[t].reply = None
        /\ UNCHANGED <<board, summary, repos>>
    BY <1>9 DEF PingOk, GiveUp, SettleInv, PingsUnanswered
  <2>2. \A u \in Tasks \ {t} : task'[u] = task[u]
    BY <1>9, <1>a DEF PingOk, GiveUp
  <2>3. task'[t].reply = None /\ task'[t].at \in {"summary", "idle"}
    <3>1. CASE PingOk(t)
      BY <1>a, <2>1, <3>1 DEF PingOk, Reload
    <3>2. CASE GiveUp(t)
      BY <1>a, <3>2, IdleType DEF GiveUp
    <3> QED BY <1>9, <3>1, <3>2
  <2>4. NoneNewer' /\ SettleStep
    BY <1>a, <2>1, <2>2, <2>3, AsideSettles
  <2> QED BY <2>2, <2>3, <2>4 DEF SettleInv, PingsUnanswered
<1> QED BY <1>1, <1>2, <1>5, <1>6, <1>7, <1>8, <1>9 DEF Next

LEMMA SettleInvariant == Spec => []SettleInv
<1>1. Init => SettleInv
  BY InitNoneNewer, IdleType DEF Init, ReloadInit, SettleInv, PingsUnanswered
<1>2. MenuBarInv /\ SettleInv /\ [Next]_vars => SettleInv'
  BY SettleInductive
<1> QED BY <1>1, <1>2, MenuBarInvariant, PTL DEF Spec

\* The menu bar shows no later revision than the service serves, and no reply that is under
\* way carries one, whatever was lost or restarted.
THEOREM MenuBarNeverAhead == Spec => []NoneNewer
<1>1. SettleInv => NoneNewer
  BY DEF SettleInv
<1> QED BY <1>1, SettleInvariant, PTL

\* Reloads of the menu bar overlap, so an outdated reply can overwrite a later one; but these
\* die out: while the service stores nothing, no more of them come up, without any the
\* revision that is served stays shown, and every other reply that arrives shows it.
THEOREM OutdatedRepliesDieOut == Spec => [][SettleStep]_vars
<1>1. MenuBarInv /\ SettleInv /\ [Next]_vars => [SettleStep]_vars
  BY SettleInductive
<1> QED BY <1>1, MenuBarInvariant, SettleInvariant, PTL DEF Spec

-----------------------------------------------------------------------------
(* The hover card.                                                         *)

\* A reading is no older than its request, and what is cached no older than the entry and
\* one request together.
AgesBounded ==
    /\ request # Nil /\ request.age # Nil => request.age <= request.sent
    /\ detailsCache # Nil => detailsCache.age <= detailsCache.at + Limit
    /\ card = "details" => filled <= MaxAge

HoverCardInv == HoverCardTypeOK /\ AgesBounded

LEMMA MinOfTwo ==
    ASSUME NEW a \in Nat, NEW b \in Nat
    PROVE  Min({a, b}) \in {a, b} /\ Min({a, b}) <= a /\ Min({a, b}) <= b
<1>1. \E x \in {a, b} : \A y \in {a, b} : x <= y
  OBVIOUS
<1> QED BY <1>1 DEF Min

\* The sentinel is told from every request and every entry.
LEMMA NilFacts ==
    /\ \A a \in Nat, b \in Nat \cup {Nil} : [sent |-> a, age |-> b] # Nil
    /\ \A a, b \in Nat : [at |-> a, age |-> b] # Nil
    /\ Nil \notin Nat
BY HoverCardAssumption DEF HoverCardAssumption

LEMMA InitHoverCard == HoverInit => HoverCardInv
<1> SUFFICES ASSUME HoverInit PROVE HoverCardInv
  OBVIOUS
<1>1. request = Nil /\ detailsCache = Nil /\ card = "closed"
  BY DEF HoverInit
<1>2. filled = 0 /\ outdated = {} /\ timers = {} /\ lasted = 0 /\ retrying = "no"
  BY DEF HoverInit
<1>3. isRetryingFetch \in BOOLEAN /\ retryMessage = Nil /\ twin \in BOOLEAN
  BY DEF HoverInit
<1>4. 0 \in 0 .. MessageTime
  BY HoverCardAssumption DEF HoverCardAssumption
<1> QED BY <1>1, <1>2, <1>3, <1>4 DEF HoverCardInv, HoverCardTypeOK, AgesBounded

LEMMA HoverCardInductive == HoverCardInv /\ [HoverNext]_hoverVars => HoverCardInv'
<1> SUFFICES ASSUME HoverCardInv, [HoverNext]_hoverVars PROVE HoverCardInv'
  OBVIOUS
<1> USE HoverCardAssumption, NilFacts DEF HoverCardAssumption
<1>a. HoverCardTypeOK /\ AgesBounded
  BY DEF HoverCardInv
<1>1. CASE Tick
  <2>1. request' \in [sent : 0 .. Limit, age : Nat \cup {Nil}] \cup {Nil}
    BY <1>1, <1>a DEF Tick, Older, HoverCardTypeOK
  <2>2. request' # Nil /\ request'.age # Nil => request'.age <= request'.sent
    <3>1. CASE request = Nil
      BY <3>1, <1>1 DEF Tick
    <3>2. CASE request # Nil
      <4>1. request' = [sent |-> request.sent + 1, age |-> Older(request.age)]
        BY <3>2, <1>1 DEF Tick
      <4>2. request.sent \in Nat /\ request.age \in Nat \cup {Nil}
        BY <3>2, <1>a DEF HoverCardTypeOK
      <4>3. request.age # Nil => request.age <= request.sent
        BY <3>2, <1>a DEF AgesBounded
      <4> QED BY <4>1, <4>2, <4>3 DEF Older
    <3> QED BY <3>1, <3>2
  <2>3. /\ detailsCache' \in [at : 0 .. DetailsTTL, age : Nat] \cup {Nil}
        /\ detailsCache' # Nil => detailsCache'.age <= detailsCache'.at + Limit
    <3>1. CASE detailsCache = Nil
      BY <3>1, <1>1 DEF Tick
    <3>2. CASE detailsCache # Nil
      <4>1. /\ detailsCache \in [at : 0 .. DetailsTTL, age : Nat]
            /\ detailsCache.age <= detailsCache.at + Limit
        BY <3>2, <1>a DEF HoverCardTypeOK, AgesBounded
      <4>2. detailsCache' =
                IF detailsCache.at = DetailsTTL THEN detailsCache
                ELSE [at |-> detailsCache.at + 1, age |-> detailsCache.age + 1]
        BY <3>2, <1>1 DEF Tick
      <4> QED BY <4>1, <4>2
    <3> QED BY <3>1, <3>2
  <2>4. timers' \in SUBSET [shown : Messages \cup {Nil}, left : 0 .. MessageTime]
    <3>1. \A t \in timers : [t EXCEPT !.left = IF @ > 0 THEN @ - 1 ELSE 0]
                                \in [shown : Messages \cup {Nil}, left : 0 .. MessageTime]
      BY <1>a DEF HoverCardTypeOK
    <3> QED BY <3>1, <1>1 DEF Tick
  <2>5. lasted' \in 0 .. MessageTime
    <3>1. lasted + 1 \in Nat /\ lasted' = Min({lasted + 1, MessageTime})
      BY <1>1, <1>a DEF Tick, HoverCardTypeOK
    <3> QED BY <3>1, MinOfTwo
  <2>6. UNCHANGED <<card, filled, outdated, isRetryingFetch, retrying, retryMessage, twin>>
    BY <1>1 DEF Tick
  <2> QED BY <2>1, <2>2, <2>3, <2>4, <2>5, <2>6, <1>a
          DEF HoverCardInv, HoverCardTypeOK, AgesBounded
<1>2. CASE Open
  <2>1. /\ card' \in {"reading", "details"}
        /\ UNCHANGED <<detailsCache, retryVars>>
        /\ outdated' = outdated \ {"request"}
    BY <1>2 DEF Open
  <2>2. /\ request' \in [sent : 0 .. Limit, age : Nat \cup {Nil}] \cup {Nil}
        /\ request' # Nil /\ request'.age # Nil => request'.age <= request'.sent
    BY <1>2, <1>a DEF Open, HoverCardTypeOK, AgesBounded
  <2>3. filled' \in Nat /\ (card' = "details" => filled' <= MaxAge)
    <3>1. CASE Cached
      BY <3>1, <1>2, <1>a DEF Open, Cached, HoverCardTypeOK, AgesBounded, MaxAge
    <3>2. CASE ~Cached
      BY <3>2, <1>2, <1>a DEF Open, HoverCardTypeOK
    <3> QED BY <3>1, <3>2
  <2> QED BY <2>1, <2>2, <2>3, <1>a DEF HoverCardInv, HoverCardTypeOK, AgesBounded, retryVars
<1>3. CASE Serve
  <2>1. request \in [sent : 0 .. Limit, age : Nat \cup {Nil}]
        /\ request' = [request EXCEPT !.age = 0]
    BY <1>3, <1>a DEF Serve, HoverCardTypeOK
  <2>2. /\ request' \in [sent : 0 .. Limit, age : Nat \cup {Nil}]
        /\ request'.age <= request'.sent
    BY <2>1
  <2> QED BY <2>2, <1>3, <1>a
          DEF Serve, HoverCardInv, HoverCardTypeOK, AgesBounded, retryVars
<1>4. CASE Reply
  <2>1. /\ request \in [sent : 0 .. Limit, age : Nat]
        /\ request.age <= request.sent
    BY <1>4, <1>a DEF Reply, HoverCardTypeOK, AgesBounded
  <2>2. /\ detailsCache' \in [at : 0 .. DetailsTTL, age : Nat]
        /\ detailsCache'.age <= detailsCache'.at + Limit
        /\ filled' \in Nat /\ filled' <= MaxAge
    BY <1>4, <2>1 DEF Reply, MaxAge
  <2>3. /\ card' = "details" /\ request' = Nil /\ UNCHANGED retryVars
        /\ outdated' \in SUBSET {"request", "cache"}
    BY <1>4 DEF Reply
  <2> QED BY <2>2, <2>3, <1>a DEF HoverCardInv, HoverCardTypeOK, AgesBounded, retryVars
<1>5. CASE CardFails \/ TimedOut \/ Close
  <2>1. /\ card' \in {"closed", "failed"} /\ request' = Nil
        /\ UNCHANGED <<filled, detailsCache, outdated, retryVars>>
    BY <1>5 DEF CardFails, TimedOut, Close, EndRequest
  <2> QED BY <2>1, <1>a DEF HoverCardInv, HoverCardTypeOK, AgesBounded, retryVars
<1>6. CASE RetryFailedFetches
  BY <1>6, <1>a DEF RetryFailedFetches, HoverCardInv, HoverCardTypeOK, AgesBounded, cardVars
<1>7. CASE PostEnds
  <2>1. retryMessage' \in Messages /\ twin' \in BOOLEAN
    BY <1>7 DEF PostEnds
  <2>2. /\ detailsCache' = Nil /\ outdated' \in SUBSET {"request", "cache"}
        /\ retrying' = "reloading" /\ lasted' = 0
        /\ UNCHANGED <<card, filled, request, isRetryingFetch, timers>>
    BY <1>7 DEF PostEnds
  <2> QED BY <2>1, <2>2, <1>a DEF HoverCardInv, HoverCardTypeOK, AgesBounded
<1>8. CASE ReloadEnds
  <2>1. /\ [shown |-> retryMessage, left |-> MessageTime]
                \in [shown : Messages \cup {Nil}, left : 0 .. MessageTime]
        /\ lasted' \in 0 .. MessageTime /\ retrying' = "no" /\ isRetryingFetch' = FALSE
    BY <1>8, <1>a DEF ReloadEnds, HoverCardTypeOK
  <2>2. /\ timers' = timers \cup {[shown |-> retryMessage, left |-> MessageTime]}
        /\ UNCHANGED <<cardVars, retryMessage, twin>>
    BY <1>8 DEF ReloadEnds
  <2> QED BY <2>1, <2>2, <1>a DEF HoverCardInv, HoverCardTypeOK, AgesBounded, cardVars
<1>9. ASSUME NEW t \in timers, TimerFires(t) PROVE HoverCardInv'
  BY <1>9, <1>a DEF TimerFires, HoverCardInv, HoverCardTypeOK, AgesBounded, cardVars
<1>10. CASE UNCHANGED hoverVars
  BY <1>10, <1>a
     DEF hoverVars, cardVars, retryVars, HoverCardInv, HoverCardTypeOK, AgesBounded
<1> QED BY <1>1, <1>2, <1>3, <1>4, <1>5, <1>6, <1>7, <1>8, <1>9, <1>10 DEF HoverNext

LEMMA HoverCardInvariant == HoverSpec => []HoverCardInv
BY InitHoverCard, HoverCardInductive, PTL DEF HoverSpec

\* The variables of the hover card and of the retry keep their types.
THEOREM HoverCardTypeCorrect == HoverSpec => []HoverCardTypeOK
<1>1. HoverCardInv => HoverCardTypeOK
  BY DEF HoverCardInv
<1> QED BY <1>1, HoverCardInvariant, PTL

\* A card is filled with what was read at most the life of a cache entry and the limit of a
\* request ago, whatever these are: looking at a card again does not renew its entry.
THEOREM CardStaysRecent == HoverSpec => []CardIsRecent
<1>1. HoverCardInv => CardIsRecent
  BY HoverCardAssumption
     DEF HoverCardAssumption, HoverCardInv, HoverCardTypeOK, AgesBounded, CardIsRecent,
         Cached, MaxAge
<1> QED BY <1>1, HoverCardInvariant, PTL

\* A timer that would hide the message shown was begun with it, and so is not due before the
\* message has had its time; if it was begun with an earlier, equal one, `twin` says so.
TimersWait ==
    retryMessage # Nil =>
        \A t \in timers : t.shown = retryMessage =>
            twin \/ (MessageTime <= t.left + lasted /\ retrying # "reloading")

LEMMA Countdown ==
    ASSUME NEW T \in Nat, NEW l \in Nat, NEW m \in Nat, NEW a \in Nat, NEW b \in {a + 1, T},
           T <= m + a, l = IF m > 0 THEN m - 1 ELSE 0
    PROVE  T <= l + b
OBVIOUS

LEMMA TimersInductive ==
    ASSUME HoverCardTypeOK, TimersWait, [HoverNext]_hoverVars
    PROVE  TimersWait'
<1>a. /\ MessageTime \in Nat /\ lasted \in 0 .. MessageTime
      /\ \A t \in timers : t \in [shown : Messages \cup {Nil}, left : 0 .. MessageTime]
  BY HoverCardAssumption DEF HoverCardAssumption, HoverCardTypeOK
<1>1. CASE Tick
  <2> SUFFICES ASSUME retryMessage # Nil, ~twin,
                      NEW t \in timers', t.shown = retryMessage
               PROVE  MessageTime <= t.left + lasted' /\ retrying # "reloading"
    BY <1>1 DEF Tick, TimersWait
  <2>1. PICK u \in timers : t = [u EXCEPT !.left = IF @ > 0 THEN @ - 1 ELSE 0]
    BY <1>1 DEF Tick
  <2>2. /\ t.shown = u.shown /\ u.left \in 0 .. MessageTime
        /\ t.left = IF u.left > 0 THEN u.left - 1 ELSE 0
    BY <1>a, <2>1
  <2>3. MessageTime <= u.left + lasted /\ retrying # "reloading"
    BY <2>2 DEF TimersWait
  <2>4. lasted \in Nat /\ lasted + 1 \in Nat /\ u.left \in Nat /\ MessageTime \in Nat
    BY <1>a, <2>2
  <2>5. lasted' \in {lasted + 1, MessageTime}
    <3>1. lasted' = Min({lasted + 1, MessageTime})
      BY <1>1 DEF Tick
    <3> QED BY <2>4, <3>1, MinOfTwo
  <2>6. MessageTime <= t.left + lasted'
    <3>1. t.left \in Nat /\ t.left = IF u.left > 0 THEN u.left - 1 ELSE 0
      BY <2>2, <2>4
    <3> QED BY <2>3, <2>4, <2>5, <3>1, Countdown
  <2> QED BY <2>3, <2>6
<1>2. CASE Open \/ Serve \/ Reply \/ CardFails \/ TimedOut \/ Close
  BY <1>2 DEF Open, Serve, Reply, CardFails, TimedOut, EndRequest, Close, retryVars, TimersWait
<1>3. CASE RetryFailedFetches
  BY <1>3 DEF RetryFailedFetches, TimersWait
<1>4. CASE PostEnds
  BY <1>4, HoverCardAssumption DEF HoverCardAssumption, PostEnds, TimersWait
<1>5. CASE ReloadEnds
  <2>1. \A t \in timers : t.shown = retryMessage /\ retryMessage # Nil => twin
    BY <1>5 DEF ReloadEnds, TimersWait
  <2>2. /\ timers' = timers \cup {[shown |-> retryMessage, left |-> MessageTime]}
        /\ lasted' = 0 /\ retrying' = "no" /\ UNCHANGED <<retryMessage, twin>>
    BY <1>5 DEF ReloadEnds
  <2> QED BY <1>a, <2>1, <2>2 DEF TimersWait
<1>6. ASSUME NEW t \in timers, TimerFires(t) PROVE TimersWait'
  BY <1>6 DEF TimerFires, TimersWait
<1>7. CASE UNCHANGED hoverVars
  BY <1>7 DEF hoverVars, retryVars, TimersWait
<1> QED BY <1>1, <1>2, <1>3, <1>4, <1>5, <1>6, <1>7 DEF HoverNext

\* The outcome of a retry is shown for its time, for any number of timers that overlap: only
\* one that was begun with an equal message can hide it earlier.
THEOREM OutcomeShownInFull == HoverSpec => ShownInFull
<1>1. HoverInit => TimersWait
  BY DEF HoverInit, TimersWait
<1>2. HoverCardInv /\ TimersWait /\ [HoverNext]_hoverVars => TimersWait'
  BY TimersInductive DEF HoverCardInv
<1>3. HoverCardInv /\ TimersWait /\ [HoverNext]_hoverVars
        => [retryMessage # Nil /\ retryMessage' = Nil =>
               twin \/ (lasted = MessageTime /\ retrying # "reloading")]_hoverVars
  <2> SUFFICES ASSUME HoverCardInv, TimersWait, HoverNext, retryMessage # Nil, retryMessage' = Nil
               PROVE  twin \/ (lasted = MessageTime /\ retrying # "reloading")
    BY DEF hoverVars, retryVars
  <2>1. PICK t \in timers : TimerFires(t)
    <3>1. ~PostEnds
      BY HoverCardAssumption DEF PostEnds, HoverCardAssumption
    <3> QED BY <3>1 DEF HoverNext, Tick, Open, Serve, Reply, CardFails, TimedOut, EndRequest,
                        Close, RetryFailedFetches, ReloadEnds, retryVars
  <2>2. t.left = 0 /\ t.shown = retryMessage
    BY <2>1 DEF TimerFires
  <2>3. lasted \in 0 .. MessageTime /\ MessageTime \in Nat
    BY HoverCardAssumption DEF HoverCardAssumption, HoverCardInv, HoverCardTypeOK
  <2> QED BY <2>2, <2>3 DEF TimersWait
<1> QED BY <1>1, <1>2, <1>3, HoverCardInvariant, PTL DEF HoverSpec, ShownInFull

\* Whatever is shown for the time being has someone who will end it: a card that says
\* "Reading changes..." has its request, a disabled button has its retry, and a message has
\* the reload of its retry or a timer that will hide it, however cards, retries and timers
\* overlap (RepoHoverCard.swift, retryFailedFetches of AppModel.swift).
SomeoneEndsIt ==
    /\ card = "reading" <=> request # Nil
    /\ isRetryingFetch <=> retrying # "no"
    /\ retryMessage # Nil =>
          retrying = "reloading" \/ \E t \in timers : t.shown = retryMessage

LEMMA EndInductive ==
    ASSUME HoverCardTypeOK, SomeoneEndsIt, [HoverNext]_hoverVars
    PROVE  SomeoneEndsIt'
<1>a. /\ isRetryingFetch \in BOOLEAN
      /\ \A t \in timers : t \in [shown : Messages \cup {Nil}, left : 0 .. MessageTime]
  BY DEF HoverCardTypeOK
<1>1. CASE Tick
  <2>1. request' # Nil <=> request # Nil
    <3>1. request # Nil => request' # Nil
      <4> SUFFICES ASSUME request # Nil PROVE request' # Nil
        OBVIOUS
      <4>1. request.sent \in Nat /\ request.age \in Nat \cup {Nil}
        BY HoverCardAssumption DEF HoverCardAssumption, HoverCardTypeOK
      <4>2. request.sent + 1 \in Nat /\ Older(request.age) \in Nat \cup {Nil}
        BY <4>1 DEF Older
      <4>3. request' = [sent |-> request.sent + 1, age |-> Older(request.age)]
        BY <1>1 DEF Tick
      <4> QED BY <4>2, <4>3, NilFacts
    <3> QED BY <1>1, <3>1 DEF Tick
  <2>2. (\E t \in timers : t.shown = retryMessage) => \E t \in timers' : t.shown = retryMessage
    <3> SUFFICES ASSUME NEW u \in timers, u.shown = retryMessage
                 PROVE  \E t \in timers' : t.shown = retryMessage
      OBVIOUS
    <3> DEFINE t == [u EXCEPT !.left = IF @ > 0 THEN @ - 1 ELSE 0]
    <3>1. t \in timers'
      BY <1>1 DEF Tick
    <3>2. t.shown = u.shown
      BY <1>a
    <3> HIDE DEF t
    <3> QED BY <3>1, <3>2
  <2>3. UNCHANGED <<card, isRetryingFetch, retrying, retryMessage>>
    BY <1>1 DEF Tick
  <2> QED BY <2>1, <2>2, <2>3 DEF SomeoneEndsIt
<1>2. CASE Open \/ Serve \/ Reply \/ CardFails \/ TimedOut \/ Close
  <2>1. UNCHANGED <<isRetryingFetch, retrying, retryMessage, timers>>
    BY <1>2 DEF Open, Serve, Reply, CardFails, TimedOut, EndRequest, Close, retryVars
  <2>2. card' = "reading" <=> request' # Nil
    <3>1. CASE Open
      BY <3>1, NilFacts DEF Open, SomeoneEndsIt
    <3>2. CASE Serve
      <4>1. request \in [sent : 0 .. Limit, age : Nat \cup {Nil}]
        BY <3>2 DEF Serve, HoverCardTypeOK
      <4>2. request.sent \in Nat /\ request' = [sent |-> request.sent, age |-> 0]
        BY <3>2, <4>1, HoverCardAssumption DEF Serve, HoverCardAssumption
      <4> QED BY <3>2, <4>2, NilFacts DEF Serve, SomeoneEndsIt
    <3>3. CASE Reply \/ CardFails \/ TimedOut \/ Close
      BY <3>3 DEF Reply, CardFails, TimedOut, EndRequest, Close
    <3> QED BY <1>2, <3>1, <3>2, <3>3
  <2> QED BY <2>1, <2>2 DEF SomeoneEndsIt
<1>3. CASE RetryFailedFetches \/ PostEnds
  BY <1>3 DEF RetryFailedFetches, PostEnds, cardVars, SomeoneEndsIt
<1>4. CASE ReloadEnds
  <2> DEFINE new == [shown |-> retryMessage, left |-> MessageTime]
  <2>1. /\ timers' = timers \cup {new} /\ new.shown = retryMessage
        /\ isRetryingFetch' = FALSE /\ retrying' = "no"
        /\ UNCHANGED <<card, request, retryMessage>>
    BY <1>4 DEF ReloadEnds, cardVars
  <2> HIDE DEF new
  <2> QED BY <2>1 DEF SomeoneEndsIt
<1>5. ASSUME NEW t \in timers, TimerFires(t) PROVE SomeoneEndsIt'
  BY <1>5 DEF TimerFires, cardVars, SomeoneEndsIt
<1>6. CASE UNCHANGED hoverVars
  BY <1>6 DEF hoverVars, cardVars, retryVars, SomeoneEndsIt
<1> QED BY <1>1, <1>2, <1>3, <1>4, <1>5, <1>6 DEF HoverNext

THEOREM SomeoneAlwaysEndsIt == HoverSpec => []SomeoneEndsIt
<1>1. HoverInit => SomeoneEndsIt
  BY DEF HoverInit, SomeoneEndsIt
<1>2. HoverCardInv /\ SomeoneEndsIt /\ [HoverNext]_hoverVars => SomeoneEndsIt'
  BY EndInductive DEF HoverCardInv
<1> QED BY <1>1, <1>2, HoverCardInvariant, PTL DEF HoverSpec
=============================================================================
