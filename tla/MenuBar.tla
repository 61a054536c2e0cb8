-------------------------------- MODULE MenuBar --------------------------------
(***************************************************************************)
(* The macOS client (AppModel.swift, with the buttons of MenuContent.swift *)
(* and the events of GitCheckerBarApp.swift).  Everything runs on the main *)
(* actor, but every request is awaited there: the background poll and the  *)
(* tasks that the panel, its buttons and a restart of the service begin    *)
(* overlap, and each applies its replies as they arrive.  A click only     *)
(* makes such a task, which begins later; a button is disabled by what     *)
(* runs, not by the clicks before.                                         *)
(***************************************************************************)
EXTENDS ClientReload

CONSTANT Poll  \* the task that start() begins

ASSUME MenuBarAssumption == Poll \in Tasks

VARIABLES
    isPanelOpen, isScanning, isRestarting,
    clicked,  \* what each task that has not begun was made for
    (* History: no guard reads it. *)
    doubled   \* the operations that were under way twice, and still are

uiVars == <<isPanelOpen, clicked>>
flagVars == <<isScanning, isRestarting, doubled>>
vars == <<reloadVars, uiVars, flagVars>>

UITasks == Tasks \ {Poll}

MenuBarTypeOK ==
    /\ ReloadTypeOK
    /\ isPanelOpen \in BOOLEAN /\ isScanning \in BOOLEAN /\ isRestarting \in BOOLEAN
    /\ clicked \in [UITasks -> {"none", "check", "scan", "restart"}]
    /\ doubled \subseteq {"scan", "restart"}

Init ==
    /\ ReloadInit
    /\ isPanelOpen = FALSE /\ isScanning = FALSE /\ isRestarting = FALSE
    /\ clicked = [t \in UITasks |-> "none"]
    /\ doubled = {}

\* An operation of this kind is under way.
Busy(operation) == \E t \in Tasks : Running(t) /\ task[t].trigger = operation

-----------------------------------------------------------------------------
\* Variant: the poll never reads the list.
PollBadgeOnly ==
    /\ Begin(Poll, "none", FALSE)
    /\ UNCHANGED <<connectionError, uiVars, flagVars>>

\* The loop of start(): the list is read only if the panel is open at this time.
PollReload ==
    /\ Begin(Poll, "none", isPanelOpen)
    /\ UNCHANGED <<connectionError, uiVars, flagVars>>

\* Task { ... }
Make(t, operation) ==
    /\ ~Running(t)
    /\ clicked[t] = "none"
    /\ clicked' = [clicked EXCEPT ![t] = operation]
    /\ UNCHANGED <<reloadVars, flagVars>>

PanelOpened(t) ==
    /\ ~isPanelOpen
    /\ isPanelOpen' = TRUE
    /\ Make(t, "check")

PanelClosed ==
    /\ isPanelOpen
    /\ isPanelOpen' = FALSE
    /\ UNCHANGED <<reloadVars, clicked, flagVars>>

\* The button Refresh, unless disabled, or the button Start of an offline panel, which
\* also refreshes and is never disabled.
ClickRefresh(t) ==
    /\ isPanelOpen
    /\ (~isScanning /\ ~isRestarting) \/ connectionError
    /\ Make(t, "check")
    /\ UNCHANGED isPanelOpen

ClickRescan(t) ==
    /\ isPanelOpen
    /\ ~isScanning /\ ~isRestarting
    /\ Make(t, "scan")
    /\ UNCHANGED isPanelOpen

ClickRestart(t) ==
    /\ isPanelOpen
    /\ ~isRestarting
    /\ Make(t, "restart")
    /\ UNCHANGED isPanelOpen

\* A task that was made for an operation begins.
Takes(t, operation) ==
    /\ clicked[t] = operation
    /\ clicked' = [clicked EXCEPT ![t] = "none"]
    /\ doubled' = doubled \cup {o \in {operation} \ {"check"} : Busy(o)}
    /\ UNCHANGED <<connectionError, isPanelOpen>>

Refresh(t) ==
    /\ Takes(t, "check")
    /\ Begin(t, "check", TRUE)
    /\ UNCHANGED <<isScanning, isRestarting>>

Rescan(t) ==
    /\ Takes(t, "scan")
    /\ isScanning' = TRUE
    /\ Begin(t, "scan", TRUE)
    /\ UNCHANGED isRestarting

\* restartService: launchctl kickstart, then ping the service until it answers, or until
\* it has not a dozen times.  (The pings are not counted.)
RestartService(t) ==
    /\ Takes(t, "restart")
    /\ isRestarting' = TRUE
    /\ BeginAt(t, "ping", "restart", FALSE)
    /\ UNCHANGED isScanning

PingOk(t) ==
    /\ task[t].at = "ping"
    /\ task' = [task EXCEPT ![t].at = "summary", ![t].list = isPanelOpen]
    /\ UNCHANGED <<board, summary, repos, connectionError, faults, uiVars, flagVars>>

\* Variant: a rescan that fails leaves its flag set.
ResetUnlessFailed(t) ==
    /\ isScanning' = (isScanning /\ ~(Ends(t) /\ task[t].trigger = "scan" /\ ~connectionError'))
    /\ isRestarting' = (isRestarting /\ ~(Ends(t) /\ task[t].trigger = "restart"))
    /\ doubled' = {o \in doubled : Busy(o)'}

\* The flag of the operation whose task ends is reset, whichever way it ends.
ResetFlags(t) ==
    /\ isScanning' = (isScanning /\ ~(Ends(t) /\ task[t].trigger = "scan"))
    /\ isRestarting' = (isRestarting /\ ~(Ends(t) /\ task[t].trigger = "restart"))
    /\ doubled' = {o \in doubled : Busy(o)'}

\* "service didn't restart"
GiveUp(t) ==
    /\ task[t].at = "ping"
    /\ faults < MaxFaults
    /\ faults' = faults + 1
    /\ task' = [task EXCEPT ![t] = Idle]
    /\ connectionError' = TRUE
    /\ ResetFlags(t)
    /\ UNCHANGED <<board, summary, repos, uiVars>>

\* A reply or a failure arrives.
Deliver(t) ==
    /\ Receive(t) \/ ReceiveConfig(t) \/ Fail(t)
    /\ ResetFlags(t)
    /\ UNCHANGED <<uiVars>>

Service ==
    /\ Save \/ \E t \in Tasks : Answer(t)
    /\ UNCHANGED <<uiVars, flagVars>>

User ==
    \/ PanelClosed
    \/ \E t \in UITasks : PanelOpened(t) \/ ClickRefresh(t) \/ ClickRescan(t) \/ ClickRestart(t)

Next ==
    \/ Service
    \/ User
    \/ PollReload
    \/ \E t \in UITasks : Refresh(t) \/ Rescan(t) \/ RestartService(t)
    \/ \E t \in Tasks : Deliver(t) \/ PingOk(t) \/ GiveUp(t)

Spec == Init /\ [][Next]_vars

\* The service answers, the poll goes on, replies are applied, a restart ends; the user need
\* not do anything, nor the service store anything.
Fairness ==
    /\ WF_vars(PollReload)
    /\ \A t \in Tasks :
          /\ WF_vars(Answer(t) /\ UNCHANGED <<uiVars, flagVars>>)
          /\ WF_vars(Deliver(t))
          /\ WF_vars(PingOk(t) \/ GiveUp(t))

FairSpec == Spec /\ Fairness

-----------------------------------------------------------------------------
\* "True while a (potentially slower) rescan is in flight" (AppModel.swift:16), and the
\* same for restarts: no flag is left behind, with its buttons disabled, and none is missing
\* unless two of its operations have overlapped.  (Two quick clicks make two tasks; the one
\* that ends first takes the flag from the other.)
FlagsTellTheTruth ==
    /\ isScanning => Busy("scan")
    /\ isRestarting => Busy("restart")
    /\ Busy("scan") /\ "scan" \notin doubled => isScanning
    /\ Busy("restart") /\ "restart" \notin doubled => isRestarting

\* Once the service stores nothing more, the badge comes to what it serves whatever the
\* user does with the panel, however reloads overlap and whatever failed before; so does
\* the list of a panel that stays open.
ClientCatchesUp ==
    /\ <>[](summary = board /\ ~connectionError)
    /\ <>[]isPanelOpen => <>[](repos = board)

\* "so the Issues tab always matches the menu bar badge" (AppModel.swift:45), at rest:
\* with the panel open, no error shown and no reload under way.
IssuesMatchBadge ==
    isPanelOpen /\ ~connectionError /\ (\A t \in Tasks : ~Running(t)) =>
        Risk(repos) = Risk(summary)

\* "The panel became visible: pull fresh, fully re-checked data right now."
\* (AppModel.swift:80): once its refresh is done, the panel shows nothing older, until
\* the next reload begins.
OpenShowsCurrent ==
    [][\A t \in UITasks :
          Ends(t) /\ task[t].trigger = "check" /\ ~connectionError' =>
              repos' >= task[t].answered]_vars
=============================================================================
