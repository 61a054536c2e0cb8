--------------------------------- MODULE Tray ----------------------------------
(***************************************************************************)
(* The Windows client (AppModel.cs, with the events of TrayApp.cs and      *)
(* PanelForm.cs).  Everything runs on the UI thread, but every request is  *)
(* awaited there; a reload that is asked for while another is under way is *)
(* dropped (`_busy`).                                                      *)
(***************************************************************************)
EXTENDS ClientReload

VARIABLES
    isPanelOpen, isScanning,
    due,      \* whether the timer has fired
    _busy,
    (* History: no guard reads it. *)
    opened    \* the revision served when the panel was last opened, None once hidden

uiVars == <<isPanelOpen, isScanning, due, opened>>
vars == <<reloadVars, uiVars, _busy>>

\* `_busy` is set exactly while a reload is under way, whichever way it ends.
TrayTypeOK ==
    /\ ReloadTypeOK
    /\ _busy = \E t \in Tasks : Running(t)
    /\ <<isPanelOpen, isScanning, due, _busy>> \in BOOLEAN \X BOOLEAN \X BOOLEAN \X BOOLEAN
    /\ opened \in Revisions \cup {None}

Init ==
    /\ ReloadInit
    /\ isPanelOpen = FALSE /\ isScanning = FALSE /\ due = FALSE
    /\ _busy = FALSE
    /\ opened = None

-----------------------------------------------------------------------------
\* Variant: reloads overlap.
ReloadAnytime(trigger, list) ==
    /\ _busy' = TRUE
    /\ \E t \in Tasks : Begin(t, trigger, list)
    /\ UNCHANGED connectionError

\* ReloadAsync up to its first await.
ReloadAsync(trigger, list) ==
    IF _busy THEN UNCHANGED <<reloadVars, _busy>>
    ELSE /\ _busy' = TRUE
         /\ \E t \in Tasks : Begin(t, trigger, list)
         /\ UNCHANGED connectionError

TimerFires ==
    /\ ~due
    /\ due' = TRUE
    /\ UNCHANGED <<reloadVars, isPanelOpen, isScanning, _busy, opened>>

\* Variant: the list is only read with a trigger.
OnTickBadgeOnly ==
    /\ due
    /\ due' = FALSE
    /\ ReloadAsync("none", FALSE)
    /\ UNCHANGED <<isPanelOpen, isScanning, opened>>

\* The timer goes on with the interval of the panel as it is now.
OnTick ==
    /\ due
    /\ due' = FALSE
    /\ ReloadAsync("none", isPanelOpen)
    /\ UNCHANGED <<isPanelOpen, isScanning, opened>>

\* Setting the interval restarts the timer.
PanelOpened ==
    /\ ~isPanelOpen
    /\ isPanelOpen' = TRUE
    /\ due' = FALSE
    /\ opened' = board
    /\ ReloadAsync("check", TRUE)
    /\ UNCHANGED isScanning

PanelClosed ==
    /\ isPanelOpen
    /\ isPanelOpen' = FALSE
    /\ due' = FALSE
    /\ opened' = None
    /\ UNCHANGED <<reloadVars, isScanning, _busy>>

\* Refresh: the button of the panel, disabled during a scan, and the tray menu.
RefreshAsync ==
    /\ ReloadAsync("check", TRUE)
    /\ UNCHANGED uiVars

\* Rescan, likewise; a dropped reload is over at once.
RescanAsync ==
    /\ ReloadAsync("scan", TRUE)
    /\ isScanning' = ~_busy
    /\ UNCHANGED <<isPanelOpen, due, opened>>

\* Variant: a rescan that fails leaves its flag set.
DeliverThrowing(t) ==
    /\ \/ Receive(t) /\ isScanning' = (isScanning /\ ~(Ends(t) /\ task[t].trigger = "scan"))
       \/ Fail(t) /\ UNCHANGED isScanning
    /\ _busy' = (_busy /\ ~Ends(t))
    /\ UNCHANGED <<isPanelOpen, due, opened>>

\* The rest of ReloadAsync, and of RescanAsync after it.
Deliver(t) ==
    /\ Receive(t) \/ Fail(t)
    /\ _busy' = (_busy /\ ~Ends(t))
    /\ isScanning' = (isScanning /\ ~(Ends(t) /\ task[t].trigger = "scan"))
    /\ UNCHANGED <<isPanelOpen, due, opened>>

Service ==
    /\ Save \/ \E t \in Tasks : Answer(t)
    /\ UNCHANGED <<uiVars, _busy>>

Next ==
    \/ Service
    \/ TimerFires \/ OnTick
    \/ PanelOpened \/ PanelClosed \/ RefreshAsync \/ RescanAsync
    \/ \E t \in Tasks : Deliver(t)

Spec == Init /\ [][Next]_vars

\* The service answers, replies are applied; the timer fires unless the panel is opened or
\* closed for ever, which restarts it each time.
Fairness ==
    /\ WF_vars(TimerFires \/ PanelOpened \/ PanelClosed)
    /\ WF_vars(OnTick)
    /\ \A t \in Tasks :
          /\ WF_vars(Answer(t) /\ UNCHANGED <<uiVars, _busy>>)
          /\ WF_vars(Deliver(t))

FairSpec == Spec /\ Fairness

-----------------------------------------------------------------------------
\* What the tray shows never goes back to an earlier revision of what the service serves: no
\* reload applies its replies after a later one did.  (The revisions are in the order in
\* which the service stored them, which a late save makes another than that of the disk.)
NeverBackwards == [][summary' >= summary /\ repos' >= repos]_vars

\* The buttons that a rescan disables come back with it, however it ends and whatever was
\* dropped meanwhile: the flag is never left behind by a rescan that is over.
ScanningIsReal ==
    isScanning => \E t \in Tasks : Running(t) /\ task[t].trigger = "scan"

\* Once the service stores nothing more, badge and list of a panel that stays open come to
\* what it serves, also if the refresh on opening was dropped or failed: the ticks see to it.
TrayCatchesUp ==
    <>[]isPanelOpen => <>[](summary = board /\ repos = board /\ ~connectionError)

\* "switch to the fast cadence and pull fresh, fully re-checked data right now"
\* (AppModel.cs:81): the reload that ends first after the panel was opened, if it got all
\* its replies, leaves the panel no older than what was served then.
OpenPullsFresh ==
    [][\A t \in Tasks :
          Ends(t) /\ isPanelOpen /\ ~connectionError' => repos' >= opened]_vars

\* "True while a (potentially slower) rescan is in flight" (AppModel.cs:21): the converse of
\* ScanningIsReal.
ScanningIsShown ==
    \A t \in Tasks : Running(t) /\ task[t].trigger = "scan" => isScanning
=============================================================================
