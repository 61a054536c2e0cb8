------------------------------ MODULE TrayProofs ------------------------------
(***************************************************************************)
(* Proofs about Tray, for any number of tasks, revisions and failures.      *)
(***************************************************************************)
EXTENDS Tray, ClientReloadProofs

\* What `_busy` is for: reloads do not overlap.
OneAtATime == \A t, u \in Tasks : Running(t) /\ Running(u) => t = u

\* What is shown, and the reply that is still to be applied, are no later revisions than the
\* one the service serves; that reply is no earlier one than what is shown.
InOrder ==
    /\ summary <= board /\ repos <= board
    /\ \A t \in Tasks : task[t].reply # None =>
          /\ Running(t)
          /\ summary <= task[t].reply /\ repos <= task[t].reply /\ task[t].reply <= board

TrayInv == TrayTypeOK /\ OneAtATime /\ InOrder

LEMMA InitTray == Init => TrayInv
<1> SUFFICES ASSUME Init PROVE TrayInv
  OBVIOUS
<1>1. \A t \in Tasks : ~Running(t) /\ task[t].reply = None
  BY IdleType DEF Init, ReloadInit, Running
<1>2. ReloadTypeOK
  BY InitReload DEF Init
<1>3. TrayTypeOK
  BY <1>1, <1>2 DEF Init, TrayTypeOK
<1>4. summary <= board /\ repos <= board
  BY <1>2, BoardIsARevision DEF Init, ReloadInit, None
<1> QED BY <1>1, <1>3, <1>4 DEF TrayInv, OneAtATime, InOrder

\* Numbers, where InOrder compares them.
LEMMA TrayNumbers ==
    ASSUME ReloadTypeOK
    PROVE  /\ board \in Int /\ summary \in Int /\ repos \in Int
           /\ \A t \in Tasks : task[t].reply \in Int /\ task[t].reply \in Revisions \cup {None}
<1>1. \A v \in Revisions \cup {None} : v \in Int
  BY RevisionFacts
<1>2. board \in Int
  BY RevisionFacts DEF ReloadTypeOK
<1>3. summary \in Int /\ repos \in Int
  BY <1>1 DEF ReloadTypeOK
<1>4. ASSUME NEW t \in Tasks
      PROVE  task[t].reply \in Int /\ task[t].reply \in Revisions \cup {None}
  BY <1>1 DEF ReloadTypeOK, Reload
<1> QED BY <1>2, <1>3, <1>4

\* Nothing shown changes, no reload begins or ends, and new replies come from the board.
LEMMA StillInOrder ==
    ASSUME TrayInv, ReloadTypeOK', board' >= board, UNCHANGED <<summary, repos>>,
           \A t \in Tasks : /\ Running(t)' <=> Running(t)
                            /\ \/ task'[t].reply \in {task[t].reply, None}
                               \/ task'[t].reply = board' /\ Running(t)
    PROVE  OneAtATime' /\ InOrder'
<1>1. /\ board \in Int /\ summary \in Int /\ repos \in Int /\ board' \in Int
      /\ \A t \in Tasks : task[t].reply \in Int
  <2>1. board' \in Nat
    BY RevisionFacts DEF ReloadTypeOK
  <2>2. ReloadTypeOK
    BY DEF TrayInv, TrayTypeOK
  <2> QED BY <2>1, <2>2, TrayNumbers
<1>2. OneAtATime'
  BY DEF TrayInv, OneAtATime
<1>3. summary' <= board' /\ repos' <= board'
  BY <1>1 DEF TrayInv, InOrder
<1>4. ASSUME NEW t \in Tasks, task'[t].reply # None
      PROVE  /\ Running(t)'
             /\ summary' <= task'[t].reply /\ repos' <= task'[t].reply
             /\ task'[t].reply <= board'
  BY <1>1, <1>3, <1>4 DEF TrayInv, InOrder
<1> QED BY <1>2, <1>3, <1>4 DEF InOrder

LEMMA ReloadAsyncKeeps ==
    ASSUME TrayInv, NEW trigger \in {"none", "check", "scan"}, NEW withList \in BOOLEAN,
           ReloadAsync(trigger, withList)
    PROVE  /\ ReloadTypeOK' /\ OneAtATime' /\ InOrder'
           /\ _busy' \in BOOLEAN /\ _busy' = (\E t \in Tasks : Running(t))'
           /\ UNCHANGED <<board, summary, repos>>
<1>1. CASE _busy
  <2>1. UNCHANGED <<reloadVars, _busy>>
    BY <1>1 DEF ReloadAsync
  <2>2. ReloadTypeOK /\ ReloadTypeOK'
    BY <2>1 DEF TrayInv, TrayTypeOK, ReloadTypeOK, reloadVars
  <2>3. OneAtATime' /\ InOrder'
    BY <2>1 DEF TrayInv, OneAtATime, InOrder, Running, reloadVars
  <2>4. _busy' \in BOOLEAN /\ _busy' = (\E t \in Tasks : Running(t))'
    BY <2>1 DEF TrayInv, TrayTypeOK, Running, reloadVars
  <2> QED BY <2>1, <2>2, <2>3, <2>4 DEF reloadVars
<1>2. CASE ~_busy
  <2>1. PICK t \in Tasks, at \in {"summary", "post"} : BeginAt(t, at, trigger, withList)
    BY <1>2 DEF ReloadAsync, Begin
  <2>2. _busy' = TRUE /\ UNCHANGED connectionError
    BY <1>2 DEF ReloadAsync
  <2>3. at \in At /\ trigger \in Triggers
    BY DEF At, Triggers
  <2>4. /\ ReloadTypeOK'
        /\ task'[t].at = at /\ task'[t].reply = None
        /\ \A u \in Tasks \ {t} : task'[u].at = task[u].at /\ task'[u].reply = task[u].reply
        /\ UNCHANGED <<board, summary, repos, faults>>
    BY <2>1, <2>2, <2>3, BeginType DEF TrayInv, TrayTypeOK
  <2>5. \A u \in Tasks : ~Running(u) /\ task[u].reply = None
    BY <1>2 DEF TrayInv, TrayTypeOK, InOrder
  <2>6. \A u \in Tasks : (Running(u)' <=> u = t) /\ task'[u].reply = None
    BY <2>4, <2>5 DEF Running
  <2> QED BY <2>2, <2>4, <2>6 DEF TrayInv, OneAtATime, InOrder
<1> QED BY <1>1, <1>2

LEMMA DeliverKeeps ==
    ASSUME TrayInv, NEW t \in Tasks, Deliver(t)
    PROVE  /\ TrayInv'
           /\ summary' >= summary /\ repos' >= repos
<1>1. /\ ReloadTypeOK'
      /\ task[t].at \in At \ {"idle", "ping"}
      /\ GoesOn(t) \/ task'[t] = Idle
      /\ \A u \in Tasks \ {t} : task'[u] = task[u]
      /\ UNCHANGED board
  BY DeliverType DEF Deliver, TrayInv, TrayTypeOK
<1>2. task'[t].reply = None
  BY <1>1, IdleType DEF GoesOn
<1>3. Running(t) /\ \A u \in Tasks \ {t} : ~Running(u) /\ ~Running(u)' /\ task'[u].reply = None
  BY <1>1 DEF TrayInv, OneAtATime, InOrder, Running
<1>4. Ends(t) <=> ~Running(t)'
  BY <1>3 DEF Ends, Running
<1>5. /\ board \in Int /\ summary \in Int /\ repos \in Int /\ task[t].reply \in Int
  BY TrayNumbers DEF TrayInv, TrayTypeOK
<1>6. /\ summary' >= summary /\ repos' >= repos
      /\ summary' <= board /\ repos' <= board
  BY <1>5, DeliverShows DEF Deliver, TrayInv, InOrder
<1>7. OneAtATime' /\ InOrder'
  BY <1>1, <1>2, <1>3, <1>6 DEF OneAtATime, InOrder
<1>8. TrayTypeOK'
  <2>1. _busy
    BY <1>3 DEF TrayInv, TrayTypeOK
  <2>2. _busy' = (\E u \in Tasks : Running(u))' /\ _busy' \in BOOLEAN
    BY <1>3, <1>4, <2>1 DEF Deliver
  <2>3. isScanning' \in BOOLEAN /\ UNCHANGED <<isPanelOpen, due, opened>>
    BY DEF Deliver
  <2> QED BY <1>1, <2>2, <2>3 DEF TrayInv, TrayTypeOK
<1> QED BY <1>6, <1>7, <1>8 DEF TrayInv

LEMMA TrayInductive ==
    TrayInv /\ [Next]_vars => TrayInv' /\ summary' >= summary /\ repos' >= repos
<1> SUFFICES ASSUME TrayInv, [Next]_vars
             PROVE  TrayInv' /\ summary' >= summary /\ repos' >= repos
  OBVIOUS
<1>0. UNCHANGED <<summary, repos>> => summary' >= summary /\ repos' >= repos
  BY TrayNumbers DEF TrayInv, TrayTypeOK
<1>1. CASE Service
  <2>1. /\ ReloadTypeOK' /\ board' >= board
        /\ UNCHANGED <<summary, repos>>
        /\ \A t \in Tasks : /\ task'[t].at = task[t].at
                            /\ task'[t].reply \in {task[t].reply, board'}
    BY <1>1, ServiceType DEF Service, TrayInv, TrayTypeOK
  <2>2. ASSUME NEW t \in Tasks, task'[t].reply # task[t].reply PROVE Running(t)
    BY <1>1, <2>2 DEF Service, Save, Answer, Running, TrayInv, TrayTypeOK,
                      ReloadTypeOK
  <2>3. \A t \in Tasks : Running(t)' <=> Running(t)
    BY <2>1 DEF Running
  <2>4. OneAtATime' /\ InOrder'
    BY <2>1, <2>2, <2>3, StillInOrder
  <2>5. TrayTypeOK'
    BY <1>1, <2>1, <2>3 DEF Service, uiVars, TrayInv, TrayTypeOK
  <2> QED BY <1>0, <2>1, <2>4, <2>5 DEF TrayInv
<1>2. ASSUME NEW trigger \in {"none", "check", "scan"}, NEW withList \in BOOLEAN,
             ReloadAsync(trigger, withList),
             isPanelOpen' \in BOOLEAN, isScanning' \in BOOLEAN, due' \in BOOLEAN,
             opened' \in Revisions \cup {None}
      PROVE  TrayInv' /\ summary' >= summary /\ repos' >= repos
  BY <1>0, <1>2, ReloadAsyncKeeps DEF TrayInv, TrayTypeOK
<1>3. /\ isPanelOpen \in BOOLEAN /\ isScanning \in BOOLEAN /\ due \in BOOLEAN
      /\ _busy \in BOOLEAN /\ opened \in Revisions \cup {None} /\ board \in Revisions
  BY DEF TrayInv, TrayTypeOK, ReloadTypeOK
<1>4. CASE UNCHANGED <<reloadVars, _busy>> /\ isPanelOpen' \in BOOLEAN /\ due' \in BOOLEAN
           /\ isScanning' \in BOOLEAN /\ opened' \in Revisions \cup {None}
  BY <1>0, <1>3, <1>4 DEF reloadVars, TrayInv, TrayTypeOK, ReloadTypeOK, OneAtATime, InOrder, Running
<1>5. CASE TimerFires
  BY <1>3, <1>4, <1>5 DEF TimerFires
<1>6. CASE OnTick
  BY <1>2, <1>3, <1>6 DEF OnTick
<1>7. CASE PanelOpened
  BY <1>2, <1>3, <1>7 DEF PanelOpened
<1>8. CASE PanelClosed
  BY <1>3, <1>4, <1>8 DEF PanelClosed
<1>9. CASE RefreshAsync
  BY <1>2, <1>3, <1>9 DEF RefreshAsync, uiVars
<1>10. CASE RescanAsync
  BY <1>2, <1>3, <1>10 DEF RescanAsync
<1>11. ASSUME NEW t \in Tasks, Deliver(t)
       PROVE  TrayInv' /\ summary' >= summary /\ repos' >= repos
  BY <1>11, DeliverKeeps
<1>12. CASE UNCHANGED vars
  BY <1>3, <1>4, <1>12 DEF vars, uiVars
<1> QED BY <1>1, <1>5, <1>6, <1>7, <1>8, <1>9, <1>10, <1>11, <1>12 DEF Next

LEMMA TrayInvariant == Spec => []TrayInv
<1>1. TrayInv /\ [Next]_vars => TrayInv'
  BY TrayInductive
<1> QED BY <1>1, InitTray, PTL DEF Spec

\* The variables of the Windows client keep their types, and `_busy` is set exactly while
\* a reload is under way.
THEOREM TrayTypeCorrect == Spec => []TrayTypeOK
<1>1. TrayInv => TrayTypeOK
  BY DEF TrayInv
<1> QED BY <1>1, TrayInvariant, PTL

\* At most one reload is under way, and so the reply that is still to be applied is no
\* earlier revision of what the service serves than what is shown.
THEOREM TrayNeverOverlaps == Spec => [](OneAtATime /\ InOrder)
<1>1. TrayInv => OneAtATime /\ InOrder
  BY DEF TrayInv
<1> QED BY <1>1, TrayInvariant, PTL

\* What the tray shows never goes back to an earlier revision of what the service serves.
THEOREM ShowsNeverBackwards == Spec => NeverBackwards
<1>1. TrayInv /\ [Next]_vars => [summary' >= summary /\ repos' >= repos]_vars
  BY TrayInductive
<1> QED BY <1>1, TrayInvariant, PTL DEF Spec, NeverBackwards

\* Only a rescan that begins sets the flag, and the only reload that ends resets it.
LEMMA ScanningInductive ==
    ASSUME TrayInv, ScanningIsReal, [Next]_vars
    PROVE  ScanningIsReal'
<1> DEFINE Scans(t) == Running(t) /\ task[t].trigger = "scan"
<1>1. ASSUME isScanning' => isScanning, \A t \in Tasks : Scans(t) => Scans(t)'
      PROVE  ScanningIsReal'
  BY <1>1 DEF ScanningIsReal
<1>2. ASSUME ~_busy PROVE ~isScanning
  BY <1>2 DEF TrayInv, TrayTypeOK, ScanningIsReal
<1>3. ASSUME NEW trigger \in {"none", "check"}, NEW withList \in BOOLEAN,
             ReloadAsync(trigger, withList), UNCHANGED isScanning
      PROVE  ScanningIsReal'
  <2>1. CASE _busy
    BY <1>1, <1>3, <2>1 DEF ReloadAsync, reloadVars, Running
  <2>2. CASE ~_busy
    BY <1>2, <1>3, <2>2 DEF ScanningIsReal
  <2> QED BY <2>1, <2>2
<1>4. CASE Service
  <2>1. \A t \in Tasks : task'[t].at = task[t].at /\ task'[t].trigger = task[t].trigger
    BY <1>4, ServiceType DEF Service, TrayInv, TrayTypeOK
  <2> QED BY <1>1, <1>4, <2>1 DEF Service, uiVars, Running
<1>5. CASE TimerFires \/ PanelClosed \/ UNCHANGED vars
  BY <1>1, <1>5 DEF TimerFires, PanelClosed, vars, uiVars, reloadVars, Running
<1>6. CASE OnTick
  BY <1>3, <1>6 DEF OnTick, TrayInv, TrayTypeOK
<1>7. CASE PanelOpened
  BY <1>3, <1>7 DEF PanelOpened
<1>8. CASE RefreshAsync
  BY <1>3, <1>8 DEF RefreshAsync, uiVars
<1>9. CASE RescanAsync
  <2>1. CASE _busy
    BY <1>9, <2>1 DEF RescanAsync, ScanningIsReal
  <2>2. CASE ~_busy
    <3>1. PICK t \in Tasks, at \in {"summary", "post"} : BeginAt(t, at, "scan", TRUE)
      BY <1>9, <2>2 DEF RescanAsync, ReloadAsync, Begin
    <3>2. UNCHANGED connectionError
      BY <1>9, <2>2 DEF RescanAsync, ReloadAsync
    <3>3. task'[t].at = at /\ task'[t].trigger = "scan"
      <4>1. at \in At /\ "scan" \in Triggers /\ TRUE \in BOOLEAN /\ ReloadTypeOK
        BY DEF At, Triggers, TrayInv, TrayTypeOK
      <4> QED BY <3>1, <3>2, <4>1, BeginType
    <3>4. Scans(t)'
      BY <3>1, <3>3 DEF Running
    <3> QED BY <3>4 DEF ScanningIsReal
  <2> QED BY <2>1, <2>2
<1>10. ASSUME NEW t \in Tasks, Deliver(t) PROVE ScanningIsReal'
  <2>1. /\ task[t].at \in At \ {"idle", "ping"}
        /\ GoesOn(t) \/ task'[t] = Idle
        /\ \A u \in Tasks \ {t} : task'[u] = task[u]
    BY <1>10, DeliverType DEF Deliver, TrayInv, TrayTypeOK
  <2>2. isScanning' = (isScanning /\ ~(Ends(t) /\ task[t].trigger = "scan"))
    BY <1>10 DEF Deliver
  <2>3. \A u \in Tasks \ {t} : ~Running(u)
    BY <2>1 DEF TrayInv, OneAtATime, Running
  <2>4. CASE GoesOn(t)
    BY <1>1, <2>1, <2>2, <2>4 DEF GoesOn, Running
  <2>5. CASE task'[t] = Idle
    <3>1. Ends(t)
      BY <2>1, <2>5, IdleType DEF Ends, Running
    <3> QED BY <2>2, <2>3, <3>1 DEF ScanningIsReal
  <2> QED BY <2>1, <2>4, <2>5
<1> QED BY <1>4, <1>5, <1>6, <1>7, <1>8, <1>9, <1>10 DEF Next

\* The flag isScanning is never left behind by a rescan that is over.
THEOREM ScanningAlwaysReal == Spec => []ScanningIsReal
<1>1. Init => ScanningIsReal
  BY DEF Init, ScanningIsReal
<1>2. TrayInv /\ ScanningIsReal /\ [Next]_vars => ScanningIsReal'
  BY ScanningInductive
<1> QED BY <1>1, <1>2, TrayInvariant, PTL DEF Spec

-----------------------------------------------------------------------------
(* Each reload has the client to itself.                                   *)

AllAlone == \A t \in Tasks : Running(t) => task[t].alone

\* A step in which no reload ends, and by which a reload that runs has run alone so far.
LEMMA NoneEnds ==
    ASSUME AllAlone,
           \A t \in Tasks : /\ Running(t) => task'[t].at # "idle"
                            /\ Running(t)' => task'[t].alone
    PROVE  AllAlone' /\ \A t \in Tasks : ~Ends(t)
BY DEF AllAlone, Ends

LEMMA ReloadAsyncAlone ==
    ASSUME TrayInv, AloneInv, AllAlone, NEW trigger \in {"none", "check", "scan"},
           NEW withList \in BOOLEAN, ReloadAsync(trigger, withList)
    PROVE  AloneInv' /\ AllAlone' /\ \A t \in Tasks : ~Ends(t)
<1>1. CASE _busy
  BY <1>1, NoneEnds DEF ReloadAsync, reloadVars, AloneInv, InStep, AllAlone, Running
<1>2. CASE ~_busy
  <2>1. PICK t \in Tasks : Begin(t, trigger, withList)
    BY <1>2 DEF ReloadAsync
  <2>2. PICK at \in {"summary", "post"} :
           BeginAt(t, at, trigger, withList) /\ (at = "summary" => trigger = "none")
    BY <2>1 DEF Begin
  <2>3. trigger \in Triggers
    BY DEF Triggers
  <2>4. AloneInv'
    BY <2>2, <2>3, BeginInStep DEF TrayInv, TrayTypeOK
  <2>5. \A u \in Tasks : ~Running(u)
    BY <1>2 DEF TrayInv, TrayTypeOK
  <2>6. task'[t].alone /\ \A u \in Tasks \ {t} : task'[u].at = task[u].at
    BY <2>2, <2>5 DEF BeginAt, TrayInv, TrayTypeOK, ReloadTypeOK, Reload
  <2>7. \A u \in Tasks : Running(u)' => task'[u].alone
    BY <2>5, <2>6 DEF Running
  <2> QED BY <2>4, <2>5, <2>7, NoneEnds DEF Running
<1> QED BY <1>1, <1>2

LEMMA AllAloneInductive ==
    ASSUME TrayInv, AloneInv, AllAlone, [Next]_vars
    PROVE  AloneInv' /\ AllAlone' /\ FreshEnd
<1> DEFINE Fine == AloneInv' /\ AllAlone' /\ FreshEnd
<1>a. ReloadTypeOK
  BY DEF TrayInv, TrayTypeOK
<1>b. ASSUME AloneInv', AllAlone', \A t \in Tasks : ~Ends(t) PROVE Fine
  BY <1>b DEF FreshEnd
<1>1. CASE Service
  <2>1. \A t \in Tasks : task'[t].at = task[t].at /\ task'[t].alone = task[t].alone
    <3>1. \A t \in Tasks : task'[t].at = task[t].at
      BY <1>1, <1>a, ServiceType DEF Service
    <3>2. CASE Save
      BY <3>1, <3>2 DEF Save
    <3>3. ASSUME NEW u \in Tasks, Answer(u)
          PROVE  \A t \in Tasks : task'[t].alone = task[t].alone
      <4>1. task' = [task EXCEPT ![u] = Answered(u)] /\ task \in [Tasks -> Reload]
        BY <1>a, <3>3, AnswerTask DEF ReloadTypeOK
      <4>2. Answered(u).alone = task[u].alone
        BY <4>1 DEF Answered, Reload
      <4> QED BY <4>1, <4>2
    <3> QED BY <1>1, <3>1, <3>2, <3>3 DEF Service
  <2>2. AloneInv'
    BY <1>1, <1>a, ServiceInStep DEF Service
  <2> QED BY <1>b, <2>1, <2>2, NoneEnds DEF AllAlone, Running
<1>2. ASSUME NEW trigger \in {"none", "check", "scan"}, NEW withList \in BOOLEAN,
             ReloadAsync(trigger, withList)
      PROVE  Fine
  BY <1>b, <1>2, ReloadAsyncAlone
<1>3. CASE UNCHANGED reloadVars
  BY <1>b, <1>3, NoneEnds DEF reloadVars, AloneInv, InStep, AllAlone, Running
<1>4. CASE TimerFires \/ PanelClosed \/ UNCHANGED vars
  BY <1>3, <1>4 DEF TimerFires, PanelClosed, vars
<1>5. CASE OnTick \/ PanelOpened \/ RefreshAsync \/ RescanAsync
  <2>1. isPanelOpen \in BOOLEAN
    BY DEF TrayInv, TrayTypeOK
  <2> QED BY <1>2, <1>5, <2>1 DEF OnTick, PanelOpened, RefreshAsync, RescanAsync
<1>6. ASSUME NEW t \in Tasks, Deliver(t) PROVE Fine
  <2>1. Receive(t) \/ Fail(t)
    BY <1>6 DEF Deliver
  <2>2. /\ AloneInv'
        /\ Ends(t) /\ task[t].alone /\ task[t].list /\ ~connectionError' =>
              /\ task[t].trigger \in {"check", "scan"} =>
                    task[t].answered # None /\ summary' >= task[t].answered
              /\ repos' >= summary'
    BY <1>a, <2>1, DeliverInStep
  <2>3. /\ \/ Running(t) /\ GoesOn(t)
           \/ task'[t] = Idle
        /\ \A u \in Tasks \ {t} : task'[u] = task[u]
    BY <1>a, <2>1, DeliverType DEF Running
  <2>4. \A u \in Tasks \ {t} : ~Ends(u)
    BY <2>3 DEF Ends, Running
  <2>5. GoesOn(t) => task'[t].alone = task[t].alone
    BY <1>a, <2>1 DEF Receive, Fail, GoOn, End, GoesOn, Idle, ReloadTypeOK, Reload
  <2>6. AllAlone'
    BY <2>3, <2>5, IdleType DEF AllAlone, Running
  <2> QED BY <2>2, <2>4, <2>6 DEF FreshEnd
<1> QED BY <1>1, <1>4, <1>5, <1>6 DEF Next

\* What AloneIsFresh says of the menu bar's undisturbed reloads holds here of every one: a
\* reload with a trigger that got all its replies shows all that was stored when the trigger
\* was answered, with a list no older than the badge (ReloadAsync of AppModel.cs).
FreshAlways ==
    \A t \in Tasks :
        Ends(t) /\ task[t].list /\ ~connectionError' =>
            /\ task[t].trigger \in {"check", "scan"} =>
                  task[t].answered # None /\ summary' >= task[t].answered
            /\ repos' >= summary'

THEOREM EveryReloadIsFresh == Spec => [][FreshAlways]_vars
<1>1. Init => AloneInv /\ AllAlone
  BY DEF Init, ReloadInit, Idle, AloneInv, AllAlone, Running
<1>2. TrayInv /\ AloneInv /\ AllAlone /\ [Next]_vars => AloneInv' /\ AllAlone'
  BY AllAloneInductive
<1>3. TrayInv /\ AloneInv /\ AllAlone /\ [Next]_vars => [FreshAlways]_vars
  BY AllAloneInductive DEF FreshEnd, FreshAlways, AllAlone, Ends
<1> QED BY <1>1, <1>2, <1>3, TrayInvariant, PTL DEF Spec

-----------------------------------------------------------------------------
(* A reply that has been overtaken.                                        *)

\* What the service stores can overtake a reply that is under way; while it stores nothing,
\* this happens to no further one, and every other reply that arrives brings the tray up to
\* what is served, where it stays.
THEOREM OvertakenRepliesDieOut == Spec => [][SettleStep]_vars
<1>1. ASSUME TrayInv, [Next]_vars PROVE SettleStep
  <2>1. ReloadTypeOK /\ NoneNewer
    <3>1. ReloadTypeOK
      BY <1>1 DEF TrayInv, TrayTypeOK
    <3>2. \A t \in Tasks : task[t].reply = None => task[t].reply <= board
      BY <3>1, BoardIsARevision DEF None
    <3> QED BY <1>1, <3>1, <3>2 DEF TrayInv, InOrder, NoneNewer
  <2>2. CASE UNCHANGED reloadVars
    BY <2>1, <2>2, StutterSettles DEF reloadVars
  <2>3. CASE Service
    BY <2>1, <2>3, ServiceSettles DEF Service
  <2>4. ASSUME NEW trigger \in {"none", "check", "scan"}, NEW withList \in BOOLEAN,
               ReloadAsync(trigger, withList)
        PROVE  SettleStep
    <3>1. CASE _busy
      BY <2>2, <2>4, <3>1 DEF ReloadAsync
    <3>2. CASE ~_busy
      <4>1. PICK t \in Tasks, at \in {"summary", "post"} : BeginAt(t, at, trigger, withList)
        BY <2>4, <3>2 DEF ReloadAsync, Begin
      <4>2. at \in At /\ trigger \in Triggers /\ UNCHANGED connectionError
        BY <2>4, <3>2 DEF At, Triggers, ReloadAsync
      <4>3. /\ task[t].at = "idle" /\ task'[t].reply = None
            /\ \A u \in Tasks \ {t} : /\ task'[u].at = task[u].at
                                      /\ task'[u].reply = task[u].reply
            /\ UNCHANGED <<board, summary, repos>>
        BY <2>1, <4>1, <4>2, BeginType
      <4> QED BY <2>1, <4>3, AsideSettles
    <3> QED BY <3>1, <3>2
  <2>5. CASE TimerFires \/ PanelClosed \/ UNCHANGED vars
    BY <2>2, <2>5 DEF TimerFires, PanelClosed, vars
  <2>6. CASE OnTick \/ PanelOpened \/ RefreshAsync \/ RescanAsync
    <3>1. isPanelOpen \in BOOLEAN
      BY <1>1 DEF TrayInv, TrayTypeOK
    <3> QED BY <2>4, <2>6, <3>1 DEF OnTick, PanelOpened, RefreshAsync, RescanAsync
  <2>7. ASSUME NEW t \in Tasks, Deliver(t) PROVE SettleStep
    BY <2>1, <2>7, DeliverSettles DEF Deliver
  <2> QED BY <1>1, <2>3, <2>5, <2>6, <2>7 DEF Next
<1>2. TrayInv /\ [Next]_vars => [SettleStep]_vars
  BY <1>1
<1> QED BY <1>2, TrayInvariant, PTL DEF Spec
=============================================================================
